---------------------------- MODULE SeasonProofs -----------------------------
(***************************************************************************)
(* Theorems about the season manager for every set of characters and every *)
(* tuning of the clock, however often a reset or a death is cut short; and *)
(* about the world that a season opens on, for all zone files that hang    *)
(* together, however often and wherever a build is cut short.              *)
(***************************************************************************)
EXTENDS Season, World, Integers, FiniteSetTheorems, TLAPS

\* The seven hooks of run_reset.
LEMMA TheHooks ==
    /\ Flushed = 8 /\ DOMAIN Hooks = 1 .. 7
    /\ \A i \in 1 .. 7 : Hooks[i] \subseteq Managers
    /\ \A m \in Managers : \E i \in 1 .. 7 : m \in Hooks[i]
<1>1. Flushed = 8 /\ DOMAIN Hooks = 1 .. 7
  BY DEF Flushed, Hooks
<1>2. \A i \in 1 .. 7 : Hooks[i] \subseteq Managers
  BY DEF Hooks, Managers
<1>3. /\ "factions" \in Hooks[1] /\ "repop" \in Hooks[2] /\ "priest" \in Hooks[3]
      /\ "shrine" \in Hooks[4] /\ "mobs" \in Hooks[6]
  BY DEF Hooks
<1> QED
  BY <1>1, <1>2, <1>3 DEF Managers

\* A placement is found by its character, its season and its outcome.
LEMMA PlacementParts ==
    ASSUME NEW c \in Characters, NEW s \in Seasons, NEW o \in Outcomes
    PROVE  <<c, s, o>> \in Placements
BY DEF Placements

LEMMA Numbers ==
    /\ MaxSeason \in Nat /\ MaxSeason > 0 /\ Seasons = 1 .. MaxSeason /\ MaxNow \in Nat
    /\ "survived" \in Outcomes /\ "fell" \in Outcomes
BY SeasonAssumption DEF Seasons, Outcomes

-----------------------------------------------------------------------------
(* The inductive invariant *)

LEMMA InitHolds == Init => IInv
<1> SUFFICES ASSUME Init PROVE IInv
  OBVIOUS
<1>1. TypeOK
  <2>1. Blank \in [Placements -> Nat] /\ [c \in Characters |-> 0] \in [Characters -> 0 .. MaxSeason]
    BY Numbers DEF Blank
  <2>2. 1 \in Seasons /\ 0 \in 0 .. MaxNow /\ 0 \in 0 .. Flushed + 3
    BY Numbers, TheHooks
  <2> QED
    BY <2>1, <2>2 DEF Init, TypeOK
<1>2. ResetHasRoom /\ DraftIsBoardAndSurvivors /\ FlushedSoFar /\ FallenAreGone
  BY TheHooks DEF Init, ResetHasRoom, DraftIsBoardAndSurvivors, FlushedSoFar, FallenAreGone, Idle
<1>3. \A c \in Characters, s \in Seasons :
        board[<<c, s, "survived">>] = 0 /\ board[<<c, s, "fell">>] = 0
  BY PlacementParts, Numbers DEF Init, Blank
<1>4. SurvivorsAreOfClosedSeasons /\ SurvivesOnce /\ OnePlacement
  <2> SUFFICES ASSUME NEW c \in Characters, NEW s \in Seasons
               PROVE  /\ ~(board[<<c, s, "survived">>] > 0)
                      /\ board[<<c, s, "survived">>] <= 1
                      /\ board[<<c, s, "survived">>] + board[<<c, s, "fell">>] <= 1
    BY DEF SurvivorsAreOfClosedSeasons, SurvivesOnce, OnePlacement
  <2> QED
    BY <1>3
<1>5. LivingAreRecorded
  BY DEF Init, LivingAreRecorded, Alive
<1> QED
  BY <1>1, <1>2, <1>4, <1>5 DEF IInv

\* Types survive every step.
LEMMA TypeStep == IInv /\ [Next]_vars => TypeOK'
<1> SUFFICES ASSUME IInv, [Next]_vars PROVE TypeOK'
  OBVIOUS
<1> USE TheHooks, Numbers DEF IInv, TypeOK, saved, lapses
<1>1. ASSUME NEW c \in Characters, Join(c) PROVE TypeOK'
  BY <1>1 DEF Join
<1>2. ASSUME NEW c \in Characters, Fall(c) PROVE TypeOK'
  BY <1>2, PlacementParts DEF Fall, Fell
<1>3. ASSUME NEW c \in Characters, FallCut(c) PROVE TypeOK'
  BY <1>3, PlacementParts DEF FallCut, Fell
<1>4. CASE Play
  BY <1>4 DEF Play, Parts
<1>5. CASE Pass
  BY <1>5 DEF Pass
<1>6. Snapshot \in [Placements -> Nat]
  BY DEF Snapshot
<1>7. CASE Tick
  <2>1. warned' \subseteq WarnOffsets /\ heard' \subseteq WarnOffsets
    BY <1>7 DEF Tick, DueWarnings
  <2>2. step' \in 0 .. Flushed + 3 /\ draft' \in [Placements -> Nat] /\ early' \in BOOLEAN
    <3>1. CASE IsExpired
      <4>1. step' = 1 /\ draft' = Snapshot /\ early' = FALSE
        BY <1>7, <3>1 DEF Tick, BeginReset
      <4>2. early' \in BOOLEAN
        BY <4>1, Zenon
      <4>3. step' \in 0 .. Flushed + 3 /\ draft' \in [Placements -> Nat]
        BY <1>6, <4>1
      <4> QED
        BY <4>2, <4>3
    <3>2. CASE ~IsExpired
      BY <1>7, <3>2 DEF Tick
    <3> QED
      BY <3>1, <3>2
  <2>3. UNCHANGED <<number, start, board, since, dirty, now, opened, lapses>>
    BY <1>7 DEF Tick
  <2> QED
    BY <2>1, <2>2, <2>3
<1>8. CASE Shatter
  BY <1>6, <1>8 DEF Shatter, BeginReset, Parts, Idle
<1>9. CASE Flush
  BY <1>9 DEF Flush
<1>10. CASE SaveNumber
  BY <1>10 DEF SaveNumber, ResetHasRoom
<1>11. CASE SaveStart
  BY <1>11 DEF SaveStart
<1>12. CASE SaveWarned
  BY <1>12 DEF SaveWarned
<1>13. CASE SaveBoard
  BY <1>13 DEF SaveBoard, Blank
<1>14. CASE Crash
  BY <1>14 DEF Crash, Blank
<1>15. CASE UNCHANGED vars
  BY <1>15 DEF vars
<1> QED
  BY <1>1, <1>2, <1>3, <1>4, <1>5, <1>7, <1>8, <1>9, <1>10, <1>11, <1>12, <1>13, <1>14, <1>15
     DEF Next, Reset

\* A character's placements of a season.
Survivals(c, s) == board[<<c, s, "survived">>]
Falls(c, s) == board[<<c, s, "fell">>]

\* The invariants of the leaderboard, character by character.
Placed(c, s) ==
    /\ Survivals(c, s) \in Nat /\ Falls(c, s) \in Nat
    /\ Survivals(c, s) > 0 => s < Closing
    /\ Survivals(c, s) <= 1
    /\ c \notin spared => /\ Falls(c, s) > 0 => since[c] = 0
                         /\ Survivals(c, s) + Falls(c, s) <= 1
    /\ s \notin unkept /\ since[c] > 0 /\ since[c] <= s /\ s < Closing => Survivals(c, s) >= 1

Board ==
    /\ DraftIsBoardAndSurvivors
    /\ \A c \in Characters, s \in Seasons : Placed(c, s)

LEMMA BoardIsInv ==
    IInv => Board
<1> SUFFICES ASSUME IInv PROVE Board
  OBVIOUS
<1> SUFFICES ASSUME NEW c \in Characters, NEW s \in Seasons PROVE Placed(c, s)
  BY DEF IInv, Board
<1>1. Survivals(c, s) \in Nat /\ Falls(c, s) \in Nat
  BY PlacementParts, Numbers DEF IInv, TypeOK, Survivals, Falls
<1>2. Survivals(c, s) > 0 => s < Closing
  BY DEF IInv, SurvivorsAreOfClosedSeasons, Survivals
<1>3. Survivals(c, s) <= 1
  BY DEF IInv, SurvivesOnce, Survivals
<1>4. c \notin spared /\ Falls(c, s) > 0 => since[c] = 0
  BY DEF IInv, FallenAreGone, Falls
<1>5. c \notin spared => Survivals(c, s) + Falls(c, s) <= 1
  BY DEF IInv, OnePlacement, Survivals, Falls
<1>6. s \notin unkept /\ since[c] > 0 /\ since[c] <= s /\ s < Closing => Survivals(c, s) >= 1
  BY DEF IInv, LivingAreRecorded, Alive, Survivals
<1> QED
  BY <1>1, <1>2, <1>3, <1>4, <1>5, <1>6 DEF Placed

LEMMA BoardSuffices ==
    Board => /\ DraftIsBoardAndSurvivors /\ SurvivorsAreOfClosedSeasons /\ SurvivesOnce
             /\ FallenAreGone /\ OnePlacement /\ LivingAreRecorded
<1> SUFFICES ASSUME Board
             PROVE  /\ DraftIsBoardAndSurvivors /\ SurvivorsAreOfClosedSeasons /\ SurvivesOnce
                    /\ FallenAreGone /\ OnePlacement /\ LivingAreRecorded
  OBVIOUS
<1>1. DraftIsBoardAndSurvivors
  BY DEF Board
<1>2. SurvivorsAreOfClosedSeasons
  BY DEF Board, Placed, SurvivorsAreOfClosedSeasons, Survivals
<1>3. SurvivesOnce
  BY DEF Board, Placed, SurvivesOnce, Survivals
<1>4. FallenAreGone
  BY DEF Board, Placed, FallenAreGone, Falls
<1>5. OnePlacement
  BY <1>3 DEF Board, Placed, OnePlacement, Survivals, Falls
<1>6. LivingAreRecorded
  BY DEF Board, Placed, LivingAreRecorded, Alive, Survivals
<1> QED
  BY <1>1, <1>2, <1>3, <1>4, <1>5, <1>6

\* A step that moves neither the board nor what the reset holds of it keeps them.
LEMMA Unmoved ==
    ASSUME Board, UNCHANGED <<board, since, draft, lapses>>, (Closing') = Closing, (Idle') <=> Idle
    PROVE  Board'
BY DEF Board, Placed, DraftIsBoardAndSurvivors, Survivals, Falls, Alive, lapses

\* A reset begins with the board and the survivors in memory.
LEMMA Begun ==
    ASSUME Board, Idle, step' = 1, draft' = Snapshot,
           UNCHANGED <<number, board, since, lapses>>
    PROVE  Board'
<1>1. Closing = number /\ Closing' = number
  BY TheHooks DEF Closing, Idle
<1>2. DraftIsBoardAndSurvivors'
  BY <1>1 DEF DraftIsBoardAndSurvivors, Snapshot, Alive
<1> QED
  BY <1>1, <1>2 DEF Board, Placed, Survivals, Falls, lapses

\* A reset ends: the draft becomes the board.
LEMMA Ended ==
    ASSUME TypeOK, Board, SaveBoard
    PROVE  Board'
<1>1. /\ Closing = number - 1 /\ Closing' = number /\ number \in Int
      /\ Idle' /\ ~Idle /\ since' = since
      /\ UNCHANGED <<spared, unkept>>
  BY TheHooks, Numbers DEF Closing, Idle, SaveBoard, TypeOK, lapses
<1>2. \A e \in Placements :
        board'[e] = board[e] + IF e[1] \in Alive /\ e[2] = Closing /\ e[3] = "survived" THEN 1 ELSE 0
  BY <1>1 DEF SaveBoard, Board, DraftIsBoardAndSurvivors
<1>3. ASSUME NEW c \in Characters, NEW s \in Seasons
      PROVE  /\ Falls(c, s)' = Falls(c, s)
             /\ c \in Alive /\ s = Closing => Survivals(c, s)' = Survivals(c, s) + 1
             /\ ~(c \in Alive /\ s = Closing) => Survivals(c, s)' = Survivals(c, s)
  <2>1. <<c, s, "fell">> \in Placements /\ <<c, s, "survived">> \in Placements
    BY PlacementParts, Numbers
  <2>2. Falls(c, s) \in Nat /\ Survivals(c, s) \in Nat
    BY DEF Board, Placed
  <2> QED
    BY <1>2, <2>1, <2>2 DEF Survivals, Falls
<1>4. DraftIsBoardAndSurvivors'
  BY <1>1 DEF DraftIsBoardAndSurvivors
<1>5. ASSUME NEW c \in Characters, NEW s \in Seasons PROVE Placed(c, s)'
  <2>1. s \in Int /\ (c \in Alive <=> since[c] > 0)
    BY Numbers DEF Alive
  <2>2. Placed(c, s)
    BY DEF Board
  <2>3. /\ Falls(c, s)' = Falls(c, s)
        /\ c \in Alive /\ s = Closing => Survivals(c, s)' = Survivals(c, s) + 1
        /\ ~(c \in Alive /\ s = Closing) => Survivals(c, s)' = Survivals(c, s)
    BY <1>3
  <2> QED
    BY <1>1, <2>1, <2>2, <2>3 DEF Placed
<1> QED
  BY <1>4, <1>5 DEF Board

\* A new character has no past on the board.
LEMMA Joined ==
    ASSUME TypeOK, Board, NEW d \in Characters, Join(d)
    PROVE  Board'
<1>1. /\ Idle' /\ Closing = number /\ Closing' = number /\ number \in Int
      /\ UNCHANGED <<board, spared, unkept>>
  BY TheHooks, Numbers DEF Join, Idle, Closing, TypeOK, saved, lapses
<1>2. ASSUME NEW c \in Characters, NEW s \in Seasons PROVE Placed(c, s)'
  <2>1. /\ Placed(c, s) /\ s \in Int
        /\ Survivals(c, s)' = Survivals(c, s) /\ Falls(c, s)' = Falls(c, s)
    BY <1>1, Numbers DEF Board, Survivals, Falls
  <2>2. CASE c = d
    <3>1. since'[c] = number /\ Falls(c, s) = 0
      BY <2>2 DEF Join, TypeOK, Falls
    <3> QED
      BY <1>1, <2>1, <3>1 DEF Placed
  <2>3. CASE c # d
    <3>1. since'[c] = since[c]
      BY <2>3 DEF Join, TypeOK
    <3> QED
      BY <1>1, <2>1, <3>1 DEF Placed
  <2> QED
    BY <2>2, <2>3
<1> QED
  BY <1>1, <1>2 DEF Board, DraftIsBoardAndSurvivors

\* A hardcore death places the character once and for good, when it is not cut short.
LEMMA Felled ==
    ASSUME TypeOK, Board, NEW d \in Characters, Fall(d) \/ FallCut(d)
    PROVE  Board'
<1>1. /\ Idle' /\ Closing = number /\ Closing' = number /\ number \in Int /\ d \in Alive
      /\ board' = Fell(d) /\ unkept' = unkept
      /\ \/ spared' = spared \cup {d} /\ since' = since
         \/ spared' = spared /\ since' = [since EXCEPT ![d] = 0]
  BY TheHooks, Numbers DEF Fall, FallCut, Idle, Closing, TypeOK, lapses
<1>2. ASSUME NEW c \in Characters, NEW s \in Seasons PROVE Placed(c, s)'
  <2>1. Placed(c, s) /\ s \in Int /\ since[c] \in Nat
    BY Numbers DEF Board, TypeOK
  <2>2. <<c, s, "fell">> \in Placements /\ <<c, s, "survived">> \in Placements
    BY PlacementParts, Numbers
  <2>3. Survivals(c, s)' = Survivals(c, s)
    BY <1>1, <2>2 DEF Fell, Survivals, TypeOK
  <2>4. Falls(c, s)' = IF c = d /\ s = number THEN Falls(c, s) + 1 ELSE Falls(c, s)
    BY <1>1, <2>2 DEF Fell, Falls, TypeOK
  <2>5. c = d => since[c] > 0
    BY <1>1 DEF Alive
  <2>6. CASE spared' = spared \cup {d} /\ since' = since
    BY <1>1, <2>1, <2>3, <2>4, <2>6 DEF Placed
  <2>7. CASE spared' = spared /\ since' = [since EXCEPT ![d] = 0]
    <3>1. since'[c] = IF c = d THEN 0 ELSE since[c]
      BY <2>7 DEF TypeOK
    <3> QED
      BY <1>1, <2>1, <2>3, <2>4, <2>5, <2>7, <3>1 DEF Placed
  <2> QED
    BY <1>1, <2>6, <2>7
<1> QED
  BY <1>1, <1>2 DEF Board, DraftIsBoardAndSurvivors

\* A reset cut short leaves the board as it was, and the season that has closed
\* without it is not kept.
LEMMA CutShort ==
    ASSUME TypeOK, Board, Crash
    PROVE  Board'
<1>1. /\ Idle' /\ Closing <= Closing' /\ Closing \in Int /\ Closing' \in Int
      /\ UNCHANGED <<board, since, spared>> /\ unkept \subseteq unkept'
      /\ \A s \in Seasons : s < Closing' => s < Closing \/ s \in unkept'
  BY TheHooks, Numbers DEF Crash, Idle, Closing, TypeOK, saved
<1>2. ASSUME NEW c \in Characters, NEW s \in Seasons PROVE Placed(c, s)'
  <2>1. /\ Placed(c, s) /\ s \in Int
        /\ Survivals(c, s)' = Survivals(c, s) /\ Falls(c, s)' = Falls(c, s)
    BY <1>1, Numbers DEF Board, Survivals, Falls
  <2> QED
    BY <1>1, <2>1 DEF Placed
<1> QED
  BY <1>1, <1>2 DEF Board, DraftIsBoardAndSurvivors

\* Every step keeps the leaderboard's invariants.
LEMMA BoardStep == TypeOK /\ Board /\ [Next]_vars => Board'
<1> SUFFICES ASSUME TypeOK, Board, [Next]_vars PROVE Board'
  OBVIOUS
<1>1. ASSUME NEW c \in Characters, Join(c) PROVE Board'
  BY <1>1, Joined
<1>2. ASSUME NEW c \in Characters, Fall(c) \/ FallCut(c) PROVE Board'
  BY <1>2, Felled
<1>3. CASE Play \/ Pass \/ UNCHANGED vars
  BY <1>3, Unmoved DEF Play, Pass, vars, saved, Closing, Idle
<1>4. CASE Tick
  <2>1. CASE IsExpired
    BY <1>4, <2>1, Begun DEF Tick, BeginReset
  <2>2. CASE ~IsExpired
    BY <1>4, <2>2, Unmoved DEF Tick, Closing, Idle
  <2> QED
    BY <2>1, <2>2
<1>5. CASE Shatter
  BY <1>5, Begun DEF Shatter, BeginReset, saved
<1>6. CASE Flush
  <2>1. ~Idle /\ ~(Idle') /\ Closing' = Closing
    BY <1>6, TheHooks DEF Flush, Idle, Closing, saved
  <2> QED
    BY <1>6, <2>1, Unmoved DEF Flush, saved
<1>7. CASE SaveNumber
  <2>1. ~Idle /\ ~(Idle') /\ Closing' = Closing
    BY <1>7, TheHooks, Numbers DEF SaveNumber, Idle, Closing, TypeOK
  <2> QED
    BY <1>7, <2>1, Unmoved DEF SaveNumber
<1>8. CASE SaveStart \/ SaveWarned
  <2>1. ~Idle /\ ~(Idle') /\ Closing' = Closing
    BY <1>8, TheHooks DEF SaveStart, SaveWarned, Idle, Closing
  <2> QED
    BY <1>8, <2>1, Unmoved DEF SaveStart, SaveWarned
<1>9. CASE SaveBoard
  BY <1>9, Ended
<1>10. CASE Crash
  BY <1>10, CutShort
<1> QED
  BY <1>1, <1>2, <1>3, <1>4, <1>5, <1>6, <1>7, <1>8, <1>9, <1>10 DEF Next, Reset

\* Every step keeps the reset's own bookkeeping.
LEMMA ResetStep == TypeOK /\ ResetHasRoom /\ FlushedSoFar /\ [Next]_vars => (ResetHasRoom /\ FlushedSoFar)'
<1> SUFFICES ASSUME TypeOK, ResetHasRoom, FlushedSoFar, [Next]_vars
             PROVE  (ResetHasRoom /\ FlushedSoFar)'
  OBVIOUS
<1> USE TheHooks
<1>1. CASE \/ Play \/ Pass \/ UNCHANGED vars
           \/ \E c \in Characters : Join(c) \/ Fall(c) \/ FallCut(c)
  <2>1. UNCHANGED <<step, number>> /\ (step = 0 \/ dirty' = dirty)
    BY <1>1 DEF Play, Pass, vars, saved, Join, Fall, FallCut, Idle
  <2> QED
    BY <2>1 DEF ResetHasRoom, FlushedSoFar
<1>2. CASE Tick \/ Shatter
  <2>1. \/ step' = 1 /\ number < MaxSeason /\ number' = number
        \/ step' = 0
    BY <1>2 DEF Tick, Shatter, BeginReset, Idle, saved
  <2> QED
    BY <2>1 DEF ResetHasRoom, FlushedSoFar
<1>3. CASE Flush
  <2>1. /\ step \in 1 .. 7 /\ step' = step + 1 /\ dirty' = dirty \ Hooks[step]
        /\ number' = number
    BY <1>3 DEF Flush, saved
  <2>2. ASSUME NEW i \in 1 .. 7, i < step' PROVE dirty' \cap Hooks[i] = {}
    <3>1. i < step \/ i = step
      BY <2>1, <2>2
    <3> QED
      BY <2>1, <3>1 DEF FlushedSoFar
  <2> QED
    BY <2>1, <2>2 DEF ResetHasRoom, FlushedSoFar
<1>4. CASE SaveNumber \/ SaveStart \/ SaveWarned
  <2>1. step >= 8 /\ step' = step + 1 /\ dirty' = dirty /\ step \in Nat
    BY <1>4 DEF SaveNumber, SaveStart, SaveWarned, TypeOK
  <2>2. ~(step' \in 1 .. Flushed)
    BY <2>1
  <2>3. \A i \in 1 .. 7 : i < step
    BY <2>1
  <2> QED
    BY <2>1, <2>2, <2>3 DEF ResetHasRoom, FlushedSoFar
<1>5. CASE SaveBoard \/ Crash
  <2>1. step' = 0
    BY <1>5 DEF SaveBoard, Crash
  <2> QED
    BY <2>1 DEF ResetHasRoom, FlushedSoFar
<1> QED
  BY <1>1, <1>2, <1>3, <1>4, <1>5 DEF Next, Reset

\* The invariant is inductive.
THEOREM Inductive == Spec => []IInv
<1>1. IInv /\ [Next]_vars => IInv'
  <2> SUFFICES ASSUME IInv, [Next]_vars PROVE IInv'
    OBVIOUS
  <2>1. TypeOK'
    BY TypeStep
  <2>2. Board'
    BY BoardIsInv, BoardStep DEF IInv
  <2>3. (ResetHasRoom /\ FlushedSoFar)'
    BY ResetStep DEF IInv
  <2>4. (/\ DraftIsBoardAndSurvivors /\ SurvivorsAreOfClosedSeasons /\ SurvivesOnce
         /\ FallenAreGone /\ OnePlacement /\ LivingAreRecorded)'
    BY <2>2, BoardSuffices, PTL
  <2> QED
    BY <2>1, <2>3, <2>4 DEF IInv
<1> QED
  BY <1>1, InitHolds, PTL DEF Spec

-----------------------------------------------------------------------------
(* What follows from it *)

\* Types, for any calendar.
THEOREM TypeCorrect == Spec => []TypeOK
BY Inductive, PTL DEF IInv

\* However many resets are cut short and run again, no character survives one
\* season twice on the leaderboard (snapshot_survivors).
THEOREM NobodySurvivesTwice == Spec => []SurvivesOnce
BY Inductive, PTL DEF IInv

\* A character has one placement a season, unless its death was cut short before it
\* was deleted (_hardcore_death and the snapshot exclude each other).
THEOREM PlacementsAreUnique == Spec => []OnePlacement
BY Inductive, PTL DEF IInv

\* Every season that has closed has everyone who lived through it on the board,
\* unless the reset was cut short between the save of the next season and the
\* board's (end_season).
THEOREM ClosedSeasonsAreOnBoard == Spec => []ClosedSeasonIsOnBoard
<1>1. IInv => ClosedSeasonIsOnBoard
  BY TheHooks DEF IInv, LivingAreRecorded, ClosedSeasonIsOnBoard, Closing, Idle
<1> QED
  BY <1>1, Inductive, PTL

\* The leaderboard is append-only although end_season writes it as a whole
\* (_save_leaderboard).
THEOREM BoardGrows == Spec => BoardOnlyGrows
<1>1. IInv /\ [Next]_vars => [\A e \in Placements : board'[e] >= board[e]]_vars
  <2> SUFFICES ASSUME IInv, [Next]_vars, NEW e \in Placements PROVE board'[e] >= board[e]
    OBVIOUS
  <2>1. board[e] \in Nat
    BY DEF IInv, TypeOK
  <2>2. CASE SaveBoard
    <3>1. draft[e] = board[e] + IF e[1] \in Alive /\ e[2] = Closing /\ e[3] = "survived" THEN 1 ELSE 0
      BY <2>2, TheHooks DEF SaveBoard, IInv, DraftIsBoardAndSurvivors, Idle
    <3> QED
      BY <2>1, <2>2, <3>1 DEF SaveBoard
  <2>3. ASSUME NEW c \in Characters, Fall(c) \/ FallCut(c) PROVE board'[e] >= board[e]
    <3>1. board' = [board EXCEPT ![<<c, number, "fell">>] = @ + 1]
      BY <2>3 DEF Fall, FallCut, Fell
    <3> QED
      BY <2>1, <3>1 DEF IInv, TypeOK
  <2>4. CASE UNCHANGED board
    BY <2>1, <2>4
  <2> QED
    BY <2>2, <2>3, <2>4
       DEF Next, Join, Play, Pass, Tick, Shatter, Reset, Flush, SaveNumber, SaveStart, SaveWarned,
           Crash, saved, vars
<1> QED
  BY <1>1, Inductive, PTL DEF Spec, BoardOnlyGrows

\* Every season opens on a world all managers have been flushed of, whatever was
\* cut short and played in between (run_reset).
THEOREM SeasonsStartClean == Spec => NewSeasonStartsClean
<1>1. IInv /\ [Next]_vars => [number' # number => dirty \cap Managers = {}]_vars
  <2> SUFFICES ASSUME IInv, [Next]_vars, number' # number PROVE dirty \cap Managers = {}
    OBVIOUS
  <2>1. SaveNumber
    BY DEF Next, Join, Fall, FallCut, Play, Pass, Tick, Shatter, Reset, Flush, SaveStart, SaveWarned,
           SaveBoard, Crash, saved, vars
  <2>2. \A i \in 1 .. 7 : dirty \cap Hooks[i] = {}
    <3>1. \A i \in 1 .. 7 : i < step
      BY <2>1, TheHooks DEF SaveNumber
    <3> QED
      BY <3>1, TheHooks DEF IInv, FlushedSoFar
  <2> QED
    BY <2>2, TheHooks
<1> QED
  BY <1>1, Inductive, PTL DEF Spec, NewSeasonStartsClean

-----------------------------------------------------------------------------
(* The warnings *)

\* What was broadcast is what is stored, but between the two writes that open a
\* season; and a reset the clock began has given every warning.  A torn season is
\* excepted.
WarnedSoFar ==
    number \notin torn =>
        /\ step <= Flushed => heard = warned
        /\ step > Flushed => heard = {}
        /\ step = Flushed + 3 => warned = {}
        /\ step \in 1 .. Flushed /\ ~early => heard = WarnOffsets

\* Once the season has expired every offset is due (due_warnings).
LEMMA AllAreDue ==
    ASSUME TypeOK, IsExpired
    PROVE  warned \cup DueWarnings = WarnOffsets
<1>1. \A o \in WarnOffsets : o \in Nat
  BY SeasonAssumption
<1>2. now \in Int /\ End \in Int /\ now >= End
  BY SeasonAssumption, Numbers DEF TypeOK, IsExpired, End
<1>3. \A o \in WarnOffsets : now + o >= End
  BY <1>1, <1>2
<1> QED
  BY <1>3 DEF DueWarnings, TypeOK

LEMMA WarnedStep == IInv /\ WarnedSoFar /\ [Next]_vars => WarnedSoFar'
<1> SUFFICES ASSUME IInv, WarnedSoFar, [Next]_vars PROVE WarnedSoFar'
  OBVIOUS
<1>1. TypeOK /\ step \in 0 .. 11
  BY TheHooks DEF IInv, TypeOK
<1> USE TheHooks
<1>2. CASE \/ Play \/ Pass \/ UNCHANGED vars
           \/ \E c \in Characters : Join(c) \/ Fall(c) \/ FallCut(c)
  <2>1. UNCHANGED <<step, early, heard, warned, number, torn>>
    BY <1>2 DEF Play, Pass, vars, saved, lapses, Join, Fall, FallCut
  <2> QED
    BY <2>1 DEF WarnedSoFar
<1>3. CASE Crash
  <2>1. /\ step' = 0 /\ UNCHANGED <<number, heard, warned>> /\ torn \subseteq torn'
        /\ number \notin torn' => ~(step \in {9, 10})
    BY <1>3 DEF Crash, saved
  <2>2. number \notin torn' => step <= 8 \/ step = 11
    BY <1>1, <2>1
  <2> QED
    BY <2>1, <2>2 DEF WarnedSoFar
<1>4. CASE Tick
  <2>1. /\ step = 0 /\ number' = number /\ torn' = torn
        /\ warned' = warned \cup DueWarnings /\ heard' = heard \cup DueWarnings
    BY <1>4 DEF Tick, Idle, lapses
  <2>2. number \notin torn => heard' = warned'
    BY <2>1 DEF WarnedSoFar
  <2>3. CASE IsExpired
    <3>1. step' = 1
      BY <1>4, <2>3 DEF Tick, BeginReset
    <3>2. warned' = WarnOffsets
      BY <1>1, <2>1, <2>3, AllAreDue
    <3> QED
      BY <2>1, <2>2, <3>1, <3>2 DEF WarnedSoFar
  <2>4. CASE ~IsExpired
    <3>1. step' = 0
      BY <1>4, <2>1, <2>4 DEF Tick
    <3> QED
      BY <2>1, <2>2, <3>1 DEF WarnedSoFar
  <2> QED
    BY <2>3, <2>4
<1>5. CASE Shatter
  <2>1. step = 0 /\ step' = 1 /\ early' = TRUE /\ UNCHANGED <<heard, warned, number, torn>>
    BY <1>5 DEF Shatter, BeginReset, Idle, saved, lapses
  <2> QED
    BY <2>1 DEF WarnedSoFar
<1>6. CASE Flush
  <2>1. /\ step \in 1 .. 7 /\ step' = step + 1
        /\ UNCHANGED <<early, heard, warned, number, torn>>
    BY <1>6 DEF Flush, saved, lapses
  <2> QED
    BY <2>1 DEF WarnedSoFar
<1>7. CASE SaveNumber
  <2>1. step' = 9 /\ heard' = {}
    BY <1>7 DEF SaveNumber
  <2> QED
    BY <2>1 DEF WarnedSoFar
<1>8. CASE SaveStart
  <2>1. step = 9 /\ step' = 10 /\ UNCHANGED <<heard, number, torn>>
    BY <1>8 DEF SaveStart, lapses
  <2> QED
    BY <2>1 DEF WarnedSoFar
<1>9. CASE SaveWarned
  <2>1. step = 10 /\ step' = 11 /\ warned' = {} /\ UNCHANGED <<heard, number, torn>>
    BY <1>9 DEF SaveWarned, lapses
  <2> QED
    BY <2>1 DEF WarnedSoFar
<1>10. CASE SaveBoard
  <2>1. step = 11 /\ step' = 0 /\ UNCHANGED <<heard, warned, number, torn>>
    BY <1>10 DEF SaveBoard, lapses
  <2> QED
    BY <2>1 DEF WarnedSoFar
<1> QED
  BY <1>2, <1>3, <1>4, <1>5, <1>6, <1>7, <1>8, <1>9, <1>10 DEF Next, Reset

\* A season the clock ends has given every one of its warnings, whatever their
\* offsets, however late the tick and whatever was cut short, unless its own opening
\* was (at_repeat).
THEOREM TimedEndsAreWarned == Spec => TimedEndIsWarned
<1>1. Init => WarnedSoFar
  BY TheHooks DEF Init, WarnedSoFar
<1>2. WarnedSoFar /\ [Next]_vars =>
          [number' # number /\ ~early /\ number \notin torn => heard = WarnOffsets]_vars
  <2> SUFFICES ASSUME WarnedSoFar, [Next]_vars, number' # number, ~early, number \notin torn
               PROVE  heard = WarnOffsets
    OBVIOUS
  <2>1. SaveNumber
    BY DEF Next, Join, Fall, FallCut, Play, Pass, Tick, Shatter, Reset, Flush, SaveStart, SaveWarned,
           SaveBoard, Crash, saved, vars
  <2> QED
    BY <2>1, TheHooks DEF SaveNumber, WarnedSoFar
<1> QED
  BY <1>1, <1>2, WarnedStep, Inductive, PTL DEF Spec, TimedEndIsWarned

\* The start that is stored is when the season opened, but between the two writes
\* that open it; and a reset the clock began has waited for the end.  A torn season
\* is excepted.
StartSoFar ==
    /\ number \notin torn /\ step # 9 => start = opened
    /\ step = 9 => opened = now
    /\ step \in 1 .. 8 /\ ~early => now >= start + SeasonLength

LEMMA StartStep == IInv /\ StartSoFar /\ [Next]_vars => StartSoFar'
<1> SUFFICES ASSUME IInv, StartSoFar, [Next]_vars PROVE StartSoFar'
  OBVIOUS
<1>1. step \in 0 .. 11
  BY TheHooks DEF IInv, TypeOK
<1> USE TheHooks
<1>2. CASE \/ Play \/ Pass
           \/ \E c \in Characters : Join(c) \/ Fall(c) \/ FallCut(c)
  <2>1. step = 0 /\ UNCHANGED <<step, number, torn, start, opened>>
    BY <1>2 DEF Play, Pass, saved, lapses, Join, Fall, FallCut, Idle
  <2> QED
    BY <2>1 DEF StartSoFar
<1>3. CASE Crash
  <2>1. /\ step' = 0 /\ UNCHANGED <<number, start, opened>> /\ torn \subseteq torn'
        /\ number \notin torn' => step # 9
    BY <1>3 DEF Crash, saved
  <2> QED
    BY <2>1 DEF StartSoFar
<1>4. CASE Tick
  <2>1. step = 0 /\ UNCHANGED <<number, torn, start, opened, now>>
    BY <1>4 DEF Tick, Idle, lapses
  <2>2. (step' = 1 /\ now >= start + SeasonLength) \/ step' = 0
    BY <1>4, <2>1 DEF Tick, BeginReset, IsExpired, End
  <2> QED
    BY <2>1, <2>2 DEF StartSoFar
<1>5. CASE Shatter
  <2>1. step = 0 /\ step' = 1 /\ early' = TRUE /\ UNCHANGED <<number, torn, start, opened>>
    BY <1>5 DEF Shatter, BeginReset, Idle, saved, lapses
  <2> QED
    BY <2>1 DEF StartSoFar
<1>6. CASE Flush
  <2>1. /\ step \in 1 .. 7 /\ step' = step + 1
        /\ UNCHANGED <<early, number, torn, start, opened, now>>
    BY <1>6 DEF Flush, saved, lapses
  <2> QED
    BY <2>1 DEF StartSoFar
<1>7. CASE SaveNumber
  BY <1>7 DEF SaveNumber, StartSoFar
<1>8. CASE SaveStart
  BY <1>8 DEF SaveStart, StartSoFar
<1>9. CASE SaveWarned \/ SaveBoard
  <2>1. step \in {10, 11} /\ step' \in {0, 11} /\ UNCHANGED <<number, torn, start, opened>>
    BY <1>9 DEF SaveWarned, SaveBoard, lapses
  <2> QED
    BY <2>1 DEF StartSoFar
<1>10. CASE UNCHANGED vars
  BY <1>10 DEF vars, saved, lapses, StartSoFar
<1> QED
  BY <1>2, <1>3, <1>4, <1>5, <1>6, <1>7, <1>8, <1>9, <1>10 DEF Next, Reset

\* A season that no quest ends lasts its length, whatever was cut short, unless its
\* own opening was (at_repeat, _save_season).
THEOREM SeasonsLast == Spec => SeasonLasts
<1>1. Init => StartSoFar
  BY TheHooks DEF Init, StartSoFar
<1>2. IInv /\ StartSoFar /\ [Next]_vars =>
          [number' # number /\ ~early /\ number \notin torn => now - opened >= SeasonLength]_vars
  <2> SUFFICES ASSUME IInv, StartSoFar, [Next]_vars, number' # number, ~early, number \notin torn
               PROVE  now - opened >= SeasonLength
    OBVIOUS
  <2>1. SaveNumber
    BY DEF Next, Join, Fall, FallCut, Play, Pass, Tick, Shatter, Reset, Flush, SaveStart, SaveWarned,
           SaveBoard, Crash, saved, vars
  <2>2. start = opened /\ now >= start + SeasonLength
    BY <2>1, TheHooks DEF SaveNumber, StartSoFar
  <2>3. now \in Int /\ opened \in Int /\ SeasonLength \in Int
    BY SeasonAssumption, Numbers DEF IInv, TypeOK
  <2> QED
    BY <2>2, <2>3
<1> QED
  BY <1>1, <1>2, StartStep, Inductive, PTL DEF Spec, SeasonLasts

-----------------------------------------------------------------------------
(* The plan of the build *)

Ops == {"managers", "rooms", "exits", "recall", "npcs", "pool", "grid", "tags", "gates", "link",
        "altar", "register", "populate"}
Stages == {Stage(op, p) : op \in Ops, p \in Regions}

\* r is s, of length l, and then t, of length m.
EndToEnd(r, s, l, t, m) ==
    /\ r \in Seq(Stages) /\ Len(r) = l + m
    /\ \A i \in 1 .. l : r[i] = s[i]
    /\ \A i \in 1 .. m : r[l + i] = t[i]

LEMMA Joining ==
    ASSUME NEW s \in Seq(Stages), NEW t \in Seq(Stages), NEW l, NEW m, Len(s) = l, Len(t) = m
    PROVE  EndToEnd(s \o t, s, l, t, m)
<1> HIDE DEF Stages
<1> QED
  BY DEF EndToEnd

\* The regions that are always there, and the lairs.
LEMMA TheRegions ==
    /\ {"keep", "wilderness", "hub", "shrine"} \subseteq Regions
    /\ Len(Tribes) \in Nat
    /\ \A i \in 1 .. Len(Tribes) : Tribes[i] \in Regions
    /\ \A p \in Regions : \/ p \in {"keep", "wilderness", "hub", "shrine"}
                          \/ \E i \in 1 .. Len(Tribes) : p = Tribes[i]
BY WorldAssumption DEF Regions, Range

LEMMA ALair ==
    ASSUME NEW t \in Regions
    PROVE  /\ build_tribe(t) \in Seq(Stages)
           /\ build_tribe(t)[1] = Stage("rooms", t) /\ build_tribe(t)[2] = Stage("exits", t)
           /\ build_tribe(t)[3] = Stage("npcs", t) /\ build_tribe(t)[4] = Stage("register", t)
           /\ Len(build_tribe(t)) = 4
<1>1. /\ Stage("rooms", t) \in Stages /\ Stage("exits", t) \in Stages
      /\ Stage("npcs", t) \in Stages /\ Stage("register", t) \in Stages
  BY DEF Stages, Ops
<1> QED
  BY <1>1 DEF build_tribe

\* The lairs, each with its four stages.
LEMMA TheLairs ==
    LET lairs == [i \in 1 .. 4 * Len(Tribes) |->
                    build_tribe(Tribes[(i + 3) \div 4])[((i - 1) % 4) + 1]]
    IN  /\ lairs \in Seq(Stages) /\ Len(lairs) = 4 * Len(Tribes)
        /\ \A i \in 1 .. Len(Tribes) :
              /\ lairs[4 * i - 3] = Stage("rooms", Tribes[i])
              /\ lairs[4 * i - 1] = Stage("npcs", Tribes[i])
              /\ lairs[4 * i] = Stage("register", Tribes[i])
<1> DEFINE n == Len(Tribes)
           lair(i) == build_tribe(Tribes[(i + 3) \div 4])[((i - 1) % 4) + 1]
           lairs == [i \in 1 .. 4 * n |-> lair(i)]
<1>1. n \in Nat /\ \A i \in 1 .. n : Tribes[i] \in Regions
  BY TheRegions
<1> HIDE DEF n
<1>2. ASSUME NEW i \in 1 .. 4 * n PROVE lair(i) \in Stages
  <2>1. (i + 3) \div 4 \in 1 .. n /\ ((i - 1) % 4) + 1 \in 1 .. 4
    BY <1>1
  <2> DEFINE t == Tribes[(i + 3) \div 4]
             r == ((i - 1) % 4) + 1
  <2>2. t \in Regions /\ r \in 1 .. 4
    BY <1>1, <2>1
  <2> HIDE DEF t, r
  <2>3. build_tribe(t)[r] \in Stages
    BY <2>2, ALair
  <2> QED
    BY <2>3 DEF t, r
<1>3. ASSUME NEW i \in 1 .. n
      PROVE  /\ lair(4 * i - 3) = Stage("rooms", Tribes[i])
             /\ lair(4 * i - 1) = Stage("npcs", Tribes[i])
             /\ lair(4 * i) = Stage("register", Tribes[i])
  <2>1. /\ ((4 * i - 3) + 3) \div 4 = i /\ (((4 * i - 3) - 1) % 4) + 1 = 1
        /\ ((4 * i - 1) + 3) \div 4 = i /\ (((4 * i - 1) - 1) % 4) + 1 = 3
        /\ (4 * i + 3) \div 4 = i /\ ((4 * i - 1) % 4) + 1 = 4
    BY <1>1
  <2>2. Tribes[i] \in Regions
    BY <1>1
  <2> QED
    BY <2>1, <2>2, ALair
<1>4. lairs \in Seq(Stages) /\ Len(lairs) = 4 * n
  BY <1>1, <1>2
<1>5. \A i \in 1 .. n : 4 * i - 3 \in 1 .. 4 * n /\ 4 * i - 1 \in 1 .. 4 * n /\ 4 * i \in 1 .. 4 * n
  BY <1>1
<1>6. \A i \in 1 .. n : /\ lairs[4 * i - 3] = Stage("rooms", Tribes[i])
                        /\ lairs[4 * i - 1] = Stage("npcs", Tribes[i])
                        /\ lairs[4 * i] = Stage("register", Tribes[i])
  BY <1>3, <1>5
<1> QED
  BY <1>4, <1>6 DEF n

\* Where the stages of the plan stand.
LEMMA ThePlan ==
    LET n == Len(Tribes)
    IN  /\ build_all \in Seq(Stages) /\ Len(build_all) = 22 + 5 * n
        /\ build_all[1] = Stage("managers", "keep")
        /\ build_all[2] = Stage("rooms", "keep")
        /\ build_all[4] = Stage("recall", "keep") /\ build_all[5] = Stage("npcs", "keep")
        /\ build_all[6] = Stage("pool", "keep")
        /\ build_all[7] = Stage("grid", "wilderness") /\ build_all[8] = Stage("tags", "wilderness")
        /\ build_all[9] = Stage("gates", "wilderness") /\ build_all[10] = Stage("exits", "keep")
        /\ build_all[11] = Stage("npcs", "wilderness")
        /\ build_all[12] = Stage("rooms", "hub") /\ build_all[14] = Stage("link", "hub")
        /\ \A i \in 1 .. n : /\ build_all[11 + 4 * i] = Stage("rooms", Tribes[i])
                            /\ build_all[13 + 4 * i] = Stage("npcs", Tribes[i])
                            /\ build_all[14 + 4 * i] = Stage("register", Tribes[i])
                            /\ build_all[18 + 4 * n + i] = Stage("exits", Tribes[i])
        /\ build_all[15 + 4 * n] = Stage("rooms", "shrine")
        /\ build_all[16 + 4 * n] = Stage("exits", "shrine")
        /\ build_all[17 + 4 * n] = Stage("altar", "shrine")
        /\ build_all[18 + 4 * n] = Stage("exits", "hub")
        /\ build_all[19 + 5 * n] = Stage("register", "keep")
        /\ build_all[20 + 5 * n] = Stage("register", "wilderness")
        /\ build_all[21 + 5 * n] = Stage("register", "shrine")
        /\ build_all[22 + 5 * n] = Stage("populate", "keep")
<1> DEFINE n == Len(Tribes)
           lairs == [i \in 1 .. 4 * n |->
                       build_tribe(Tribes[(i + 3) \div 4])[((i - 1) % 4) + 1]]
           first == << Stage("managers", "keep") >>
           hub == << Stage("rooms", "hub"), Stage("exits", "hub"), Stage("link", "hub") >>
           ways == [i \in 1 .. n |-> Stage("exits", Tribes[i])]
           again == << Stage("exits", "hub") >>
           last == << Stage("register", "keep"), Stage("register", "wilderness"),
                      Stage("register", "shrine"), Stage("populate", "keep") >>
<1>0. n \in Nat /\ \A i \in 1 .. n : Tribes[i] \in Regions
  BY TheRegions
<1>1. \A op \in Ops : \A p \in Regions : Stage(op, p) \in Stages
  BY DEF Stages
<1>2. /\ first \in Seq(Stages) /\ Len(first) = 1 /\ first[1] = Stage("managers", "keep")
      /\ hub \in Seq(Stages) /\ Len(hub) = 3
      /\ hub[1] = Stage("rooms", "hub") /\ hub[3] = Stage("link", "hub")
      /\ again \in Seq(Stages) /\ Len(again) = 1 /\ again[1] = Stage("exits", "hub")
  BY <1>1, TheRegions DEF Ops
<1>3. /\ last \in Seq(Stages) /\ Len(last) = 4
      /\ last[1] = Stage("register", "keep") /\ last[2] = Stage("register", "wilderness")
      /\ last[3] = Stage("register", "shrine") /\ last[4] = Stage("populate", "keep")
  BY <1>1, TheRegions DEF Ops
<1>4. /\ KeepBuild \in Seq(Stages) /\ Len(KeepBuild) = 5 /\ KeepBuild[1] = Stage("rooms", "keep")
      /\ KeepBuild[3] = Stage("recall", "keep") /\ KeepBuild[4] = Stage("npcs", "keep")
      /\ KeepBuild[5] = Stage("pool", "keep")
  BY <1>1, TheRegions DEF Ops, KeepBuild
<1>5. /\ WildernessBuild \in Seq(Stages) /\ Len(WildernessBuild) = 5
      /\ WildernessBuild[1] = Stage("grid", "wilderness")
      /\ WildernessBuild[2] = Stage("tags", "wilderness")
      /\ WildernessBuild[3] = Stage("gates", "wilderness")
      /\ WildernessBuild[4] = Stage("exits", "keep")
      /\ WildernessBuild[5] = Stage("npcs", "wilderness")
  BY <1>1, TheRegions DEF Ops, WildernessBuild
<1>6. /\ ShrineBuild \in Seq(Stages) /\ Len(ShrineBuild) = 3
      /\ ShrineBuild[1] = Stage("rooms", "shrine") /\ ShrineBuild[2] = Stage("exits", "shrine")
      /\ ShrineBuild[3] = Stage("altar", "shrine")
  BY <1>1, TheRegions DEF Ops, ShrineBuild
<1>7. /\ lairs \in Seq(Stages) /\ Len(lairs) = 4 * n
      /\ \A i \in 1 .. n : /\ lairs[4 * i - 3] = Stage("rooms", Tribes[i])
                            /\ lairs[4 * i - 1] = Stage("npcs", Tribes[i])
                            /\ lairs[4 * i] = Stage("register", Tribes[i])
  BY TheLairs
<1>8. /\ ways \in Seq(Stages) /\ Len(ways) = n
      /\ \A i \in 1 .. n : ways[i] = Stage("exits", Tribes[i])
  BY <1>0, <1>1 DEF Ops
<1>9. CavesBuild = hub \o lairs /\ CavesExitsAgain = again \o ways
  BY DEF CavesBuild, CavesExitsAgain
<1>10. build_all = (((((first \o KeepBuild) \o WildernessBuild) \o CavesBuild) \o ShrineBuild)
                      \o CavesExitsAgain) \o last
  BY DEF build_all
<1> HIDE DEF n, lairs, first, hub, ways, again, last
<1>11. /\ CavesBuild \in Seq(Stages) /\ Len(CavesBuild) = 3 + 4 * n
       /\ CavesBuild[1] = Stage("rooms", "hub") /\ CavesBuild[3] = Stage("link", "hub")
       /\ \A i \in 1 .. 4 * n : CavesBuild[3 + i] = lairs[i]
  <2>1. /\ hub \in Seq(Stages) /\ lairs \in Seq(Stages)
        /\ Len(hub) = 3 /\ Len(lairs) = 4 * n
    BY <1>2, <1>7
  <2>2. EndToEnd(hub \o lairs, hub, 3, lairs, 4 * n)
    BY <2>1, Joining, Zenon
  <2>3. 1 \in 1 .. 3 /\ 3 \in 1 .. 3
    OBVIOUS
  <2> QED
    BY <1>2, <1>9, <2>2, <2>3 DEF EndToEnd
<1>12. /\ CavesExitsAgain \in Seq(Stages) /\ Len(CavesExitsAgain) = 1 + n
       /\ CavesExitsAgain[1] = Stage("exits", "hub")
       /\ \A i \in 1 .. n : CavesExitsAgain[1 + i] = ways[i]
  <2>1. /\ again \in Seq(Stages) /\ ways \in Seq(Stages)
        /\ Len(again) = 1 /\ Len(ways) = n
    BY <1>2, <1>8
  <2>2. EndToEnd(again \o ways, again, 1, ways, n)
    BY <2>1, Joining, Zenon
  <2>3. 1 \in 1 .. 1
    OBVIOUS
  <2> QED
    BY <1>2, <1>9, <2>2, <2>3 DEF EndToEnd
<1> DEFINE a == first \o KeepBuild
           b == a \o WildernessBuild
           c == b \o CavesBuild
           d == c \o ShrineBuild
           e == d \o CavesExitsAgain
<1> HIDE DEF a, b, c, d, e
<1>13. /\ a \in Seq(Stages) /\ Len(a) = 6
       /\ \A i \in 1 .. 1 : a[i] = first[i]
       /\ \A i \in 1 .. 5 : a[1 + i] = KeepBuild[i]
  <2>1. /\ first \in Seq(Stages) /\ KeepBuild \in Seq(Stages)
        /\ Len(first) = 1 /\ Len(KeepBuild) = 5
    BY <1>2, <1>4
  <2>2. EndToEnd(first \o KeepBuild, first, 1, KeepBuild, 5)
    BY <2>1, Joining, Zenon
  <2>3. 1 + 5 = 6
    BY <1>0
  <2>4. a = first \o KeepBuild
    BY DEF a
  <2> QED
    BY <2>2, <2>3, <2>4 DEF EndToEnd
<1>14. /\ b \in Seq(Stages) /\ Len(b) = 11
       /\ \A i \in 1 .. 6 : b[i] = a[i]
       /\ \A i \in 1 .. 5 : b[6 + i] = WildernessBuild[i]
  <2>1. /\ a \in Seq(Stages) /\ WildernessBuild \in Seq(Stages)
        /\ Len(a) = 6 /\ Len(WildernessBuild) = 5
    BY <1>13, <1>5
  <2>2. EndToEnd(a \o WildernessBuild, a, 6, WildernessBuild, 5)
    BY <2>1, Joining, Zenon
  <2>3. 6 + 5 = 11
    BY <1>0
  <2>4. b = a \o WildernessBuild
    BY DEF b
  <2> QED
    BY <2>2, <2>3, <2>4 DEF EndToEnd
<1>15. /\ c \in Seq(Stages) /\ Len(c) = 14 + 4 * n
       /\ \A i \in 1 .. 11 : c[i] = b[i]
       /\ \A i \in 1 .. (3 + 4 * n) : c[11 + i] = CavesBuild[i]
  <2>1. /\ b \in Seq(Stages) /\ CavesBuild \in Seq(Stages)
        /\ Len(b) = 11 /\ Len(CavesBuild) = (3 + 4 * n)
    BY <1>14, <1>11
  <2>2. EndToEnd(b \o CavesBuild, b, 11, CavesBuild, (3 + 4 * n))
    BY <2>1, Joining, Zenon
  <2>3. 11 + (3 + 4 * n) = 14 + 4 * n
    BY <1>0
  <2>4. c = b \o CavesBuild
    BY DEF c
  <2> QED
    BY <2>2, <2>3, <2>4 DEF EndToEnd
<1>16. /\ d \in Seq(Stages) /\ Len(d) = 17 + 4 * n
       /\ \A i \in 1 .. (14 + 4 * n) : d[i] = c[i]
       /\ \A i \in 1 .. 3 : d[(14 + 4 * n) + i] = ShrineBuild[i]
  <2>1. /\ c \in Seq(Stages) /\ ShrineBuild \in Seq(Stages)
        /\ Len(c) = (14 + 4 * n) /\ Len(ShrineBuild) = 3
    BY <1>15, <1>6
  <2>2. EndToEnd(c \o ShrineBuild, c, (14 + 4 * n), ShrineBuild, 3)
    BY <2>1, Joining, Zenon
  <2>3. (14 + 4 * n) + 3 = 17 + 4 * n
    BY <1>0
  <2>4. d = c \o ShrineBuild
    BY DEF d
  <2> QED
    BY <2>2, <2>3, <2>4 DEF EndToEnd
<1>17. /\ e \in Seq(Stages) /\ Len(e) = 18 + 5 * n
       /\ \A i \in 1 .. (17 + 4 * n) : e[i] = d[i]
       /\ \A i \in 1 .. (1 + n) : e[(17 + 4 * n) + i] = CavesExitsAgain[i]
  <2>1. /\ d \in Seq(Stages) /\ CavesExitsAgain \in Seq(Stages)
        /\ Len(d) = (17 + 4 * n) /\ Len(CavesExitsAgain) = (1 + n)
    BY <1>16, <1>12
  <2>2. EndToEnd(d \o CavesExitsAgain, d, (17 + 4 * n), CavesExitsAgain, (1 + n))
    BY <2>1, Joining, Zenon
  <2>3. (17 + 4 * n) + (1 + n) = 18 + 5 * n
    BY <1>0
  <2>4. e = d \o CavesExitsAgain
    BY DEF e
  <2> QED
    BY <2>2, <2>3, <2>4 DEF EndToEnd
<1>18. /\ build_all \in Seq(Stages) /\ Len(build_all) = 22 + 5 * n
       /\ \A i \in 1 .. (18 + 5 * n) : build_all[i] = e[i]
       /\ \A i \in 1 .. 4 : build_all[(18 + 5 * n) + i] = last[i]
  <2>1. /\ e \in Seq(Stages) /\ last \in Seq(Stages)
        /\ Len(e) = (18 + 5 * n) /\ Len(last) = 4
    BY <1>17, <1>3
  <2>2. EndToEnd(e \o last, e, (18 + 5 * n), last, 4)
    BY <2>1, Joining, Zenon
  <2>3. (18 + 5 * n) + 4 = 22 + 5 * n
    BY <1>0
  <2>4. build_all = e \o last
    BY <1>10 DEF a, b, c, d, e
  <2> QED
    BY <2>2, <2>3, <2>4 DEF EndToEnd
<1>19. /\ \A i \in 1 .. 11 : build_all[i] = b[i]
       /\ \A i \in 1 .. (3 + 4 * n) : build_all[11 + i] = CavesBuild[i]
       /\ \A i \in 1 .. 3 : build_all[(14 + 4 * n) + i] = ShrineBuild[i]
       /\ \A i \in 1 .. (1 + n) : build_all[(17 + 4 * n) + i] = CavesExitsAgain[i]
  <2>1. ASSUME NEW i \in 1 .. (17 + 4 * n) PROVE build_all[i] = d[i]
    BY <1>0, <1>17, <1>18
  <2>2. ASSUME NEW i \in 1 .. (14 + 4 * n) PROVE build_all[i] = c[i]
    BY <1>0, <1>16, <2>1
  <2>3. ASSUME NEW i \in 1 .. 11 PROVE build_all[i] = b[i]
    BY <1>0, <1>15, <2>2
  <2>4. ASSUME NEW i \in 1 .. (3 + 4 * n) PROVE build_all[11 + i] = CavesBuild[i]
    <3>1. 11 + i \in 1 .. (14 + 4 * n)
      BY <1>0
    <3> QED
      BY <1>15, <2>2, <3>1
  <2>5. ASSUME NEW i \in 1 .. 3 PROVE build_all[(14 + 4 * n) + i] = ShrineBuild[i]
    <3>1. (14 + 4 * n) + i \in 1 .. (17 + 4 * n)
      BY <1>0
    <3> QED
      BY <1>16, <2>1, <3>1
  <2>6. ASSUME NEW i \in 1 .. (1 + n) PROVE build_all[(17 + 4 * n) + i] = CavesExitsAgain[i]
    <3>1. (17 + 4 * n) + i \in 1 .. (18 + 5 * n)
      BY <1>0
    <3> QED
      BY <1>17, <1>18, <3>1
  <2> QED
    BY <2>3, <2>4, <2>5, <2>6
<1>20. /\ build_all[1] = Stage("managers", "keep")
       /\ build_all[2] = Stage("rooms", "keep")
       /\ build_all[4] = Stage("recall", "keep") /\ build_all[5] = Stage("npcs", "keep")
       /\ build_all[6] = Stage("pool", "keep")
       /\ build_all[7] = Stage("grid", "wilderness") /\ build_all[8] = Stage("tags", "wilderness")
       /\ build_all[9] = Stage("gates", "wilderness") /\ build_all[10] = Stage("exits", "keep")
       /\ build_all[11] = Stage("npcs", "wilderness")
  <2>1. /\ b[1] = a[1] /\ b[2] = a[2] /\ b[4] = a[4] /\ b[5] = a[5] /\ b[6] = a[6]
        /\ b[7] = WildernessBuild[1] /\ b[8] = WildernessBuild[2] /\ b[9] = WildernessBuild[3]
        /\ b[10] = WildernessBuild[4] /\ b[11] = WildernessBuild[5]
    BY <1>14
  <2>2. a[2] = KeepBuild[1] /\ a[4] = KeepBuild[3] /\ a[5] = KeepBuild[4] /\ a[6] = KeepBuild[5]
    BY <1>13
  <2> QED
    BY <1>2, <1>4, <1>5, <1>13, <1>19, <2>1, <2>2
<1>21. ASSUME NEW i \in 1 .. n
       PROVE  /\ build_all[11 + 4 * i] = Stage("rooms", Tribes[i])
              /\ build_all[13 + 4 * i] = Stage("npcs", Tribes[i])
              /\ build_all[14 + 4 * i] = Stage("register", Tribes[i])
              /\ build_all[18 + 4 * n + i] = Stage("exits", Tribes[i])
  <2>1. /\ 4 * i - 3 \in 1 .. 4 * n /\ 4 * i - 1 \in 1 .. 4 * n /\ 4 * i \in 1 .. 4 * n
        /\ 11 + 4 * i = 11 + (3 + (4 * i - 3)) /\ 13 + 4 * i = 11 + (3 + (4 * i - 1))
        /\ 14 + 4 * i = 11 + (3 + 4 * i) /\ 18 + 4 * n + i = (17 + 4 * n) + (1 + i)
    BY <1>0
  <2>2. ASSUME NEW j \in 1 .. 4 * n PROVE build_all[11 + (3 + j)] = lairs[j]
    <3>1. 3 + j \in 1 .. (3 + 4 * n)
      BY <1>0
    <3> QED
      BY <1>11, <1>19, <3>1
  <2>3. build_all[(17 + 4 * n) + (1 + i)] = ways[i]
    <3>1. 1 + i \in 1 .. (1 + n)
      BY <1>0
    <3> QED
      BY <1>12, <1>19, <3>1
  <2> QED
    BY <1>7, <1>8, <2>1, <2>2, <2>3
<1>22. /\ build_all[12] = Stage("rooms", "hub") /\ build_all[14] = Stage("link", "hub")
       /\ build_all[15 + 4 * n] = Stage("rooms", "shrine")
       /\ build_all[16 + 4 * n] = Stage("exits", "shrine")
       /\ build_all[17 + 4 * n] = Stage("altar", "shrine")
       /\ build_all[18 + 4 * n] = Stage("exits", "hub")
  <2>1. build_all[12] = CavesBuild[1] /\ build_all[14] = CavesBuild[3]
    BY <1>0, <1>19
  <2>2. /\ build_all[15 + 4 * n] = ShrineBuild[1] /\ build_all[16 + 4 * n] = ShrineBuild[2]
        /\ build_all[17 + 4 * n] = ShrineBuild[3]
    BY <1>0, <1>19
  <2>3. build_all[18 + 4 * n] = CavesExitsAgain[1]
    BY <1>0, <1>19
  <2> QED
    BY <1>6, <1>11, <1>12, <2>1, <2>2, <2>3
<1>23. /\ build_all[19 + 5 * n] = Stage("register", "keep")
       /\ build_all[20 + 5 * n] = Stage("register", "wilderness")
       /\ build_all[21 + 5 * n] = Stage("register", "shrine")
       /\ build_all[22 + 5 * n] = Stage("populate", "keep")
  <2>1. /\ build_all[19 + 5 * n] = last[1] /\ build_all[20 + 5 * n] = last[2]
        /\ build_all[21 + 5 * n] = last[3] /\ build_all[22 + 5 * n] = last[4]
    BY <1>0, <1>18
  <2> QED
    BY <1>3, <2>1
<1> QED
  BY <1>18, <1>20, <1>21, <1>22, <1>23 DEF n

LEMMA StageIs ==
    /\ \A op, p : Stage(op, p).op = op /\ Stage(op, p).at = p
    /\ \A k \in DOMAIN build_all : build_all[k].op \in Ops /\ build_all[k].at \in Regions
    /\ Len(build_all) \in Nat /\ Len(build_all) > 0 /\ DOMAIN build_all = 1 .. Len(build_all)
<1>1. \A op, p : Stage(op, p).op = op /\ Stage(op, p).at = p
  BY DEF Stage
<1>2. build_all \in Seq(Stages) /\ Len(build_all) = 22 + 5 * Len(Tribes)
  BY ThePlan
<1>3. \A s \in Stages : s.op \in Ops /\ s.at \in Regions
  BY <1>1 DEF Stages
<1>4. DOMAIN build_all = 1 .. Len(build_all) /\ \A k \in DOMAIN build_all : build_all[k] \in Stages
  <2> HIDE DEF Stages
  <2> QED
    BY <1>2
<1> QED
  BY <1>1, <1>2, <1>3, <1>4, TheRegions

\* What the zone files have in common, list by list.
LEMMA TheZones ==
    /\ \A p \in Regions :
          /\ RoomsOf[p] \in Seq(Range(RoomsOf[p])) /\ ExitsOf[p] \in Seq(Range(ExitsOf[p]))
          /\ NpcsOf[p] \in Seq(Range(NpcsOf[p])) /\ SpawnsOf[p] \in Seq(Range(SpawnsOf[p]))
          /\ \A m \in Range(NpcsOf[p]) : m[2] \in Known(p)
          /\ \A s \in Range(SpawnsOf[p]) : s[1] \in Known(p)
    /\ Gates \in Seq(Range(Gates)) /\ PriestPool \in Seq(Range(PriestPool))
    /\ RecallPoint \in Known("keep") /\ AltarRoom \in Known("shrine")
    /\ Ravine \in Known("hub") /\ WildMouth \in Known("wilderness")
BY ZonesAssumption

LEMMA RoomIdsAre ==
    /\ \A p \in Regions : Known(p) \subseteq RoomIds
    /\ \A r \in RoomIds : r = RavineMouth \/ \E p \in Regions : r \in Known(p)
BY DEF RoomIds, AllRooms

\* A spawn point is in a room of its region, and the hub has none.
LEMMA ThePoints ==
    ASSUME NEW p \in Regions
    PROVE  /\ \A x \in PointsOf[p] : x[1] \in Known(p)
           /\ p = "hub" => PointsOf[p] = {}
<1>1. PointsOf[p] = spawn_points(p)
  BY DEF PointsOf
<1>2. ASSUME NEW x \in spawn_points(p) PROVE \E k \in DOMAIN SpawnsOf[p] : x[1] = SpawnsOf[p][k][1]
  <2>1. PICK k \in DOMAIN SpawnsOf[p] : \E i : x = <<SpawnsOf[p][k][1], SpawnsOf[p][k][2], i>>
    BY <1>2, Zenon DEF spawn_points
  <2> QED
    BY <2>1
<1>3. \A k \in DOMAIN SpawnsOf[p] : SpawnsOf[p][k] \in Range(SpawnsOf[p])
  BY DEF Range
<1>4. p = "hub" => DOMAIN SpawnsOf[p] = {}
  BY ZonesAssumption
<1> QED
  BY <1>1, <1>2, <1>3, <1>4, TheZones

\* All regions but the hub are registered.
LEMMA TheRegistry ==
    /\ Registry \in Seq(Regions) /\ Len(Registry) = Len(Tribes) + 3
    /\ \A p \in Regions : p # "hub" => p \in Range(Registry)
<1> DEFINE n == Len(Tribes)
           rest == <<"keep", "wilderness", "shrine">>
<1>1. Tribes \in Seq(Regions) /\ n \in Nat
  BY WorldAssumption, TheRegions
<1>2. rest \in Seq(Regions) /\ Len(rest) = 3
  BY TheRegions
<1>3. /\ Registry \in Seq(Regions) /\ Len(Registry) = n + 3
      /\ \A i \in 1 .. n : Registry[i] = Tribes[i]
      /\ \A i \in 1 .. 3 : Registry[n + i] = rest[i]
  BY <1>1, <1>2 DEF Registry
<1>4. ASSUME NEW p \in Regions, p # "hub" PROVE \E i \in 1 .. (n + 3) : Registry[i] = p
  <2>1. CASE p \in {"keep", "wilderness", "shrine"}
    <3>1. /\ n + 1 \in 1 .. (n + 3) /\ n + 2 \in 1 .. (n + 3) /\ n + 3 \in 1 .. (n + 3)
          /\ 1 \in 1 .. 3 /\ 2 \in 1 .. 3 /\ 3 \in 1 .. 3
      BY <1>1
    <3>2. Registry[n + 1] = "keep" /\ Registry[n + 2] = "wilderness" /\ Registry[n + 3] = "shrine"
      BY <1>3, <3>1
    <3> QED
      BY <2>1, <3>1, <3>2
  <2>2. ASSUME NEW i \in 1 .. n, p = Tribes[i] PROVE \E j \in 1 .. (n + 3) : Registry[j] = p
    <3>1. i \in 1 .. (n + 3)
      BY <1>1
    <3> QED
      BY <1>3, <2>2, <3>1
  <2> QED
    BY <1>4, <2>1, <2>2, TheRegions
<1> QED
  BY <1>3, <1>4 DEF Range

-----------------------------------------------------------------------------
(* A build whose every stage is done *)

LEMMA LaidIsKnown ==
    ASSUME NEW k \in Nat, NEW j \in 1 .. (k - 1), NEW p \in Regions, Lays(j, p)
    PROVE  Known(p) \subseteq RoomsBy(k)
BY RoomIdsAre DEF RoomsBy

\* Every region is laid, and in the order that the builders count on.
LEMMA TheLaying ==
    LET n == Len(Tribes)
    IN  /\ Lays(2, "keep") /\ Lays(8, "wilderness") /\ Lays(12, "hub") /\ NamesMouth(14)
        /\ Lays(15 + 4 * n, "shrine")
        /\ \A i \in 1 .. n : Lays(11 + 4 * i, Tribes[i])
<1> DEFINE n == Len(Tribes)
<1>1. Has(8, "grid", "wilderness") /\ Has(14, "rooms", "hub")
  <2>1. 7 \in 1 .. (8 - 1) /\ 12 \in 1 .. (14 - 1)
    OBVIOUS
  <2> QED
    BY <2>1, ThePlan DEF Has
<1> QED
  BY <1>1, ThePlan DEF Lays, NamesMouth

\* From the Shrine's exits on every room stands.
LEMMA AllLaid ==
    ASSUME NEW k \in Nat, k > 15 + 4 * Len(Tribes)
    PROVE  RoomIds \subseteq RoomsBy(k)
<1> DEFINE n == Len(Tribes)
<1>0. n \in Nat
  BY TheRegions
<1>1. ASSUME NEW p \in Regions PROVE \E j \in 1 .. (k - 1) : Lays(j, p)
  <2>1. CASE p \in {"keep", "wilderness", "hub", "shrine"}
    <3>1. /\ 2 \in 1 .. (k - 1) /\ 8 \in 1 .. (k - 1) /\ 12 \in 1 .. (k - 1)
          /\ 15 + 4 * n \in 1 .. (k - 1)
      BY <1>0
    <3> QED
      BY <2>1, <3>1, TheLaying
  <2>2. ASSUME NEW i \in 1 .. n, p = Tribes[i] PROVE \E j \in 1 .. (k - 1) : Lays(j, p)
    <3>1. 11 + 4 * i \in 1 .. (k - 1)
      BY <1>0
    <3> QED
      BY <2>2, <3>1, TheLaying
  <2> QED
    BY <2>1, <2>2, TheRegions
<1>2. \A p \in Regions : Known(p) \subseteq RoomsBy(k)
  BY <1>1, LaidIsKnown
<1>3. RavineMouth \in RoomsBy(k)
  <2>1. 14 \in 1 .. (k - 1) /\ NamesMouth(14)
    BY <1>0, TheLaying
  <2> QED
    BY <2>1 DEF RoomsBy, RoomIds
<1> QED
  BY <1>2, <1>3, RoomIdsAre

LEMMA FirstLaid ==
    /\ Known("keep") \subseteq RoomsBy(4) /\ Known("keep") \subseteq RoomsBy(5)
    /\ \A k \in {9, 10, 11, 14} : /\ Known("keep") \subseteq RoomsBy(k)
                                 /\ Known("wilderness") \subseteq RoomsBy(k)
    /\ Known("hub") \subseteq RoomsBy(14)
    /\ \A i \in 1 .. Len(Tribes) : Known(Tribes[i]) \subseteq RoomsBy(13 + 4 * i)
<1>1. /\ 2 \in 1 .. (4 - 1) /\ 2 \in 1 .. (5 - 1) /\ 12 \in 1 .. (14 - 1)
      /\ \A k \in {9, 10, 11, 14} : k \in Nat /\ 2 \in 1 .. (k - 1) /\ 8 \in 1 .. (k - 1)
  OBVIOUS
<1>2. \A i \in 1 .. Len(Tribes) : 13 + 4 * i \in Nat /\ 11 + 4 * i \in 1 .. ((13 + 4 * i) - 1)
  BY TheRegions
<1> QED
  BY <1>1, <1>2, LaidIsKnown, TheLaying, TheRegions

\* For every record with its two ends built there is an exit that way, wherever it leads.
NothingIsUnwired == \A e \in Records : {e[1], e[3]} \subseteq rooms => ~Unwired(e)

LEMMA WholeByPlan ==
    ASSUME WorldTypeOK, \A k \in 1 .. Len(build_all) : Done(k)
    PROVE  NothingIsUnwired /\ grid /\ rooms = RoomIds /\ (exits = BuiltExits => Whole)
<1> DEFINE n == Len(Tribes)
           PlanHas(k, op, p) == /\ k \in 1 .. (22 + 5 * n) /\ build_all[k].op = op
                                /\ build_all[k].at = p /\ Done(k)
<1>0. n \in Nat /\ Len(build_all) = 22 + 5 * n
  BY TheRegions, ThePlan
<1>a. ASSUME NEW k \in 1 .. (22 + 5 * n), NEW op, NEW p, build_all[k] = Stage(op, p)
      PROVE  PlanHas(k, op, p)
  <2>1. \A j \in 1 .. (22 + 5 * n) : Done(j)
    BY <1>0
  <2> QED
    BY <1>a, <2>1, StageIs
<1>1. /\ PlanHas(1, "managers", "keep") /\ PlanHas(4, "recall", "keep")
      /\ PlanHas(5, "npcs", "keep") /\ PlanHas(6, "pool", "keep")
      /\ PlanHas(7, "grid", "wilderness") /\ PlanHas(9, "gates", "wilderness")
      /\ PlanHas(10, "exits", "keep") /\ PlanHas(11, "npcs", "wilderness")
      /\ PlanHas(14, "link", "hub")
  BY <1>0, ThePlan, StageIs
<1>2. /\ PlanHas(16 + 4 * n, "exits", "shrine") /\ PlanHas(17 + 4 * n, "altar", "shrine")
      /\ PlanHas(18 + 4 * n, "exits", "hub") /\ PlanHas(19 + 5 * n, "register", "keep")
      /\ PlanHas(20 + 5 * n, "register", "wilderness") /\ PlanHas(21 + 5 * n, "register", "shrine")
      /\ PlanHas(22 + 5 * n, "populate", "keep")
  <2>1. /\ 16 + 4 * n \in 1 .. (22 + 5 * n) /\ 17 + 4 * n \in 1 .. (22 + 5 * n)
        /\ 18 + 4 * n \in 1 .. (22 + 5 * n) /\ 19 + 5 * n \in 1 .. (22 + 5 * n)
        /\ 20 + 5 * n \in 1 .. (22 + 5 * n) /\ 21 + 5 * n \in 1 .. (22 + 5 * n)
        /\ 22 + 5 * n \in 1 .. (22 + 5 * n)
    BY <1>0
  <2> HIDE DEF PlanHas
  <2> QED
    BY <1>a, <2>1, ThePlan
<1>3. ASSUME NEW i \in 1 .. n
      PROVE  /\ PlanHas(13 + 4 * i, "npcs", Tribes[i]) /\ PlanHas(14 + 4 * i, "register", Tribes[i])
             /\ PlanHas(18 + 4 * n + i, "exits", Tribes[i])
  <2>1. /\ 13 + 4 * i \in 1 .. (22 + 5 * n) /\ 14 + 4 * i \in 1 .. (22 + 5 * n)
        /\ 18 + 4 * n + i \in 1 .. (22 + 5 * n)
    BY <1>0
  <2> HIDE DEF PlanHas
  <2> QED
    BY <1>a, <2>1, ThePlan
<1>4. managers /\ grid
  BY <1>1 DEF Done
<1>5. recall /\ altar
  <2>1. AltarRoom \in RoomsBy(17 + 4 * n)
    <3>1. 17 + 4 * n \in Nat /\ 17 + 4 * n > 15 + 4 * n
      BY <1>0
    <3> QED
      BY <3>1, AllLaid, TheZones, TheRegions, RoomIdsAre
  <2> QED
    BY <1>1, <1>2, <2>1, FirstLaid, TheZones DEF Done
<1>6. rooms = RoomIds
  <2>1. ASSUME NEW p \in Regions PROVE Known(p) \subseteq rooms
    <3>1. \E k \in 1 .. Len(build_all) : Lays(k, p)
      <4>1. CASE p \in {"keep", "wilderness", "hub", "shrine"}
        <5>1. /\ 2 \in 1 .. Len(build_all) /\ 8 \in 1 .. Len(build_all)
              /\ 12 \in 1 .. Len(build_all) /\ 15 + 4 * n \in 1 .. Len(build_all)
          BY <1>0
        <5> QED
          BY <4>1, <5>1, TheLaying
      <4>2. ASSUME NEW i \in 1 .. n, p = Tribes[i] PROVE \E k \in 1 .. Len(build_all) : Lays(k, p)
        <5>1. 11 + 4 * i \in 1 .. Len(build_all)
          BY <1>0
        <5> QED
          BY <4>2, <5>1, TheLaying
      <4> QED
        BY <4>1, <4>2, TheRegions
    <3> QED
      BY <3>1 DEF Done
  <2>2. RavineMouth \in rooms
    BY <1>1, TheLaying DEF Done
  <2> QED
    BY <2>1, <2>2, RoomIdsAre DEF WorldTypeOK
<1>7. ASSUME NEW p \in Regions, NEW e \in Range(ExitsOf[p]), {e[1], e[3]} \subseteq rooms
      PROVE  ~Unwired(e)
  <2>1. CASE p = "keep"
    <3>1. CASE {e[1], e[3]} \subseteq Known("keep") \cup Known("wilderness")
      <4>1. {e[1], e[3]} \subseteq RoomsBy(10)
        BY <3>1, FirstLaid
      <4> QED
        BY <1>1, <1>7, <2>1, <4>1 DEF Done
    <3> QED
      BY <1>6, <1>7, <2>1, <3>1, ZonesAssumption
  <2>2. CASE p = "wilderness"
    BY <1>7, <2>2, ZonesAssumption DEF Range
  <2>3. ASSUME NEW k \in 1 .. (22 + 5 * n), k > 15 + 4 * n, PlanHas(k, "exits", p) PROVE ~Unwired(e)
    <3>1. RoomIds \subseteq RoomsBy(k)
      BY <2>3, AllLaid
    <3> QED
      BY <1>6, <1>7, <2>3, <3>1 DEF Done
  <2>4. CASE p \in {"hub", "shrine"}
    <3>1. 16 + 4 * n > 15 + 4 * n /\ 18 + 4 * n > 15 + 4 * n
      BY <1>0
    <3> QED
      BY <1>2, <2>3, <2>4, <3>1
  <2>5. ASSUME NEW i \in 1 .. n, p = Tribes[i] PROVE ~Unwired(e)
    <3>1. 18 + 4 * n + i > 15 + 4 * n
      BY <1>0
    <3> QED
      BY <1>3, <2>3, <2>5, <3>1
  <2> QED
    BY <2>1, <2>2, <2>4, <2>5, TheRegions
<1>8. ASSUME NEW e \in Range(Gates), {e[1], e[3]} \subseteq rooms PROVE ~Unwired(e)
  <2>1. CASE {e[1], e[3]} \subseteq Known("keep") \cup Known("wilderness")
    <3>1. {e[1], e[3]} \subseteq RoomsBy(9)
      BY <2>1, FirstLaid
    <3> QED
      BY <1>1, <1>8, <3>1 DEF Done
  <2>2. CASE e = <<WildMouth, "enter", RavineMouth>>
    <3>1. ~Unwired(<<WildMouth, "enter", Ravine>>)
      BY <1>1, FirstLaid, TheZones DEF Done
    <3> QED
      BY <2>2, <3>1 DEF Unwired, Identity
  <2> QED
    BY <1>6, <1>8, <2>1, <2>2, ZonesAssumption
<1>9. npcs = People
  <2>1. ASSUME NEW p \in Regions, NEW m \in Range(NpcsOf[p]) PROVE m \in npcs
    <3>1. m[2] \in Known(p)
      BY <2>1, TheZones
    <3>2. CASE p \in {"hub", "shrine"}
      BY <2>1, <3>2, ZonesAssumption DEF Range
    <3>3. CASE p \in {"keep", "wilderness"}
      BY <1>1, <2>1, <3>1, <3>3, FirstLaid DEF Done
    <3>4. ASSUME NEW i \in 1 .. n, p = Tribes[i] PROVE m \in npcs
      BY <1>3, <2>1, <3>1, <3>4, FirstLaid DEF Done
    <3> QED
      BY <3>2, <3>3, <3>4, TheRegions
  <2> QED
    BY <2>1 DEF WorldTypeOK, People
<1>10. pool = Range(PriestPool)
  <2>1. ASSUME NEW name \in Range(PriestPool) PROVE name \in pool
    <3>1. PICK m \in Range(NpcsOf["keep"]) : m[1] = name
      BY <2>1, ZonesAssumption
    <3>2. m[2] \in RoomsBy(5)
      BY <3>1, FirstLaid, TheZones, TheRegions
    <3>3. 5 \in 1 .. (6 - 1) /\ build_all[5] = Stage("npcs", "keep")
      BY ThePlan
    <3> QED
      BY <1>1, <2>1, <3>1, <3>2, <3>3 DEF Done
  <2> QED
    BY <2>1 DEF WorldTypeOK
<1>11. ASSUME NEW p \in Regions, NEW x \in PointsOf[p]
       PROVE  x \in points /\ x \in mobs
  <2>1. p # "hub" /\ x[1] \in Known(p)
    BY <1>11, ThePoints
  <2>2. x \in points
    <3>1. ASSUME NEW k, PlanHas(k, "register", p) PROVE x \in points
      BY <1>11, <3>1 DEF Done
    <3>2. ASSUME NEW i \in 1 .. n, p = Tribes[i] PROVE x \in points
      BY <1>3, <3>1, <3>2
    <3> QED
      BY <1>2, <2>1, <3>1, <3>2, TheRegions
  <2>3. Has(22 + 5 * n, "register", p) /\ p \in Range(Registry)
    <3>1. /\ \A i \in 1 .. n : 14 + 4 * i \in 1 .. ((22 + 5 * n) - 1)
          /\ 19 + 5 * n \in 1 .. ((22 + 5 * n) - 1) /\ 20 + 5 * n \in 1 .. ((22 + 5 * n) - 1)
          /\ 21 + 5 * n \in 1 .. ((22 + 5 * n) - 1)
      BY <1>0
    <3>2. Has(22 + 5 * n, "register", p)
      <4>1. ASSUME NEW j \in 1 .. ((22 + 5 * n) - 1), build_all[j] = Stage("register", p)
            PROVE  Has(22 + 5 * n, "register", p)
        BY <4>1 DEF Has
      <4>2. ASSUME NEW i \in 1 .. n, p = Tribes[i] PROVE Has(22 + 5 * n, "register", p)
        BY <3>1, <4>1, <4>2, ThePlan
      <4>3. /\ build_all[19 + 5 * n] = Stage("register", "keep")
            /\ build_all[20 + 5 * n] = Stage("register", "wilderness")
            /\ build_all[21 + 5 * n] = Stage("register", "shrine")
        BY ThePlan
      <4> QED
        BY <2>1, <3>1, <4>1, <4>2, <4>3, TheRegions
    <3> QED
      BY <2>1, <3>2, TheRegistry
  <2>4. x[1] \in RoomsBy(22 + 5 * n)
    <3>1. 22 + 5 * n \in Nat /\ 22 + 5 * n > 15 + 4 * n
      BY <1>0
    <3> QED
      BY <2>1, <3>1, AllLaid, RoomIdsAre
  <2> QED
    BY <1>2, <1>11, <2>2, <2>3, <2>4 DEF Done
<1>12. points = AllPoints /\ mobs = AllPoints
  <2>1. \A x \in AllPoints : \E p \in Regions : x \in PointsOf[p]
    BY DEF AllPoints, PointsOf, Range
  <2> QED
    BY <1>11, <2>1 DEF WorldTypeOK
<1>13. NothingIsUnwired
  BY <1>7, <1>8 DEF NothingIsUnwired, Records
<1> QED
  BY <1>4, <1>5, <1>6, <1>9, <1>10, <1>12, <1>13 DEF Whole

-----------------------------------------------------------------------------
(* One stage *)

\* What is in the database stays there; an exit may get another destination.
Grows ==
    /\ (managers => managers') /\ (grid => grid') /\ (recall => recall') /\ (altar => altar')
    /\ rooms \subseteq rooms' /\ npcs \subseteq npcs' /\ pool \subseteq pool'
    /\ points \subseteq points' /\ mobs \subseteq mobs'
    /\ \A x \in exits : \E y \in exits' : Identity(y) = Identity(x)

DatabaseOK ==
    /\ {managers, grid, recall, altar} \subseteq BOOLEAN
    /\ rooms \subseteq RoomIds
    /\ exits \subseteq Declared
    /\ npcs \subseteq People
    /\ pool \subseteq Range(PriestPool)
    /\ points \subseteq AllPoints
    /\ mobs \subseteq points

ControlOK ==
    /\ entry \in {"off", "ready", "verifying", "serving", "failed"}
    /\ server \in {"off", "building", "rebuilding", "up"}
    /\ stage \in 0 .. Len(build_all) /\ (stage > 0 <=> Building)
    /\ mishaps \in 0 .. MaxMishaps
    /\ {account, settled, ended} \subseteq BOOLEAN
    /\ ServerIsStarted

LEMMA TypeIs == WorldTypeOK /\ ServerIsStarted <=> ControlOK /\ DatabaseOK
BY DEF WorldTypeOK, ControlOK, DatabaseOK

LEMMA NextTypeIs == WorldTypeOK' /\ ServerIsStarted' <=> ControlOK' /\ DatabaseOK'
BY DEF WorldTypeOK, ControlOK, DatabaseOK

\* What a stage leaves behind is not undone by growth.
LEMMA DoneStays ==
    ASSUME Grows, NEW k, Done(k)
    PROVE  Done(k)'
<1>1. \A e : ~Unwired(e) => ~Unwired(e)'
  BY DEF Grows, Unwired
<1> QED
  BY <1>1 DEF Done, Grows

\* The stage under way ends, and its part of the plan is done or the build is over.
LEMMA StageKeeps ==
    ASSUME WorldIInv, Building, NEW len \in Nat, NEW n \in Ends(len), Wrote(n, len),
           Grows, DatabaseOK', NEW k, k = stage, n = len => Done(k)'
    PROVE  WorldIInv'
<1>1. ControlOK /\ stage \in 1 .. Len(build_all) /\ ended = FALSE /\ Len(build_all) \in Nat
  BY TypeIs, StageIs DEF WorldIInv, ControlOK
<1>2. n \in 0 .. len /\ (n < len => mishaps < MaxMishaps)
  BY DEF Ends
<1>3. CASE n = len
  <2>1. Finish /\ UNCHANGED <<entry, account, mishaps>>
    BY <1>2, <1>3 DEF Wrote
  <2>2. ControlOK'
    <3>1. \/ stage' = 0 /\ server' = "up" /\ settled' = TRUE /\ ended' = TRUE
          \/ /\ stage' = stage + 1 /\ stage # Len(build_all)
             /\ server' = server /\ settled' = settled /\ ended' = ended
      BY <2>1 DEF Finish
    <3>2. stage' \in 0 .. Len(build_all) /\ (stage' > 0 <=> Building')
      BY <1>1, <3>1 DEF Building
    <3>3. entry \notin {"off", "ready", "failed"}
      BY <1>1 DEF ControlOK, ServerIsStarted, Building
    <3>4. {account', settled', ended'} \subseteq BOOLEAN
      BY <1>1, <2>1, <3>1, Zenon DEF ControlOK
    <3> QED
      BY <1>1, <2>1, <3>1, <3>2, <3>3, <3>4 DEF ControlOK, ServerIsStarted
  <2>3. (Building => ~ended)'
    BY <1>1, <2>1 DEF Finish, Building
  <2>4. Behind' = 1 .. k
    <3>1. CASE k = Len(build_all)
      BY <2>1, <3>1, StageIs DEF Finish, Behind
    <3>2. CASE k # Len(build_all)
      BY <1>1, <2>1, <3>2 DEF Finish, Behind
    <3> QED
      BY <3>1, <3>2
  <2>5. ASSUME NEW j \in 1 .. (k - 1) PROVE Done(j)'
    <3>1. Done(j)
      BY <1>1 DEF WorldIInv, NothingIsLost, Behind
    <3> QED
      BY <3>1, DoneStays
  <2>6. NothingIsLost'
    <3>1. ASSUME NEW j \in 1 .. k PROVE Done(j)'
      BY <1>1, <1>3, <2>5
    <3> QED
      BY <2>4, <3>1 DEF NothingIsLost
  <2> QED
    BY <2>2, <2>3, <2>6, NextTypeIs DEF WorldIInv
<1>4. CASE n < len
  <2>1. mishaps' = mishaps + 1 /\ (Traceback \/ Killed) /\ account' = account /\ mishaps < MaxMishaps
    BY <1>2, <1>4 DEF Wrote
  <2>2. /\ stage' = 0 /\ ended' = ended
        /\ \/ server' = "up" /\ settled' = TRUE /\ entry' = entry
           \/ server' = "off" /\ settled' = settled /\ entry' = "off"
    BY <2>1 DEF Traceback, Killed
  <2>3. mishaps' \in 0 .. MaxMishaps
    BY <1>1, <2>1, WorldAssumption DEF ControlOK
  <2>4. ControlOK'
    <3>1. {account', settled', ended'} \subseteq BOOLEAN
      BY <1>1, <2>1, <2>2, Zenon DEF ControlOK
    <3>2. entry \notin {"off", "ready", "failed"}
      BY <1>1 DEF ControlOK, ServerIsStarted, Building
    <3> QED
      BY <1>1, <2>1, <2>2, <2>3, <3>1, <3>2 DEF ControlOK, Building, ServerIsStarted
  <2>5. (Building => ~ended)' /\ Behind' = {}
    BY <1>1, <2>2 DEF Behind
  <2>6. NothingIsLost'
    BY <2>5 DEF NothingIsLost
  <2> QED
    BY <2>4, <2>5, <2>6, NextTypeIs DEF WorldIInv
<1> QED
  BY <1>2, <1>3, <1>4

\* What the stages before this one have left behind.
LEMMA SoFar ==
    ASSUME WorldIInv, Building, NEW k, k = stage
    PROVE  /\ k \in 1 .. Len(build_all) /\ Here = build_all[k].at /\ Here \in Regions
           /\ \A j \in 1 .. (k - 1) : Done(j)
           /\ RoomsBy(k) \subseteq rooms
           /\ DatabaseOK
<1>1. /\ k \in 1 .. Len(build_all) /\ Here = build_all[k].at /\ Here \in Regions
      /\ DatabaseOK
  BY TypeIs, StageIs DEF WorldIInv, ControlOK, Here
<1>2. \A j \in 1 .. (k - 1) : Done(j)
  BY DEF WorldIInv, NothingIsLost, Behind
<1>3. RoomsBy(k) \subseteq rooms
  <2> SUFFICES ASSUME NEW r \in RoomsBy(k) PROVE r \in rooms
    OBVIOUS
  <2>1. PICK j \in 1 .. (k - 1) : \/ \E p \in Regions : Lays(j, p) /\ r \in Known(p)
                                  \/ NamesMouth(j) /\ r = RavineMouth
    BY DEF RoomsBy
  <2> QED
    BY <1>2, <2>1 DEF Done
<1> QED
  BY <1>1, <1>2, <1>3

\* Only two kinds of stages lay rooms, and one more names one.
LEMMA WhoLays ==
    ASSUME NEW k
    PROVE  /\ \A p : Lays(k, p) => /\ build_all[k].op = "rooms" \/ build_all[k].op = "tags"
                                   /\ build_all[k].at = p
                                   /\ build_all[k].op = "tags" => p = "wilderness" /\ Has(k, "grid", p)
           /\ NamesMouth(k) => build_all[k].op = "link" /\ Has(k, "rooms", "hub")
BY StageIs DEF Lays, NamesMouth

LEMMA ListIs ==
    ASSUME NEW f, f \in Seq(Range(f))
    PROVE  /\ Len(f) \in Nat
           /\ \A n \in 0 .. Len(f) : {f[i] : i \in 1 .. n} \subseteq Range(f)
           /\ {f[i] : i \in 1 .. Len(f)} = Range(f)
<1>1. DOMAIN f = 1 .. Len(f) /\ Len(f) \in Nat
  OBVIOUS
<1> QED
  BY <1>1 DEF Range

LEMMA ManagersKeep ==
    ASSUME WorldIInv, _ensure_managers PROVE WorldIInv'
<1> PICK k : k = stage
  OBVIOUS
<1>1. Building /\ build_all[k].op = "managers"
  BY DEF _ensure_managers, At
<1>2. PICK n \in Ends(1) : managers' = (managers \/ n = 1) /\ Wrote(n, 1)
  BY DEF _ensure_managers
<1>3. UNCHANGED <<rooms, exits, grid, npcs, recall, pool, altar, points, mobs>>
  BY DEF _ensure_managers
<1>4. Grows /\ DatabaseOK'
  BY <1>1, <1>2, <1>3, SoFar DEF Grows, DatabaseOK
<1>5. n = 1 => Done(k)'
  BY <1>1, <1>2, WhoLays DEF Done
<1> QED
  BY <1>1, <1>2, <1>4, <1>5, StageKeeps

LEMMA RoomsKeep ==
    ASSUME WorldIInv, build_rooms PROVE WorldIInv'
<1> DEFINE batch == RoomsOf[Here]
<1> PICK k : k = stage
  OBVIOUS
<1>1. Building /\ build_all[k].op = "rooms"
  BY DEF build_rooms, At
<1>2. PICK n \in Ends(Len(batch)) : /\ rooms' = rooms \cup {batch[i] : i \in 1 .. n}
                                   /\ Wrote(n, Len(batch))
  BY DEF build_rooms
<1>3. UNCHANGED <<managers, exits, grid, npcs, recall, pool, altar, points, mobs>>
  BY DEF build_rooms
<1>4. Len(batch) \in Nat /\ n \in 0 .. Len(batch) /\ Range(batch) = Known(Here) /\ Here \in Regions
  BY <1>1, TheZones, SoFar, ListIs DEF Known, Ends
<1>5. /\ {batch[i] : i \in 1 .. n} \subseteq Known(Here)
      /\ n = Len(batch) => {batch[i] : i \in 1 .. n} = Known(Here)
  BY <1>4, TheZones, ListIs
<1>6. Grows /\ DatabaseOK'
  BY <1>1, <1>2, <1>3, <1>4, <1>5, SoFar, RoomIdsAre DEF Grows, DatabaseOK
<1>7. n = Len(batch) => Done(k)'
  BY <1>1, <1>2, <1>5, SoFar, WhoLays DEF Done
<1> QED
  BY <1>1, <1>2, <1>4, <1>6, <1>7, StageKeeps

LEMMA TagsKeep ==
    ASSUME WorldIInv, _tag_rooms PROVE WorldIInv'
<1> DEFINE batch == RoomsOf["wilderness"]
<1> PICK k : k = stage
  OBVIOUS
<1>1. Building /\ build_all[k].op = "tags"
  BY DEF _tag_rooms, At
<1>2. PICK n \in Ends(Len(batch)) :
         /\ rooms' = IF grid THEN rooms \cup {batch[i] : i \in 1 .. n} ELSE rooms
         /\ Wrote(n, Len(batch))
  BY DEF _tag_rooms
<1>3. UNCHANGED <<managers, exits, grid, npcs, recall, pool, altar, points, mobs>>
  BY DEF _tag_rooms
<1>4. /\ Len(batch) \in Nat /\ n \in 0 .. Len(batch) /\ "wilderness" \in Regions
      /\ Range(batch) = Known("wilderness")
  <2>1. "wilderness" \in Regions /\ Range(batch) = Known("wilderness")
    BY TheRegions DEF Known
  <2>2. batch \in Seq(Range(batch))
    BY <2>1, TheZones
  <2>3. Len(batch) \in Nat
    BY <2>2
  <2> QED
    BY <2>1, <2>3 DEF Ends
<1>5. /\ {batch[i] : i \in 1 .. n} \subseteq Known("wilderness")
      /\ n = Len(batch) => {batch[i] : i \in 1 .. n} = Known("wilderness")
  BY <1>4, TheZones, ListIs
<1>6. Grows /\ DatabaseOK'
  BY <1>1, <1>2, <1>3, <1>4, <1>5, SoFar, RoomIdsAre DEF Grows, DatabaseOK
<1>7. Has(k, "grid", "wilderness") => grid
  BY <1>1, SoFar, StageIs DEF Has, Done
<1>8. n = Len(batch) => Done(k)'
  BY <1>1, <1>2, <1>5, <1>7, WhoLays DEF Done
<1> QED
  BY <1>1, <1>2, <1>4, <1>6, <1>8, StageKeeps

LEMMA RecallKeeps ==
    ASSUME WorldIInv, tag_recall_point PROVE WorldIInv'
<1> PICK k : k = stage
  OBVIOUS
<1>1. Building /\ build_all[k].op = "recall"
  BY DEF tag_recall_point, At
<1>2. PICK n \in Ends(1) : recall' = (recall \/ (n = 1 /\ RecallPoint \in rooms)) /\ Wrote(n, 1)
  BY DEF tag_recall_point
<1>3. UNCHANGED <<managers, rooms, exits, grid, npcs, pool, altar, points, mobs>>
  BY DEF tag_recall_point
<1>4. Grows /\ DatabaseOK'
  BY <1>1, <1>2, <1>3, SoFar DEF Grows, DatabaseOK
<1>5. n = 1 => Done(k)'
  BY <1>1, <1>2, SoFar, WhoLays DEF Done
<1> QED
  BY <1>1, <1>2, <1>4, <1>5, StageKeeps

LEMMA GridKeeps ==
    ASSUME WorldIInv, spawn_grid PROVE WorldIInv'
<1> PICK k : k = stage
  OBVIOUS
<1>1. Building /\ build_all[k].op = "grid"
  BY DEF spawn_grid, At
<1>2. PICK n \in Ends(1) : grid' = (grid \/ n = 1) /\ Wrote(n, 1)
  BY DEF spawn_grid
<1>3. UNCHANGED <<managers, rooms, exits, npcs, recall, pool, altar, points, mobs>>
  BY DEF spawn_grid
<1>4. Grows /\ DatabaseOK'
  BY <1>1, <1>2, <1>3, SoFar DEF Grows, DatabaseOK
<1>5. n = 1 => Done(k)'
  BY <1>1, <1>2, WhoLays DEF Done
<1> QED
  BY <1>1, <1>2, <1>4, <1>5, StageKeeps

LEMMA AltarKeeps ==
    ASSUME WorldIInv, build_object PROVE WorldIInv'
<1> PICK k : k = stage
  OBVIOUS
<1>1. Building /\ build_all[k].op = "altar"
  BY DEF build_object, At
<1>2. PICK n \in Ends(1) : altar' = (altar \/ (n = 1 /\ AltarRoom \in rooms)) /\ Wrote(n, 1)
  BY DEF build_object
<1>3. UNCHANGED <<managers, rooms, exits, grid, npcs, recall, pool, points, mobs>>
  BY DEF build_object
<1>4. Grows /\ DatabaseOK'
  BY <1>1, <1>2, <1>3, SoFar DEF Grows, DatabaseOK
<1>5. n = 1 => Done(k)'
  BY <1>1, <1>2, SoFar, WhoLays DEF Done
<1> QED
  BY <1>1, <1>2, <1>4, <1>5, StageKeeps

LEMMA PeopleKeep ==
    ASSUME WorldIInv, build_npcs PROVE WorldIInv'
<1> DEFINE batch == NpcsOf[Here]
           come(n) == {batch[i] : i \in {j \in 1 .. n : batch[j][2] \in rooms}}
<1> PICK k : k = stage
  OBVIOUS
<1>1. Building /\ build_all[k].op = "npcs"
  BY DEF build_npcs, At
<1>2. PICK n \in Ends(Len(batch)) : npcs' = npcs \cup come(n) /\ Wrote(n, Len(batch))
  BY DEF build_npcs
<1>3. UNCHANGED <<managers, rooms, exits, grid, recall, pool, altar, points, mobs>>
  BY DEF build_npcs
<1>4. Len(batch) \in Nat /\ n \in 0 .. Len(batch) /\ Here \in Regions /\ batch \in Seq(Range(batch))
  BY <1>1, TheZones, SoFar DEF Ends
<1>5. come(n) \subseteq Range(batch)
  BY <1>4, ListIs
<1>6. ASSUME n = Len(batch), NEW m \in Range(batch), m[2] \in rooms PROVE m \in come(n)
  BY <1>4, <1>6, ListIs
<1>7. Grows /\ DatabaseOK'
  BY <1>1, <1>2, <1>3, <1>4, <1>5, SoFar DEF Grows, DatabaseOK, People
<1>8. n = Len(batch) => Done(k)'
  <2> SUFFICES ASSUME n = Len(batch) PROVE Done(k)'
    OBVIOUS
  <2>1. \A m \in Range(batch) : m[2] \in RoomsBy(k) => m \in npcs'
    BY <1>1, <1>2, <1>6, SoFar
  <2> QED
    BY <1>1, <2>1, SoFar, WhoLays DEF Done
<1> QED
  BY <1>1, <1>2, <1>4, <1>7, <1>8, StageKeeps

LEMMA PoolKeeps ==
    ASSUME WorldIInv, tag_priest_pool PROVE WorldIInv'
<1> DEFINE tagged(n) == {PriestPool[i] : i \in {j \in 1 .. n : \E m \in npcs : m[1] = PriestPool[j]}}
<1> PICK k : k = stage
  OBVIOUS
<1>1. Building /\ build_all[k].op = "pool"
  BY DEF tag_priest_pool, At
<1>2. PICK n \in Ends(Len(PriestPool)) : pool' = pool \cup tagged(n) /\ Wrote(n, Len(PriestPool))
  BY DEF tag_priest_pool
<1>3. UNCHANGED <<managers, rooms, exits, grid, npcs, recall, altar, points, mobs>>
  BY DEF tag_priest_pool
<1>4. Len(PriestPool) \in Nat /\ n \in 0 .. Len(PriestPool) /\ PriestPool \in Seq(Range(PriestPool))
  BY TheZones DEF Ends
<1>5. tagged(n) \subseteq Range(PriestPool)
  BY <1>4, ListIs
<1>6. ASSUME n = Len(PriestPool), NEW name \in Range(PriestPool), \E m \in npcs : m[1] = name
      PROVE  name \in tagged(n)
  BY <1>4, <1>6, ListIs
<1>7. Grows /\ DatabaseOK'
  BY <1>1, <1>2, <1>3, <1>4, <1>5, SoFar DEF Grows, DatabaseOK
<1>8. n = Len(PriestPool) => Done(k)'
  <2> SUFFICES ASSUME n = Len(PriestPool) PROVE Done(k)'
    OBVIOUS
  <2>1. ASSUME NEW j \in 1 .. (k - 1), build_all[j] = Stage("npcs", "keep"),
               NEW m \in Range(NpcsOf["keep"]), m[2] \in RoomsBy(j)
        PROVE  m \in npcs
    <3>1. Done(j) /\ build_all[j].op = "npcs" /\ build_all[j].at = "keep"
      BY <1>1, <2>1, SoFar, StageIs
    <3> QED
      BY <2>1, <3>1 DEF Done
  <2>2. ASSUME NEW name \in Range(PriestPool), NEW j \in 1 .. (k - 1),
               build_all[j] = Stage("npcs", "keep"),
               NEW m \in Range(NpcsOf["keep"]), m[1] = name, m[2] \in RoomsBy(j)
        PROVE  name \in pool'
    BY <1>2, <1>6, <2>1, <2>2
  <2> QED
    BY <1>1, <2>2, WhoLays DEF Done
<1> QED
  BY <1>1, <1>2, <1>4, <1>7, <1>8, StageKeeps

LEMMA RegistryKeeps ==
    ASSUME WorldIInv, register_zone PROVE WorldIInv'
<1> PICK k : k = stage
  OBVIOUS
<1>1. Building /\ build_all[k].op = "register"
  BY DEF register_zone, At
<1>2. PICK n \in Ends(1) :
         /\ points' = IF managers /\ n = 1 THEN points \cup PointsOf[Here] ELSE points
         /\ Wrote(n, 1)
  BY DEF register_zone
<1>3. UNCHANGED <<managers, rooms, exits, grid, npcs, recall, pool, altar, mobs>>
  BY DEF register_zone
<1>4. managers
  <2>1. k # 1 /\ 1 \in 1 .. (k - 1) /\ build_all[1].op = "managers"
    BY <1>1, SoFar, ThePlan, StageIs
  <2> QED
    BY <1>1, <2>1, SoFar DEF Done
<1>5. PointsOf[Here] \subseteq AllPoints
  BY <1>1, SoFar DEF AllPoints, PointsOf, Range
<1>6. Grows /\ DatabaseOK'
  BY <1>1, <1>2, <1>3, <1>5, SoFar DEF Grows, DatabaseOK
<1>7. n = 1 => Done(k)'
  BY <1>1, <1>2, <1>4, SoFar, WhoLays DEF Done
<1> QED
  BY <1>1, <1>2, <1>6, <1>7, StageKeeps

LEMMA PopulateKeeps ==
    ASSUME WorldIInv, populate PROVE WorldIInv'
<1> DEFINE new(n) == {p \in points : /\ p[1] \in rooms
                                      /\ \E i \in 1 .. n : p \in PointsOf[Registry[i]]}
<1> PICK k : k = stage
  OBVIOUS
<1>1. Building /\ build_all[k].op = "populate"
  BY DEF populate, At
<1>2. PICK n \in Ends(Len(Registry)) : mobs' = mobs \cup new(n) /\ Wrote(n, Len(Registry))
  BY DEF populate
<1>3. UNCHANGED <<managers, rooms, exits, grid, npcs, recall, pool, altar, points>>
  BY DEF populate
<1>4. Len(Registry) \in Nat /\ DOMAIN Registry = 1 .. Len(Registry)
  BY TheRegistry
<1>5. Grows /\ DatabaseOK'
  BY <1>1, <1>2, <1>3, SoFar DEF Grows, DatabaseOK
<1>6. n = Len(Registry) => Done(k)'
  <2> SUFFICES ASSUME n = Len(Registry) PROVE Done(k)'
    OBVIOUS
  <2>1. ASSUME NEW p \in Range(Registry), Has(k, "register", p),
               NEW x \in PointsOf[p], x[1] \in RoomsBy(k)
        PROVE  x \in mobs'
    <3>1. PICK j \in 1 .. (k - 1) : build_all[j] = Stage("register", p)
      BY <2>1 DEF Has
    <3>2. x \in points
      BY <1>1, <2>1, <3>1, SoFar, StageIs DEF Done
    <3>3. x[1] \in rooms
      BY <1>1, <2>1, SoFar
    <3>4. \E i \in 1 .. n : p = Registry[i]
      BY <1>4 DEF Range
    <3> QED
      BY <1>2, <2>1, <3>2, <3>3, <3>4
  <2> QED
    BY <1>1, <2>1, WhoLays DEF Done
<1> QED
  BY <1>1, <1>2, <1>4, <1>5, <1>6, StageKeeps

-----------------------------------------------------------------------------
(* The stages that wire exits *)

\* A set of positions that is not empty has a last one.
LEMMA LastOne ==
    ASSUME NEW n \in Nat, NEW J \in SUBSET (1 .. n), J # {}
    PROVE  \E j \in J : \A i \in J : i <= j
<1> DEFINE Ahead(j) == {i \in 1 .. n : i > j}
           R == StrictSubsetOrdering(1 .. n)
           Sets == {Ahead(j) : j \in J}
<1>1. IsWellFoundedOn(R, SUBSET (1 .. n))
  <2>1. IsFiniteSet(1 .. n)
    BY FS_Interval
  <2> QED
    BY <2>1, FS_StrictSubsetOrderingWellFounded, FS_FiniteSubsetsOfFinite
<1>2. Sets \subseteq SUBSET (1 .. n) /\ Sets # {}
  OBVIOUS
<1>3. PICK s \in Sets : \A t \in Sets : ~ (<<t, s>> \in R)
  <2> HIDE DEF R, Sets
  <2> QED
    BY <1>1, <1>2, WFMin
<1>4. PICK j \in J : s = Ahead(j)
  BY <1>3
<1>5. ASSUME NEW i \in J, i > j PROVE FALSE
  <2>1. Ahead(i) \subseteq Ahead(j) /\ i \in Ahead(j) /\ i \notin Ahead(i)
    BY <1>5
  <2>2. <<Ahead(i), Ahead(j)>> \in R
    BY <2>1 DEF StrictSubsetOrdering
  <2> QED
    BY <1>3, <1>4, <2>2
<1> QED
  BY <1>5

\* What a list of records wires: an exit for every record with two ends, each as the
\* last of the records about it that have them says.
LEMMA WiredIs ==
    ASSUME NEW batch, batch \in Seq(Range(batch)), NEW n \in 0 .. Len(batch)
    PROVE  /\ \A w \in Wired(batch, n) : \E i \in 1 .. n :
                 /\ w = Way(batch[i]) /\ Identity(w) = Identity(batch[i])
                 /\ {batch[i][1], batch[i][3]} \subseteq rooms
                 /\ \A j \in 1 .. n : j > i /\ {batch[j][1], batch[j][3]} \subseteq rooms
                                       => Identity(batch[j]) # Identity(w)
           /\ n = Len(batch) =>
                 \A e \in Range(batch) : {e[1], e[3]} \subseteq rooms =>
                    \E w \in Wired(batch, n) : Identity(w) = Identity(e)
<1> DEFINE Live(e) == e[1] \in rooms /\ e[3] \in rooms
           Writes == {i \in 1 .. n : /\ Live(batch[i])
                                     /\ \A j \in (i + 1) .. n :
                                          Identity(batch[j]) = Identity(batch[i]) => ~Live(batch[j])}
           exit(i) == <<batch[i][1], batch[i][2], Resolve(batch[i][3])>>
<1>1. DOMAIN batch = 1 .. Len(batch) /\ Len(batch) \in Nat /\ n \in Nat
  OBVIOUS
<1>2. Wired(batch, n) = {exit(i) : i \in Writes}
  BY Zenon DEF Wired
<1>3. \A i : exit(i) = Way(batch[i]) /\ Identity(exit(i)) = Identity(batch[i])
  BY DEF Way, Identity
<1>4. ASSUME n = Len(batch), NEW e \in Range(batch), {e[1], e[3]} \subseteq rooms
      PROVE  \E w \in Wired(batch, n) : Identity(w) = Identity(e)
  <2> DEFINE J == {j \in 1 .. n : Identity(batch[j]) = Identity(e) /\ Live(batch[j])}
  <2>1. J \in SUBSET (1 .. n) /\ J # {}
    BY <1>1, <1>4 DEF Range
  <2>2. PICK i \in J : \A j \in J : j <= i
    <3> HIDE DEF J
    <3> QED
      BY <1>1, <2>1, LastOne
  <2>3. i \in Writes
    BY <1>1, <2>2
  <2>4. Identity(exit(i)) = Identity(e)
    BY <1>3, <2>2
  <2> QED
    BY <1>2, <2>3, <2>4
<1>5. ASSUME NEW i \in Writes, NEW j \in 1 .. n, j > i, Live(batch[j])
      PROVE  Identity(batch[j]) # Identity(exit(i))
  <2>1. j \in (i + 1) .. n
    BY <1>1, <1>5
  <2> QED
    BY <1>3, <1>5, <2>1
<1>6. ASSUME NEW w \in Wired(batch, n)
      PROVE  \E i \in 1 .. n : /\ w = Way(batch[i]) /\ Identity(w) = Identity(batch[i])
                               /\ {batch[i][1], batch[i][3]} \subseteq rooms
                               /\ \A j \in 1 .. n : j > i /\ {batch[j][1], batch[j][3]} \subseteq rooms
                                                     => Identity(batch[j]) # Identity(w)
  <2>1. PICK i \in Writes : w = exit(i)
    BY <1>2, <1>6
  <2>2. i \in 1 .. n /\ Live(batch[i])
    OBVIOUS
  <2> HIDE DEF Writes, exit
  <2> QED
    BY <1>3, <1>5, <2>1, <2>2
<1> QED
  BY <1>4, <1>6

LEMMA DeclaredIs ==
    /\ \A p \in Regions : \A e \in Range(ExitsOf[p]) : e \in Records /\ Way(e) \in Declared
    /\ \A e \in Range(Gates) : e \in Records /\ Way(e) \in Declared
    /\ LET enter == <<WildMouth, "enter", RavineMouth>>
       IN  /\ enter \in Records /\ Way(enter) \in Declared /\ Joins(enter)
           /\ Way(enter) = <<WildMouth, "enter", Ravine>>
<1> DEFINE enter == <<WildMouth, "enter", RavineMouth>>
<1>1. /\ \A p \in Regions : \A e \in Range(ExitsOf[p]) : e \in Records /\ Way(e) \in Declared
      /\ \A e \in Range(Gates) : e \in Records /\ Way(e) \in Declared
  BY DEF Declared, Records
<1>2. enter \in Range(Gates) /\ Way(enter) = <<WildMouth, "enter", Ravine>>
  BY ZonesAssumption DEF Resolve, Way
<1>3. Joins(enter)
  BY TheZones, TheRegions, RoomIdsAre DEF Joins, RoomIds
<1> QED
  BY <1>1, <1>2, <1>3

LEMMA ExitsKeep ==
    ASSUME WorldIInv, build_exits PROVE WorldIInv'
<1> DEFINE batch == ExitsOf[Here]
<1> PICK k : k = stage
  OBVIOUS
<1>1. Building /\ build_all[k].op = "exits"
  BY DEF build_exits, At
<1>2. PICK n \in Ends(Len(batch)) :
         /\ exits' = {e \in exits : \A w \in Wired(batch, n) : Identity(w) # Identity(e)}
                       \cup Wired(batch, n)
         /\ Wrote(n, Len(batch))
  BY DEF build_exits
<1>3. UNCHANGED <<managers, rooms, grid, npcs, recall, pool, altar, points, mobs>>
  BY DEF build_exits
<1>4. /\ Here \in Regions /\ batch \in Seq(Range(batch))
      /\ Len(batch) \in Nat /\ n \in 0 .. Len(batch)
  BY <1>1, TheZones, SoFar DEF Ends
<1>5. Wired(batch, n) \subseteq Declared
  <2>1. \A i \in 1 .. n : batch[i] \in Range(batch)
    BY <1>4 DEF Range
  <2> QED
    BY <1>4, <2>1, WiredIs, DeclaredIs
<1>6. \A x \in exits : \E y \in exits' : Identity(y) = Identity(x)
  BY <1>2
<1>7. Grows /\ DatabaseOK'
  BY <1>1, <1>2, <1>3, <1>5, <1>6, SoFar DEF Grows, DatabaseOK
<1>8. n = Len(batch) => Done(k)'
  <2> SUFFICES ASSUME n = Len(batch) PROVE Done(k)'
    OBVIOUS
  <2>1. ASSUME NEW e \in Range(batch), {e[1], e[3]} \subseteq RoomsBy(k) PROVE ~Unwired(e)'
    <3>1. \E w \in Wired(batch, n) : Identity(w) = Identity(e)
      BY <1>1, <1>4, <2>1, SoFar, WiredIs
    <3> QED
      BY <1>2, <3>1 DEF Unwired
  <2> QED
    BY <1>1, <2>1, SoFar, WhoLays DEF Done
<1> QED
  BY <1>1, <1>2, <1>4, <1>7, <1>8, StageKeeps

LEMMA GatesKeep ==
    ASSUME WorldIInv, _wire_interzone_exits PROVE WorldIInv'
<1> DEFINE exit(i) == <<Gates[i][1], Gates[i][2], Resolve(Gates[i][3])>>
           Opens(n) == {i \in 1 .. n : /\ Gates[i][1] \in rooms
                                       /\ Gates[i][3] \in rooms
                                       /\ Unwired(Gates[i])}
<1> PICK k : k = stage
  OBVIOUS
<1>1. Building /\ build_all[k].op = "gates"
  BY DEF _wire_interzone_exits, At
<1>2. PICK n \in Ends(Len(Gates)) : /\ exits' = exits \cup {exit(i) : i \in Opens(n)}
                                   /\ Wrote(n, Len(Gates))
  BY DEF _wire_interzone_exits
<1>3. UNCHANGED <<managers, rooms, grid, npcs, recall, pool, altar, points, mobs>>
  BY DEF _wire_interzone_exits
<1>4. Gates \in Seq(Range(Gates)) /\ Len(Gates) \in Nat /\ n \in 0 .. Len(Gates)
  BY TheZones DEF Ends
<1>5. \A i \in 1 .. n : Gates[i] \in Range(Gates)
  BY <1>4 DEF Range
<1>6. Grows /\ DatabaseOK'
  <2>1. {exit(i) : i \in Opens(n)} \subseteq Declared
    BY <1>5, DeclaredIs DEF Way
  <2> QED
    BY <1>1, <1>2, <1>3, <2>1, SoFar DEF Grows, DatabaseOK
<1>7. n = Len(Gates) => Done(k)'
  <2> SUFFICES ASSUME n = Len(Gates) PROVE Done(k)'
    OBVIOUS
  <2>1. ASSUME NEW e \in Range(Gates), {e[1], e[3]} \subseteq RoomsBy(k) PROVE ~Unwired(e)'
    <3>1. PICK i \in 1 .. n : e = Gates[i]
      BY <1>4 DEF Range
    <3>2. e[1] \in rooms /\ e[3] \in rooms
      BY <1>1, <2>1, SoFar
    <3>3. CASE Unwired(e)
      <4>1. exit(i) \in exits' /\ Identity(exit(i)) = Identity(e)
        BY <1>2, <3>1, <3>2, <3>3 DEF Identity
      <4> QED
        BY <4>1 DEF Unwired
    <3>4. CASE ~Unwired(e)
      BY <1>2, <3>4 DEF Unwired
    <3> QED
      BY <3>3, <3>4
  <2> QED
    BY <1>1, <2>1, WhoLays DEF Done
<1> QED
  BY <1>1, <1>2, <1>4, <1>6, <1>7, StageKeeps

LEMMA LinkKeeps ==
    ASSUME WorldIInv, _link_to_wilderness PROVE WorldIInv'
<1> DEFINE enter == <<WildMouth, "enter", Ravine>>
<1> PICK k : k = stage
  OBVIOUS
<1>1. Building /\ build_all[k].op = "link"
  BY DEF _link_to_wilderness, At
<1>2. PICK n \in Ends(2) :
         /\ rooms' = IF n >= 1 /\ Ravine \in rooms THEN rooms \cup {RavineMouth} ELSE rooms
         /\ exits' = IF n = 2 /\ {Ravine, WildMouth} \subseteq rooms /\ Unwired(enter)
                     THEN exits \cup {enter} ELSE exits
         /\ Wrote(n, 2)
  BY DEF _link_to_wilderness
<1>3. UNCHANGED <<managers, grid, npcs, recall, pool, altar, points, mobs>>
  BY DEF _link_to_wilderness
<1> HIDE DEF enter
<1>4. Grows /\ DatabaseOK'
  <2>1. enter \in Declared /\ RavineMouth \in RoomIds
    BY DeclaredIs DEF RoomIds, enter
  <2> QED
    BY <1>1, <1>2, <1>3, <2>1, SoFar DEF Grows, DatabaseOK
<1>5. n = 2 => Done(k)'
  <2> SUFFICES ASSUME n = 2 PROVE Done(k)'
    OBVIOUS
  <2>1. ASSUME Has(k, "rooms", "hub") PROVE RavineMouth \in rooms'
    <3>1. PICK j \in 1 .. (k - 1) : Lays(j, "hub")
      BY <2>1 DEF Has, Lays
    <3>2. Known("hub") \subseteq rooms
      BY <1>1, <3>1, SoFar, TheRegions DEF Done
    <3> QED
      BY <1>2, <3>2, TheZones
  <2>2. ASSUME {Ravine, WildMouth} \subseteq RoomsBy(k) PROVE ~Unwired(enter)'
    <3>1. {Ravine, WildMouth} \subseteq rooms
      BY <1>1, <2>2, SoFar
    <3>2. CASE Unwired(enter)
      BY <1>2, <3>1, <3>2 DEF Unwired
    <3>3. CASE ~Unwired(enter)
      BY <1>2, <3>3 DEF Unwired
    <3> QED
      BY <3>2, <3>3
  <2> QED
    BY <1>1, <2>1, <2>2, WhoLays DEF Done, enter
<1> QED
  BY <1>1, <1>2, <1>4, <1>5, StageKeeps

-----------------------------------------------------------------------------
(* The entry point, the season and the theorems *)

LEMMA NewBuild ==
    ASSUME ControlOK, entry' \in {"verifying", "serving"}, server' \in {"building", "rebuilding"},
           stage' = 1, ended' = FALSE, UNCHANGED <<account, settled, mishaps>>
    PROVE  ControlOK' /\ (Building => ~ended)'
<1>1. 1 \in 0 .. Len(build_all)
  BY StageIs
<1>2. {account', settled', ended'} \subseteq BOOLEAN
  BY Zenon DEF ControlOK
<1>3. mishaps' \in 0 .. MaxMishaps /\ Building' /\ ServerIsStarted'
  BY DEF ControlOK, Building, ServerIsStarted
<1> QED
  BY <1>1, <1>2, <1>3 DEF ControlOK

LEMMA EntryKeeps ==
    ASSUME WorldIInv, EntryStep PROVE WorldIInv'
<1>1. ControlOK /\ DatabaseOK /\ Len(build_all) \in Nat /\ Len(build_all) > 0
  BY TypeIs, StageIs DEF WorldIInv
<1>2. UNCHANGED database
  BY DEF EntryStep, ensure_superuser, Start, VerifyPasses, VerifyFails, Restart
<1>3. DatabaseOK' /\ \A k : Done(k) => Done(k)'
  <2>1. UNCHANGED <<managers, rooms, exits, grid, npcs, recall, pool, altar, points, mobs>>
    BY <1>2 DEF database
  <2>2. DatabaseOK'
    BY <1>1, <2>1 DEF DatabaseOK
  <2>3. Grows
    BY <2>1 DEF Grows
  <2> QED
    BY <2>2, <2>3, DoneStays
<1>4. ControlOK' /\ (Building => ~ended)' /\ (Behind' = Behind \/ Behind' = {})
  <2>0. Building => ~ended
    BY DEF WorldIInv
  <2>1. CASE ensure_superuser
    BY <1>1, <2>0, <2>1 DEF ensure_superuser, ControlOK, Building, ServerIsStarted, Behind
  <2>2. CASE Start
    <3>1. CASE settled \/ ~account
      BY <1>1, <2>0, <2>2, <3>1 DEF Start, ControlOK, Building, ServerIsStarted, Behind
    <3>2. CASE ~(settled \/ ~account)
      <4>1. /\ entry' = "verifying" /\ server' = "building" /\ stage' = 1 /\ ended' = FALSE
            /\ UNCHANGED <<account, settled, mishaps>>
        BY <2>2, <3>2 DEF Start
      <4>2. Behind' = {}
        BY <4>1 DEF Behind
      <4> QED
        BY <1>1, <4>1, <4>2, NewBuild
    <3> QED
      BY <3>1, <3>2
  <2>3. CASE VerifyPasses
    BY <1>1, <2>0, <2>3 DEF VerifyPasses, ControlOK, Building, ServerIsStarted, Behind
  <2>4. CASE VerifyFails
    <3>1. mishaps' \in 0 .. MaxMishaps
      BY <1>1, <2>4, WorldAssumption DEF VerifyFails, ControlOK
    <3> QED
      BY <1>1, <2>0, <2>4, <3>1 DEF VerifyFails, ControlOK, Building, ServerIsStarted, Behind
  <2>5. CASE Restart
    BY <1>1, <2>0, <2>5 DEF Restart, ControlOK, Building, ServerIsStarted, Behind
  <2> QED
    BY <2>1, <2>2, <2>3, <2>4, <2>5 DEF EntryStep
<1>5. NothingIsLost'
  BY <1>3, <1>4 DEF WorldIInv, NothingIsLost
<1> QED
  BY <1>3, <1>4, <1>5, NextTypeIs DEF WorldIInv

LEMMA StopKeeps ==
    ASSUME WorldIInv, Stop PROVE WorldIInv'
<1>1. ControlOK /\ DatabaseOK /\ Len(build_all) \in Nat
  BY TypeIs, StageIs DEF WorldIInv
<1>2. /\ mishaps < MaxMishaps /\ mishaps' = mishaps + 1 /\ server = "up"
      /\ entry' = "off" /\ server' = "off" /\ stage' = 0
      /\ UNCHANGED <<settled, ended, account, database>>
  BY DEF Stop, Killed
<1>3. UNCHANGED <<managers, rooms, exits, grid, npcs, recall, pool, altar, points, mobs>>
  BY <1>2 DEF database
<1>4. DatabaseOK' /\ Grows
  BY <1>1, <1>3 DEF DatabaseOK, Grows
<1>5. mishaps' \in 0 .. MaxMishaps
  BY <1>1, <1>2, WorldAssumption DEF ControlOK
<1>6. ControlOK' /\ (Building => ~ended)'
  BY <1>1, <1>2, <1>5 DEF ControlOK, Building, ServerIsStarted
<1>7. Behind' = Behind \/ Behind' = {}
  BY <1>2 DEF Behind
<1>8. NothingIsLost'
  BY <1>4, <1>7, DoneStays DEF WorldIInv, NothingIsLost
<1> QED
  BY <1>4, <1>6, <1>8, NextTypeIs DEF WorldIInv

LEMMA RebuildKeeps ==
    ASSUME WorldIInv, rebuild_world PROVE WorldIInv'
<1>1. ControlOK /\ DatabaseOK /\ Len(build_all) \in Nat /\ Len(build_all) > 0
  BY TypeIs, StageIs DEF WorldIInv
<1>2. /\ mobs' = {} /\ server' = "rebuilding" /\ stage' = 1 /\ ended' = FALSE /\ entry = "serving"
      /\ UNCHANGED <<entry, account, settled, mishaps, managers, rooms, exits, grid, npcs, recall,
                     pool, altar, points>>
  BY DEF rebuild_world
<1>3. DatabaseOK'
  BY <1>1, <1>2 DEF DatabaseOK
<1>4. ControlOK' /\ (Building => ~ended)'
  BY <1>1, <1>2, NewBuild DEF ControlOK
<1>5. Behind' = {}
  BY <1>2 DEF Behind
<1>6. NothingIsLost'
  BY <1>5 DEF NothingIsLost
<1> QED
  BY <1>3, <1>4, <1>6, NextTypeIs DEF WorldIInv

LEMMA WorldStarts == WorldInit => WorldIInv
<1> SUFFICES ASSUME WorldInit PROVE WorldIInv
  OBVIOUS
<1>1. ControlOK
  <2>1. 0 \in 0 .. Len(build_all) /\ 0 \in 0 .. MaxMishaps
    BY StageIs, WorldAssumption
  <2>2. {account, settled, ended} \subseteq BOOLEAN
    BY Zenon DEF WorldInit
  <2> QED
    BY <2>1, <2>2 DEF WorldInit, ControlOK, Building, ServerIsStarted
<1>2. DatabaseOK
  BY DEF WorldInit, DatabaseOK
<1>3. ~ended /\ Behind = {}
  BY DEF WorldInit, Behind
<1> QED
  BY <1>1, <1>2, <1>3, TypeIs DEF WorldIInv, NothingIsLost

LEMMA WorldStep == WorldIInv /\ [WorldNext]_worldVars => WorldIInv'
<1> SUFFICES ASSUME WorldIInv, [WorldNext]_worldVars PROVE WorldIInv'
  OBVIOUS
<1>1. CASE BuildStep
  BY <1>1, ManagersKeep, RoomsKeep, ExitsKeep, RecallKeeps, PeopleKeep, PoolKeeps, GridKeeps,
     TagsKeep, GatesKeep, LinkKeeps, AltarKeeps, RegistryKeeps, PopulateKeeps DEF BuildStep
<1>2. CASE UNCHANGED worldVars
  <2>1. UNCHANGED <<entry, account, server, stage, settled, ended, mishaps, managers, rooms, exits,
                    grid, npcs, recall, pool, altar, points, mobs>>
    BY <1>2 DEF worldVars, control, database
  <2>2. ControlOK' /\ DatabaseOK' /\ Grows /\ Behind' = Behind /\ (Building => ~ended)'
    BY <2>1, TypeIs DEF WorldIInv, ControlOK, DatabaseOK, Grows, Behind, Building, ServerIsStarted
  <2>3. NothingIsLost'
    BY <2>2, DoneStays DEF WorldIInv, NothingIsLost
  <2> QED
    BY <2>2, <2>3, NextTypeIs DEF WorldIInv
<1> QED
  BY <1>1, <1>2, EntryKeeps, StopKeeps, RebuildKeeps DEF WorldNext

\* However often a build is cut short and wherever, what its stages have left behind is
\* there for the stages after them (build_all, the zone builders, the entry point).
THEOREM BuildsAreIncremental == WorldSpec => []WorldIInv
BY WorldStarts, WorldStep, PTL DEF WorldSpec

\* Nothing is built that no zone file declares, and no mob stands at an unregistered point.
THEOREM WorldIsTyped == WorldSpec => []WorldTypeOK
<1>1. WorldIInv => WorldTypeOK
  BY DEF WorldIInv
<1> QED
  BY <1>1, BuildsAreIncremental, PTL

-----------------------------------------------------------------------------
(* One world, however it was built *)

\* A stage that ends by itself is behind the build; one that is cut short ends it.
LEMMA BehindIs ==
    ASSUME WorldIInv, Building, NEW n, NEW len, Wrote(n, len)
    PROVE  /\ Behind = 1 .. (stage - 1) /\ stage \in 1 .. Len(build_all)
           /\ (n = len /\ Behind' = Behind \cup {stage}) \/ Behind' = {}
<1>1. stage \in 1 .. Len(build_all) /\ ended = FALSE /\ Len(build_all) \in Nat
  BY SoFar, TypeIs, StageIs DEF WorldIInv, ControlOK
<1>2. Behind = 1 .. (stage - 1)
  BY <1>1 DEF Behind
<1>3. ASSUME Finish PROVE Behind' = Behind \cup {stage}
  <2>1. Behind' = 1 .. stage
    <3>1. CASE stage = Len(build_all)
      BY <1>3, <3>1, StageIs DEF Finish, Behind
    <3>2. CASE stage # Len(build_all)
      BY <1>1, <1>3, <3>2 DEF Finish, Behind
    <3> QED
      BY <3>1, <3>2
  <2> QED
    BY <1>1, <1>2, <2>1
<1>4. CASE Traceback \/ Killed
  BY <1>1, <1>4 DEF Traceback, Killed, Behind
<1> QED
  BY <1>1, <1>2, <1>3, <1>4 DEF Wrote

LEMMA ExitStagesAre ==
    /\ \A k \in ExitStages : /\ k \in 1 .. Len(build_all) /\ build_all[k].op = "exits"
                             /\ build_all[k].at \in Regions
                             /\ Positions(k) = 1 .. Len(ExitsOf[build_all[k].at])
                             /\ \A i \in Positions(k) :
                                   Record(k, i) \in Range(ExitsOf[build_all[k].at])
    /\ \A k \in 1 .. Len(build_all) : build_all[k].op = "exits" <=> k \in ExitStages
<1>1. \A k \in 1 .. Len(build_all) : build_all[k].op = "exits" <=> k \in ExitStages
  BY StageIs DEF ExitStages
<1>2. ASSUME NEW k \in ExitStages
      PROVE  /\ k \in 1 .. Len(build_all) /\ build_all[k].op = "exits"
             /\ build_all[k].at \in Regions
             /\ Positions(k) = 1 .. Len(ExitsOf[build_all[k].at])
             /\ \A i \in Positions(k) : Record(k, i) \in Range(ExitsOf[build_all[k].at])
  <2>1. /\ k \in 1 .. Len(build_all) /\ build_all[k].op = "exits"
        /\ build_all[k].at \in Regions
    BY StageIs DEF ExitStages
  <2>2. ExitsOf[build_all[k].at] \in Seq(Range(ExitsOf[build_all[k].at]))
    BY <2>1, TheZones
  <2> QED
    BY <2>1, <2>2 DEF Positions, Record, Range
<1> QED
  BY <1>1, <1>2

\* A part with exits has a pass over them late enough: for the Keep once the Wilderness
\* stands, for the others once everything does.
LEMMA LastPass ==
    ASSUME NEW p \in Regions, NEW e \in Range(ExitsOf[p])
    PROVE  \E k \in ExitStages : /\ build_all[k].at = p
                                 /\ p = "keep" => k = 10
                                 /\ p # "keep" => k > 15 + 4 * Len(Tribes)
<1> DEFINE n == Len(Tribes)
<1>0. n \in Nat /\ Len(build_all) = 22 + 5 * n
  BY TheRegions, ThePlan
<1>1. ASSUME NEW k \in 1 .. (22 + 5 * n), build_all[k] = Stage("exits", p)
      PROVE  k \in ExitStages /\ build_all[k].at = p
  BY <1>0, <1>1, StageIs, ExitStagesAre
<1>2. p # "wilderness"
  BY ZonesAssumption DEF Range
<1>3. CASE p = "keep"
  BY <1>0, <1>1, <1>3, ThePlan
<1>4. CASE p = "hub"
  <2>1. 18 + 4 * n \in 1 .. (22 + 5 * n) /\ 18 + 4 * n > 15 + 4 * n
    BY <1>0
  <2> QED
    BY <1>1, <1>4, <2>1, ThePlan
<1>5. CASE p = "shrine"
  <2>1. 16 + 4 * n \in 1 .. (22 + 5 * n) /\ 16 + 4 * n > 15 + 4 * n
    BY <1>0
  <2> QED
    BY <1>1, <1>5, <2>1, ThePlan
<1>6. ASSUME NEW i \in 1 .. n, p = Tribes[i], p # "keep"
      PROVE  \E k \in ExitStages : build_all[k].at = p /\ k > 15 + 4 * n
  <2>1. 18 + 4 * n + i \in 1 .. (22 + 5 * n) /\ 18 + 4 * n + i > 15 + 4 * n
    BY <1>0
  <2> QED
    BY <1>1, <1>6, <2>1, ThePlan
<1> QED
  BY <1>2, <1>3, <1>4, <1>5, <1>6, TheRegions

LEMMA ClaimsAre ==
    ASSUME NEW p \in Regions
    PROVE  \A e \in Range(ExitsOf[p]) : Joins(e) => Identity(e) \in ClaimsOf[p]
BY DEF ClaimsOf

\* Where a stage has the last word, the rooms that it speaks of are laid before it.
LEMMA LastIsLaid ==
    ASSUME NEW k \in ExitStages, NEW i \in Positions(k), LastWord(k, i)
    PROVE  {Record(k, i)[1], Record(k, i)[3]} \subseteq RoomsBy(k)
<1> DEFINE p == build_all[k].at
           e == Record(k, i)
<1>1. k \in Nat /\ p \in Regions /\ e \in Range(ExitsOf[p]) /\ Joins(e)
  BY ExitStagesAre, StageIs DEF LastWord
<1>2. PICK j \in ExitStages : /\ build_all[j].at = p
                              /\ p = "keep" => j = 10
                              /\ p # "keep" => j > 15 + 4 * Len(Tribes)
  BY <1>1, LastPass
<1>3. j <= k /\ j \in Nat
  <2>1. ~(j > k)
    BY <1>1, <1>2, ClaimsAre DEF LastWord
  <2> QED
    BY <1>1, <2>1, ExitStagesAre, StageIs
<1>4. CASE p # "keep"
  BY <1>1, <1>2, <1>3, <1>4, AllLaid, TheRegions DEF Joins
<1>5. CASE p = "keep"
  <2>1. e # <<WildMouth, "enter", RavineMouth>>
    BY <1>1, <1>5, ZonesAssumption
  <2>2. {e[1], e[3]} \subseteq Known("keep") \cup Known("wilderness")
    BY <1>1, <1>5, <2>1, ZonesAssumption DEF Joins
  <2>3. \A m \in 1 .. (10 - 1) : m \in 1 .. (k - 1)
    BY <1>1, <1>2, <1>3, <1>5
  <2>4. RoomsBy(10) \subseteq RoomsBy(k)
    BY <2>3 DEF RoomsBy
  <2> QED
    BY <2>2, <2>4, FirstLaid
<1> QED
  BY <1>4, <1>5

\* Exits that are only added where there is none unsettle nothing.
LEMMA AddedExits ==
    ASSUME WorldIInv, ExitsIInv, NEW new, exits' = exits \cup new,
           \A x \in new : Unwired(x) /\ \E e \in Records : Joins(e) /\ x = Way(e),
           \A k \in Behind' : k \in Behind \/ k \notin ExitStages
    PROVE  ExitsIInv'
<1>1. ASSUME NEW x \in exits' PROVE \E e \in Records : Joins(e) /\ x = Way(e)
  BY <1>1 DEF ExitsIInv
<1>2. ASSUME NEW k \in Behind', k \in ExitStages, NEW i \in Positions(k), LastWord(k, i),
             NEW x \in exits', Identity(x) = Identity(Record(k, i))
      PROVE  x = Way(Record(k, i))
  <2>1. k \in Behind
    BY <1>2
  <2>2. ~Unwired(Record(k, i))
    <3>1. Done(k) /\ build_all[k].op = "exits" /\ Record(k, i) \in Range(ExitsOf[build_all[k].at])
      BY <1>2, <2>1, ExitStagesAre DEF WorldIInv, NothingIsLost
    <3>2. {Record(k, i)[1], Record(k, i)[3]} \subseteq RoomsBy(k)
      BY <1>2, LastIsLaid
    <3> QED
      BY <3>1, <3>2 DEF Done
  <2>3. x \notin new
    BY <1>2, <2>2 DEF Unwired
  <2> QED
    BY <1>2, <2>1, <2>3 DEF ExitsIInv
<1> QED
  BY <1>1, <1>2 DEF ExitsIInv

LEMMA StandingExits ==
    ASSUME WorldIInv, ExitsIInv, exits' = exits,
           \A k \in Behind' : k \in Behind \/ k \notin ExitStages
    PROVE  ExitsIInv'
<1> DEFINE new == {}
<1>1. exits' = exits \cup new
  OBVIOUS
<1>2. \A x \in new : Unwired(x) /\ \E e \in Records : Joins(e) /\ x = Way(e)
  OBVIOUS
<1> HIDE DEF new
<1> QED
  BY <1>1, <1>2, AddedExits

LEMMA StepExits ==
    ASSUME WorldIInv, ExitsIInv, build_exits
    PROVE  ExitsIInv'
<1> DEFINE batch == ExitsOf[Here]
<1> PICK k : k = stage
  OBVIOUS
<1>1. Building /\ build_all[k].op = "exits"
  BY DEF build_exits, At
<1>2. PICK n \in Ends(Len(batch)) :
         /\ exits' = {e \in exits : \A w \in Wired(batch, n) : Identity(w) # Identity(e)}
                       \cup Wired(batch, n)
         /\ Wrote(n, Len(batch))
  BY DEF build_exits
<1>3. /\ k \in ExitStages /\ Here = build_all[k].at /\ Here \in Regions
      /\ rooms \subseteq RoomIds /\ RoomsBy(k) \subseteq rooms
  BY <1>1, SoFar, ExitStagesAre DEF DatabaseOK
<1>4. /\ batch \in Seq(Range(batch)) /\ Len(batch) \in Nat /\ n \in 0 .. Len(batch)
      /\ Positions(k) = 1 .. Len(batch)
      /\ \A i \in 1 .. Len(batch) : /\ batch[i] = Record(k, i) /\ batch[i] \in Range(batch)
                                    /\ batch[i] \in Records
  <2>1. batch \in Seq(Range(batch)) /\ Positions(k) = 1 .. Len(batch)
    BY <1>3, TheZones, ExitStagesAre
  <2>2. Len(batch) \in Nat /\ n \in 0 .. Len(batch)
    BY <2>1 DEF Ends
  <2>3. \A i \in 1 .. Len(batch) : batch[i] = Record(k, i) /\ batch[i] \in Range(batch)
    BY <1>3, <2>1, ExitStagesAre DEF Record
  <2> QED
    BY <1>3, <2>1, <2>2, <2>3, DeclaredIs
<1>5. /\ Behind = 1 .. (k - 1) /\ k \in Nat
      /\ (n = Len(batch) /\ Behind' = Behind \cup {k}) \/ Behind' = {}
  BY <1>1, <1>2, <1>3, BehindIs, ExitStagesAre, StageIs
<1> HIDE DEF batch
<1>6. ASSUME NEW x \in Wired(batch, n)
      PROVE  \E m \in 1 .. Len(batch) :
                /\ x = Way(Record(k, m)) /\ Identity(x) = Identity(Record(k, m))
                /\ Joins(Record(k, m)) /\ Record(k, m) \in Records
                /\ Record(k, m) \in Range(batch)
                /\ \A j \in 1 .. n : j > m /\ {Record(k, j)[1], Record(k, j)[3]} \subseteq rooms
                                      => Identity(Record(k, j)) # Identity(x)
  <2>1. PICK m \in 1 .. n :
           /\ x = Way(batch[m]) /\ Identity(x) = Identity(batch[m])
           /\ {batch[m][1], batch[m][3]} \subseteq rooms
           /\ \A j \in 1 .. n : j > m /\ {batch[j][1], batch[j][3]} \subseteq rooms
                                 => Identity(batch[j]) # Identity(x)
    BY <1>4, <1>6, WiredIs
  <2>2. m \in 1 .. Len(batch) /\ \A j \in 1 .. n : j \in 1 .. Len(batch)
    BY <1>4
  <2>3. Joins(batch[m])
    BY <1>3, <2>1 DEF Joins
  <2> QED
    BY <1>4, <2>1, <2>2, <2>3
<1>7. ASSUME NEW x \in exits' PROVE \E e \in Records : Joins(e) /\ x = Way(e)
  <2>1. CASE x \in exits
    BY <2>1 DEF ExitsIInv
  <2>2. CASE x \in Wired(batch, n)
    BY <1>6, <2>2
  <2> QED
    BY <1>2, <1>7, <2>1, <2>2
<1>8. ASSUME NEW j \in Behind', j \in ExitStages, NEW i \in Positions(j), LastWord(j, i),
             NEW x \in exits', Identity(x) = Identity(Record(j, i))
      PROVE  x = Way(Record(j, i))
  <2>1. CASE j \in Behind
    <3>1. x \notin Wired(batch, n)
      <4>1. k > j
        BY <1>5, <2>1
      <4>2. Identity(Record(j, i)) \notin ClaimsOf[Here]
        BY <1>3, <1>8, <4>1 DEF LastWord
      <4> QED
        BY <1>3, <1>6, <1>8, <4>2, ClaimsAre DEF batch
    <3> QED
      BY <1>2, <1>8, <2>1, <3>1 DEF ExitsIInv
  <2>2. CASE j = k /\ n = Len(batch)
    <3>1. {Record(k, i)[1], Record(k, i)[3]} \subseteq rooms /\ i \in 1 .. Len(batch)
      BY <1>3, <1>4, <1>8, <2>2, LastIsLaid
    <3>2. \E w \in Wired(batch, n) : Identity(w) = Identity(Record(k, i))
      BY <1>4, <2>2, <3>1, WiredIs
    <3>3. x \in Wired(batch, n)
      BY <1>2, <1>8, <2>2, <3>2
    <3>4. PICK m \in 1 .. Len(batch) :
             /\ x = Way(Record(k, m)) /\ Identity(x) = Identity(Record(k, m))
             /\ Joins(Record(k, m))
             /\ \A h \in 1 .. n : h > m /\ {Record(k, h)[1], Record(k, h)[3]} \subseteq rooms
                                   => Identity(Record(k, h)) # Identity(x)
      BY <1>6, <3>3
    <3>5. ~(m > i)
      BY <1>4, <1>8, <2>2, <3>4 DEF LastWord
    <3>6. ~(i > m)
      BY <1>8, <2>2, <3>1, <3>4
    <3>7. i = m
      BY <3>1, <3>4, <3>5, <3>6
    <3> QED
      BY <2>2, <3>4, <3>7
  <2> QED
    BY <1>5, <1>8, <2>1, <2>2
<1> QED
  BY <1>7, <1>8 DEF ExitsIInv

LEMMA StepGates ==
    ASSUME WorldIInv, ExitsIInv, _wire_interzone_exits
    PROVE  ExitsIInv'
<1>1. Building /\ build_all[stage].op = "gates"
  BY DEF _wire_interzone_exits, At
<1>2. PICK n \in Ends(Len(Gates)) :
         /\ exits' = exits \cup {<<Gates[i][1], Gates[i][2], Resolve(Gates[i][3])>> : i \in
                        {k \in 1 .. n : /\ Gates[k][1] \in rooms
                                        /\ Gates[k][3] \in rooms
                                        /\ Unwired(Gates[k])}}
         /\ Wrote(n, Len(Gates))
  BY DEF _wire_interzone_exits
<1> DEFINE opens == {k \in 1 .. n : /\ Gates[k][1] \in rooms
                                    /\ Gates[k][3] \in rooms
                                    /\ Unwired(Gates[k])}
           new == {Way(Gates[i]) : i \in opens}
<1>3. exits' = exits \cup new
  BY <1>2 DEF Way
<1>4. \A i \in 1 .. n : Gates[i] \in Range(Gates)
  <2>1. Len(Gates) \in Nat /\ DOMAIN Gates = 1 .. Len(Gates) /\ n \in 0 .. Len(Gates)
    BY TheZones DEF Ends
  <2> QED
    BY <2>1 DEF Range
<1>5. rooms \subseteq RoomIds
  BY <1>1, SoFar DEF DatabaseOK
<1>6. ASSUME NEW x \in new PROVE Unwired(x) /\ \E e \in Records : Joins(e) /\ x = Way(e)
  <2>1. PICK i \in opens : x = Way(Gates[i])
    BY <1>6
  <2>2. Gates[i] \in Records /\ Joins(Gates[i])
    BY <1>4, <1>5, DeclaredIs DEF Joins
  <2>3. Identity(x) = Identity(Gates[i]) /\ Unwired(Gates[i])
    BY <2>1 DEF Identity, Way
  <2> QED
    BY <2>1, <2>2, <2>3 DEF Unwired
<1>7. \A k \in Behind' : k \in Behind \/ k \notin ExitStages
  BY <1>1, <1>2, BehindIs, ExitStagesAre
<1> HIDE DEF new
<1> QED
  BY <1>3, <1>6, <1>7, AddedExits

LEMMA StepLink ==
    ASSUME WorldIInv, ExitsIInv, _link_to_wilderness
    PROVE  ExitsIInv'
<1> DEFINE enter == <<WildMouth, "enter", Ravine>>
<1>1. Building /\ build_all[stage].op = "link"
  BY DEF _link_to_wilderness, At
<1>2. PICK n \in Ends(2) :
         /\ exits' = IF n = 2 /\ {Ravine, WildMouth} \subseteq rooms /\ Unwired(enter)
                     THEN exits \cup {enter} ELSE exits
         /\ Wrote(n, 2)
  BY DEF _link_to_wilderness
<1> DEFINE new == IF n = 2 /\ {Ravine, WildMouth} \subseteq rooms /\ Unwired(enter)
                  THEN {enter} ELSE {}
<1>3. exits' = exits \cup new
  BY <1>2
<1>4. ASSUME NEW x \in new PROVE Unwired(x) /\ \E e \in Records : Joins(e) /\ x = Way(e)
  <2>1. x = enter /\ Unwired(enter)
    BY <1>4
  <2> QED
    BY <2>1, DeclaredIs
<1>5. \A k \in Behind' : k \in Behind \/ k \notin ExitStages
  BY <1>1, <1>2, BehindIs, ExitStagesAre
<1> HIDE DEF new
<1> QED
  BY <1>3, <1>4, <1>5, AddedExits

\* The other stages leave the exits as they are.
LEMMA StepOthers ==
    ASSUME WorldIInv, ExitsIInv, BuildStep,
           ~build_exits, ~_wire_interzone_exits, ~_link_to_wilderness
    PROVE  ExitsIInv'
<1>1. /\ Building /\ build_all[stage].op # "exits" /\ exits' = exits
      /\ \E n, len : Wrote(n, len)
  <2>1. CASE _ensure_managers \/ tag_recall_point \/ spawn_grid \/ build_object
    <3>1. PICK op \in Ops \ {"exits"} : At(op)
      BY <2>1 DEF _ensure_managers, tag_recall_point, spawn_grid, build_object, Ops
    <3> QED
      BY <2>1, <3>1 DEF _ensure_managers, tag_recall_point, spawn_grid, build_object, At
  <2>2. CASE build_rooms \/ _tag_rooms \/ build_npcs \/ tag_priest_pool
    <3>1. PICK op \in Ops \ {"exits"} : At(op)
      BY <2>2 DEF build_rooms, _tag_rooms, build_npcs, tag_priest_pool, Ops
    <3> QED
      BY <2>2, <3>1 DEF build_rooms, _tag_rooms, build_npcs, tag_priest_pool, At
  <2>3. CASE register_zone \/ populate
    <3>1. PICK op \in Ops \ {"exits"} : At(op)
      BY <2>3 DEF register_zone, populate, Ops
    <3> QED
      BY <2>3, <3>1 DEF register_zone, populate, At
  <2> QED
    BY <2>1, <2>2, <2>3 DEF BuildStep
<1>2. \A k \in Behind' : k \in Behind \/ k \notin ExitStages
  BY <1>1, BehindIs, ExitStagesAre
<1> QED
  BY <1>1, <1>2, StandingExits

\* Between two builds the exits stand, and a new build has no stage behind it.
LEMMA StepBetween ==
    ASSUME WorldIInv, ExitsIInv, EntryStep \/ Stop \/ rebuild_world \/ UNCHANGED worldVars
    PROVE  ExitsIInv'
<1>1. exits' = exits /\ (Behind' = Behind \/ Behind' = {})
  <2>1. CASE EntryStep
    <3>1. exits' = exits
      BY <2>1 DEF EntryStep, ensure_superuser, Start, VerifyPasses, VerifyFails, Restart, database
    <3>2. CASE UNCHANGED <<stage, ended>>
      BY <3>1, <3>2 DEF Behind
    <3>3. CASE stage' = 1 /\ ended' = FALSE
      BY <3>1, <3>3 DEF Behind
    <3>4. CASE stage' = 0 /\ ended' = ended
      BY <3>1, <3>4 DEF Behind
    <3> QED
      BY <2>1, <3>2, <3>3, <3>4 DEF EntryStep, ensure_superuser, Start, VerifyPasses, VerifyFails,
                                    Restart
  <2>2. CASE Stop
    BY <2>2 DEF Stop, Killed, database, Behind
  <2>3. CASE rebuild_world
    BY <2>3 DEF rebuild_world, Behind
  <2>4. CASE UNCHANGED worldVars
    BY <2>4 DEF worldVars, control, database, Behind
  <2> QED
    BY <2>1, <2>2, <2>3, <2>4
<1> QED
  BY <1>1, StandingExits

LEMMA ExitsStep == WorldIInv /\ ExitsIInv /\ [WorldNext]_worldVars => ExitsIInv'
BY StepExits, StepGates, StepLink, StepOthers, StepBetween DEF WorldNext

\* Every exit leads where a record says, and one that the build under way has settled
\* leads where the last record about it says: a later stage has nothing to say about it
\* (build_exits, _wire_interzone_exits, _link_to_wilderness).
THEOREM SettledExitsStay == WorldSpec => []ExitsIInv
<1>1. WorldInit => ExitsIInv
  BY DEF WorldInit, ExitsIInv, Behind
<1> QED
  BY <1>1, ExitsStep, BuildsAreIncremental, PTL DEF WorldSpec

\* About every exit that a part has a record for some record has the last word.
LEMMA SomeLastWord ==
    ASSUME NEW p \in Regions, NEW id \in ClaimsOf[p]
    PROVE  \E k \in ExitStages : \E i \in Positions(k) :
              LastWord(k, i) /\ Identity(Record(k, i)) = id
<1> DEFINE Speaks(k, i) == Joins(Record(k, i)) /\ Identity(Record(k, i)) = id
           K == {k \in ExitStages : id \in ClaimsOf[build_all[k].at]}
<1>1. K \in SUBSET (1 .. Len(build_all)) /\ Len(build_all) \in Nat
  BY ExitStagesAre, StageIs
<1>2. K # {}
  <2>1. PICK e \in Range(ExitsOf[p]) : Joins(e) /\ id = Identity(e)
    BY DEF ClaimsOf
  <2> QED
    BY LastPass
<1>3. PICK k \in K : \A j \in K : j <= k
  <2> HIDE DEF K
  <2> QED
    BY <1>1, <1>2, LastOne
<1>4. k \in ExitStages /\ build_all[k].at \in Regions /\ id \in ClaimsOf[build_all[k].at]
  BY ExitStagesAre
<1> DEFINE I == {i \in Positions(k) : Speaks(k, i)}
<1>5. /\ Positions(k) = 1 .. Len(ExitsOf[build_all[k].at]) /\ Len(ExitsOf[build_all[k].at]) \in Nat
      /\ Range(ExitsOf[build_all[k].at]) = {Record(k, i) : i \in Positions(k)}
  <2>1. ExitsOf[build_all[k].at] \in Seq(Range(ExitsOf[build_all[k].at]))
    BY <1>4, TheZones
  <2> QED
    BY <2>1 DEF Positions, Record, Range
<1>6. I # {}
  <2>1. PICK e \in Range(ExitsOf[build_all[k].at]) : Joins(e) /\ id = Identity(e)
    BY <1>4 DEF ClaimsOf
  <2> QED
    BY <1>5, <2>1
<1>7. PICK i \in I : \A m \in I : m <= i
  <2>1. I \in SUBSET (1 .. Len(ExitsOf[build_all[k].at]))
    BY <1>5
  <2> HIDE DEF I
  <2> QED
    BY <1>5, <1>6, <2>1, LastOne
<1>8. ASSUME NEW m \in Positions(k), m > i, Joins(Record(k, m))
      PROVE  Identity(Record(k, m)) # Identity(Record(k, i))
  BY <1>5, <1>7, <1>8
<1>9. ASSUME NEW j \in ExitStages, j > k PROVE id \notin ClaimsOf[build_all[j].at]
  BY <1>1, <1>3, <1>9
<1> QED
  BY <1>4, <1>7, <1>8, <1>9 DEF LastWord

LEMMA BuiltExitsAre ==
    \A w : w \in BuiltExits <=>
       \/ \E k \in ExitStages : \E i \in Positions(k) : LastWord(k, i) /\ w = Way(Record(k, i))
       \/ \E g \in Range(Gates) : /\ Joins(g) /\ w = Way(g)
                                 /\ \A p \in Regions : Identity(g) \notin ClaimsOf[p]
<1> DEFINE Last(k) == {Way(Record(k, i)) : i \in {m \in Positions(k) : LastWord(k, m)}}
           open == {Way(g) : g \in {h \in Range(Gates) :
                      Joins(h) /\ \A p \in Regions : Identity(h) \notin ClaimsOf[p]}}
<1>1. BuiltExits = (UNION {Last(k) : k \in ExitStages}) \cup open
  BY DEF BuiltExits
<1>2. \A w : w \in UNION {Last(k) : k \in ExitStages} <=> \E k \in ExitStages : w \in Last(k)
  BY Zenon
<1>3. \A k, w : w \in Last(k) <=> \E i \in Positions(k) : LastWord(k, i) /\ w = Way(Record(k, i))
  BY Zenon
<1>4. \A w : w \in open <=> \E g \in Range(Gates) : /\ Joins(g) /\ w = Way(g)
                                                  /\ \A p \in Regions : Identity(g) \notin ClaimsOf[p]
  BY Zenon
<1> HIDE DEF Last, open
<1>5. \A w : w \in BuiltExits <=> (\E k \in ExitStages : w \in Last(k)) \/ w \in open
  <2> DEFINE spoken == UNION {Last(k) : k \in ExitStages}
  <2>1. \A w : w \in BuiltExits <=> w \in spoken \/ w \in open
    BY <1>1, Zenon
  <2> QED
    BY <1>2, <2>1, Zenon
<1> QED
  BY <1>3, <1>4, <1>5, Zenon

LEMMA ExitsAreBuilt ==
    ASSUME WorldIInv, ExitsIInv, NothingIsUnwired, ended, rooms = RoomIds
    PROVE  exits = BuiltExits
<1>1. ASSUME NEW k \in ExitStages, NEW i \in Positions(k), LastWord(k, i)
      PROVE  \A x \in exits : Identity(x) = Identity(Record(k, i)) => x = Way(Record(k, i))
  <2>1. k \in Behind
    BY ExitStagesAre, StageIs DEF Behind
  <2> QED
    BY <1>1, <2>1 DEF ExitsIInv
<1>2. ASSUME NEW e \in Records, Joins(e) PROVE \E x \in exits : Identity(x) = Identity(e)
  BY <1>2 DEF NothingIsUnwired, Unwired, Joins
<1>3. \A e : Identity(Way(e)) = Identity(e)
  BY DEF Identity, Way
<1>4. ASSUME NEW x \in exits PROVE x \in BuiltExits
  <2>1. PICK e \in Records : Joins(e) /\ x = Way(e)
    BY <1>4 DEF ExitsIInv
  <2>2. CASE \E p \in Regions : Identity(x) \in ClaimsOf[p]
    <3>1. PICK k \in ExitStages : \E i \in Positions(k) :
             LastWord(k, i) /\ Identity(Record(k, i)) = Identity(x)
      BY <2>2, SomeLastWord
    <3>2. PICK i \in Positions(k) : LastWord(k, i) /\ Identity(Record(k, i)) = Identity(x)
      BY <3>1
    <3>3. x = Way(Record(k, i))
      BY <1>1, <1>4, <3>2
    <3> QED
      BY <3>2, <3>3, BuiltExitsAre
  <2>3. CASE \A p \in Regions : Identity(x) \notin ClaimsOf[p]
    <3>1. Identity(x) = Identity(e)
      BY <1>3, <2>1
    <3>2. e \in Range(Gates)
      BY <2>1, <2>3, <3>1, ClaimsAre DEF Records
    <3> QED
      BY <2>1, <2>3, <3>1, <3>2, BuiltExitsAre
  <2> QED
    BY <2>2, <2>3
<1>5. ASSUME NEW w \in BuiltExits PROVE w \in exits
  <2>1. ASSUME NEW k \in ExitStages, NEW i \in Positions(k), LastWord(k, i), w = Way(Record(k, i))
        PROVE  w \in exits
    <3>1. Record(k, i) \in Records /\ Joins(Record(k, i))
      BY <2>1, ExitStagesAre, DeclaredIs DEF LastWord
    <3>2. PICK x \in exits : Identity(x) = Identity(Record(k, i))
      BY <1>2, <3>1
    <3> QED
      BY <1>1, <2>1, <3>2
  <2>2. ASSUME NEW g \in Range(Gates), Joins(g), \A p \in Regions : Identity(g) \notin ClaimsOf[p],
               w = Way(g)
        PROVE  w \in exits
    <3>1. PICK x \in exits : Identity(x) = Identity(g)
      BY <1>2, <2>2, DeclaredIs
    <3>2. PICK e \in Records : Joins(e) /\ x = Way(e)
      BY DEF ExitsIInv
    <3>3. Identity(e) = Identity(g)
      BY <1>3, <3>1, <3>2
    <3>4. e \in Range(Gates)
      BY <2>2, <3>2, <3>3, ClaimsAre DEF Records
    <3>5. e = g
      BY <3>3, <3>4, ZonesAssumption DEF Identity
    <3> QED
      BY <2>2, <3>1, <3>2, <3>5
  <2> QED
    BY <1>5, <2>1, <2>2, BuiltExitsAre
<1> QED
  BY <1>4, <1>5

\* When a build has ended, the world is the one that the zone files describe.
LEMMA BuiltIsWhole == WorldIInv /\ ExitsIInv => WholeAfterBuild
<1> SUFFICES ASSUME WorldIInv, ExitsIInv, ended PROVE Whole
  BY DEF WholeAfterBuild
<1>1. \A k \in 1 .. Len(build_all) : Done(k)
  BY StageIs DEF WorldIInv, NothingIsLost, Behind
<1>2. NothingIsUnwired /\ rooms = RoomIds /\ (exits = BuiltExits => Whole)
  BY <1>1, WholeByPlan DEF WorldIInv
<1> QED
  BY <1>2, ExitsAreBuilt

\* A build that runs to its end leaves the one world that the zone files describe, for any
\* zone files that hang together as ZonesAssumption says and wherever the builds before it
\* were cut short: rooms, people and mobs are all there, and each exit leads where the last
\* record about it says (build_all, rebuild_world).
THEOREM BuildsAreWhole == WorldSpec => []WholeAfterBuild
BY BuiltIsWhole, BuildsAreIncremental, SettledExitsStay, PTL

\* If the ways of the zone files lead out of the rooms without recall, nobody is ever
\* trapped in the built world: what the players walk is those ways (build_exits, spawn_grid).
THEOREM MapDecidesEscape == LeadOut(BuiltWays) => (WorldSpec => []NobodyIsTrapped)
<1> SUFFICES ASSUME LeadOut(BuiltWays) PROVE WorldSpec => []NobodyIsTrapped
  OBVIOUS
<1>1. WholeAfterBuild => NobodyIsTrapped
  <2>1. Whole => Ways = BuiltWays
    BY DEF Whole, Ways, BuiltWays
  <2> QED
    BY <2>1 DEF WholeAfterBuild, NobodyIsTrapped
<1> QED
  BY <1>1, BuildsAreWhole, PTL

\* If the quests can be done along the ways of the zone files with their people and their
\* spawn points, they can be done in the built world (build_npcs, populate).
THEOREM MapDecidesQuests ==
    CanBeDone(BuiltWays, People, AllPoints) => (WorldSpec => []QuestsCanBeDone)
<1> SUFFICES ASSUME CanBeDone(BuiltWays, People, AllPoints) PROVE WorldSpec => []QuestsCanBeDone
  OBVIOUS
<1>1. WholeAfterBuild => QuestsCanBeDone
  <2>1. Whole => Ways = BuiltWays /\ npcs = People /\ mobs = AllPoints
    BY DEF Whole, Ways, BuiltWays
  <2> QED
    BY <2>1 DEF WholeAfterBuild, QuestsCanBeDone
<1> QED
  BY <1>1, BuildsAreWhole, PTL
=============================================================================
