------------------------------- MODULE Season -------------------------------
(***************************************************************************)
(* The season manager: the clock of the campaign, its warnings, the reset   *)
(* that closes a season over every other manager, the leaderboard, and the  *)
(* altar whose fall ends a season early.  The server runs one thread, so    *)
(* nothing interleaves with a reset; but each of its writes reaches the     *)
(* database by itself, and the server may die or a hook may raise between   *)
(* any two of them.                                                         *)
(***************************************************************************)
EXTENDS Naturals, Sequences, FiniteSets

CONSTANTS
    Characters,    \* every character that may ever be made
    Hardcore,      \* those who die once
    SeasonLength,  \* cfg.SEASON_LENGTH
    WarnOffsets,   \* cfg.WARN_OFFSETS, in units of time before the end
    MaxNow,        \* bound: where the clock of the model stops
    MaxSeason,     \* bound: the last season
    MaxCrashes     \* bound: resets and deaths cut short

ASSUME SeasonAssumption ==
    /\ Hardcore \subseteq Characters
    /\ SeasonLength \in Nat \ {0}
    /\ WarnOffsets \subseteq 1 .. SeasonLength
    /\ MaxNow \in Nat /\ MaxSeason \in Nat \ {0} /\ MaxCrashes \in Nat

VARIABLES
    number,   \* db.season_number
    start,    \* db.season_start
    warned,   \* db.warned: offsets that need no warning any more
    board,    \* db.leaderboard: how often each placement is on it
    since,    \* character -> the season it was made in, 0 when it does not exist
    dirty,    \* parts of the world that carry marks of play
    now,
    step,     \* how far end_season has come; 0 when it is not running
    draft,    \* the leaderboard end_season holds in memory
    early,    \* the reset that runs, or the last one, was given a reason
    heard,    \* history: offsets broadcast since the season opened
    opened,   \* history: when the season opened
    spared,   \* history: characters whose death was cut short
    unkept,   \* history: seasons that closed before their board was saved
    torn,     \* history: seasons that opened on the start or the warnings of the last
    crashes   \* history: resets and deaths cut short so far

saved == <<number, start, warned, board>>
lapses == <<spared, unkept, torn, crashes>>
vars == <<number, start, warned, board, since, dirty, now, step, draft, early, heard, opened, lapses>>

-----------------------------------------------------------------------------
Seasons == 1 .. MaxSeason
Outcomes == {"survived", "fell"}
Placements == Characters \X Seasons \X Outcomes
Blank == [e \in Placements |-> 0]

Altar == "altar"
Managers == {"factions", "repop", "priest", "shrine", "mobs"}
Parts == Managers \cup {Altar}

\* Mutant: the priest manager is not wired yet.
HooksBeforePriest ==
    <<{"factions"}, {"repop"}, {}, {"shrine"}, {}, {"mobs"}, {}>>

\* What each hook of run_reset makes fresh, in order.  revert_season_quests and
\* refresh_roster only log; rebuild_world replaces every mob and finds the altar
\* already placed.
Hooks == <<{"factions"}, {"repop"}, {"priest"}, {"shrine"}, {}, {"mobs"}, {}>>

Idle == step = 0
Flushed == Len(Hooks) + 1  \* the step at which every hook has run

Alive == {c \in Characters : since[c] > 0}
End == start + SeasonLength
IsExpired == now >= End
DueWarnings == {o \in WarnOffsets : now + o >= End} \ warned

\* Mutant: the placements are stamped with the season that opens.
SnapshotNext ==
    [e \in Placements |->
        board[e] + IF e[1] \in Alive /\ e[2] = number + 1 /\ e[3] = "survived" THEN 1 ELSE 0]

\* snapshot_survivors: a placement for everyone, under the season that closes.
Snapshot ==
    [e \in Placements |->
        board[e] + IF e[1] \in Alive /\ e[2] = number /\ e[3] = "survived" THEN 1 ELSE 0]

-----------------------------------------------------------------------------
Init ==
    /\ number = 1 /\ start = 0 /\ warned = {}
    /\ board = Blank
    /\ since = [c \in Characters |-> 0]
    /\ dirty = {}
    /\ now = 0 /\ step = 0 /\ draft = Blank /\ early = FALSE
    /\ heard = {} /\ opened = 0
    /\ spared = {} /\ unkept = {} /\ torn = {} /\ crashes = 0

(* The players *)

Join(c) ==
    /\ Idle /\ since[c] = 0
    /\ \A s \in Seasons : board[<<c, s, "fell">>] = 0
    /\ since' = [since EXCEPT ![c] = number]
    /\ UNCHANGED <<saved, dirty, now, step, draft, early, heard, opened, lapses>>

\* Play leaves its marks on every manager.  (A season that touched fewer of them
\* has less to clean.)
Play ==
    /\ Idle
    /\ dirty' = dirty \cup Managers
    /\ UNCHANGED <<saved, since, now, step, draft, early, heard, opened, lapses>>

Fell(c) == [board EXCEPT ![<<c, number, "fell">>] = @ + 1]

\* _hardcore_death: the placement is on the board before the character is gone.
Fall(c) ==
    /\ Idle /\ c \in Hardcore \cap Alive
    /\ board' = Fell(c)
    /\ since' = [since EXCEPT ![c] = 0]
    /\ UNCHANGED <<number, start, warned, dirty, now, step, draft, early, heard, opened, lapses>>

\* The same, cut short between the two.
FallCut(c) ==
    /\ Idle /\ c \in Hardcore \cap Alive /\ crashes < MaxCrashes
    /\ board' = Fell(c)
    /\ spared' = spared \cup {c}
    /\ crashes' = crashes + 1
    /\ UNCHANGED <<number, start, warned, since, dirty, now, step, draft, early, heard, opened, unkept, torn>>

(* The clock *)

Pass ==
    /\ Idle /\ now < MaxNow
    /\ now' = now + 1
    /\ UNCHANGED <<saved, since, dirty, step, draft, early, heard, opened, lapses>>

\* end_season up to the first hook: the board is read and the survivors counted.
BeginReset(reason) ==
    /\ number < MaxSeason
    /\ step' = 1
    /\ draft' = Snapshot
    /\ early' = reason

\* Mutant: the clock is read before the warnings are seen to.
TickExpiryFirst ==
    /\ Idle
    /\ IF IsExpired THEN BeginReset(FALSE) /\ UNCHANGED <<warned, heard>>
                    ELSE /\ warned' = warned \cup DueWarnings
                         /\ heard' = heard \cup DueWarnings
                         /\ UNCHANGED <<step, draft, early>>
    /\ UNCHANGED <<number, start, board, since, dirty, now, opened, lapses>>

\* Mutant: a tick without a warning to give returns at once.
TickOnlyWhenDue ==
    /\ Idle /\ DueWarnings # {}
    /\ warned' = warned \cup DueWarnings
    /\ heard' = heard \cup DueWarnings
    /\ IF IsExpired THEN BeginReset(FALSE) ELSE UNCHANGED <<step, draft, early>>
    /\ UNCHANGED <<number, start, board, since, dirty, now, opened, lapses>>

\* at_repeat: warnings first, then the end.
Tick ==
    /\ Idle
    /\ warned' = warned \cup DueWarnings
    /\ heard' = heard \cup DueWarnings
    /\ IF IsExpired THEN BeginReset(FALSE) ELSE UNCHANGED <<step, draft, early>>
    /\ UNCHANGED <<number, start, board, since, dirty, now, opened, lapses>>

\* Altar.at_destruction: the flag, then end_season within the same blow.
Shatter ==
    /\ Idle /\ Altar \notin dirty
    /\ dirty' = dirty \cup {Altar}
    /\ BeginReset(TRUE)
    /\ UNCHANGED <<saved, since, now, heard, opened, lapses>>

(* The reset *)

\* Mutant: the board is saved with every hook.
FlushSaving ==
    /\ step \in DOMAIN Hooks
    /\ dirty' = dirty \ Hooks[step]
    /\ board' = draft
    /\ step' = step + 1
    /\ UNCHANGED <<number, start, warned, since, now, draft, early, heard, opened, lapses>>

Flush ==
    /\ step \in DOMAIN Hooks
    /\ dirty' = dirty \ Hooks[step]
    /\ step' = step + 1
    /\ UNCHANGED <<saved, since, now, draft, early, heard, opened, lapses>>

\* _save_season writes field by field.
SaveNumber ==
    /\ step = Flushed
    /\ number' = number + 1
    /\ heard' = {} /\ opened' = now
    /\ step' = step + 1
    /\ UNCHANGED <<start, warned, board, since, dirty, now, draft, early, lapses>>

\* Mutant: the end is reckoned from the start that was planned.
SaveStartAsPlanned ==
    /\ step = Flushed + 1
    /\ start' = End
    /\ step' = step + 1
    /\ UNCHANGED <<number, warned, board, since, dirty, now, draft, early, heard, opened, lapses>>

SaveStart ==
    /\ step = Flushed + 1
    /\ start' = now
    /\ step' = step + 1
    /\ UNCHANGED <<number, warned, board, since, dirty, now, draft, early, heard, opened, lapses>>

SaveWarned ==
    /\ step = Flushed + 2
    /\ warned' = {}
    /\ step' = step + 1
    /\ UNCHANGED <<number, start, board, since, dirty, now, draft, early, heard, opened, lapses>>

\* _save_leaderboard, the last write of end_season.
SaveBoard ==
    /\ step = Flushed + 3
    /\ board' = draft
    /\ draft' = Blank
    /\ step' = 0
    /\ UNCHANGED <<number, start, warned, since, dirty, now, early, heard, opened, lapses>>

\* A hook raises or the server dies: what was written stays, the rest is lost.
Crash ==
    /\ ~Idle /\ crashes < MaxCrashes
    /\ crashes' = crashes + 1
    /\ unkept' = IF step > Flushed THEN unkept \cup {number - 1} ELSE unkept
    /\ torn' = IF step \in {Flushed + 1, Flushed + 2} THEN torn \cup {number} ELSE torn
    /\ step' = 0
    /\ draft' = Blank
    /\ UNCHANGED <<saved, since, dirty, now, early, heard, opened, spared>>

Reset == Flush \/ SaveNumber \/ SaveStart \/ SaveWarned \/ SaveBoard

Next ==
    \/ \E c \in Characters : Join(c) \/ Fall(c) \/ FallCut(c)
    \/ Play \/ Pass \/ Tick \/ Shatter \/ Reset \/ Crash

Spec == Init /\ [][Next]_vars

\* The manager's script repeats every minute for ever, and a reset that has begun
\* runs until it ends or is cut short.
FairSpec == Spec /\ WF_vars(Tick) /\ WF_vars(Reset)

-----------------------------------------------------------------------------
(* Invariants *)

TypeOK ==
    /\ number \in Seasons /\ start \in 0 .. MaxNow /\ warned \subseteq WarnOffsets
    /\ board \in [Placements -> Nat]
    /\ since \in [Characters -> 0 .. MaxSeason]
    /\ dirty \subseteq Parts
    /\ now \in 0 .. MaxNow
    /\ step \in 0 .. Flushed + 3
    /\ draft \in [Placements -> Nat]
    /\ early \in BOOLEAN /\ heard \subseteq WarnOffsets
    /\ opened \in 0 .. MaxNow /\ crashes \in Nat
    /\ spared \subseteq Characters /\ unkept \subseteq 0 .. MaxSeason /\ torn \subseteq Seasons

\* However often resets are cut short and run again, nobody survives a season
\* twice on the leaderboard (snapshot_survivors, end_season).
SurvivesOnce ==
    \A c \in Characters, s \in Seasons : board[<<c, s, "survived">>] <= 1

\* Nobody survives a season twice, and a character has one placement a season: it
\* falls or it survives, however often resets are cut short and run again. Only who
\* was put on the board as fallen and not deleted may have another (_hardcore_death
\* and the snapshot; seasonal-reset.md section 4).
OnePlacement ==
    /\ SurvivesOnce
    /\ \A c \in Characters \ spared, s \in Seasons :
          board[<<c, s, "survived">>] + board[<<c, s, "fell">>] <= 1

\* Whoever lived through a season that has closed is on the board for it, wherever
\* resets were cut short; but for a season whose reset was cut short when the number
\* of the next was saved and the board was not (end_season; seasonal-reset.md
\* section 4: the snapshot freezes the placements before the new season opens).
ClosedSeasonIsOnBoard ==
    Idle => \A c \in Alive, s \in Seasons \ unkept :
                since[c] <= s /\ s < number => board[<<c, s, "survived">>] >= 1

(* What makes these inductive *)

\* The season the reset at hand closes; the current one when none has gone past
\* SaveNumber.
Closing == IF step > Flushed THEN number - 1 ELSE number

\* What the reset holds in memory is the board and one placement for each survivor.
DraftIsBoardAndSurvivors ==
    ~Idle => draft = [e \in Placements |->
                board[e] + IF e[1] \in Alive /\ e[2] = Closing /\ e[3] = "survived" THEN 1 ELSE 0]

\* Only closed seasons have survivors.
SurvivorsAreOfClosedSeasons ==
    \A c \in Characters, s \in Seasons : board[<<c, s, "survived">>] > 0 => s < Closing

\* Every reset that runs has a season to open.
ResetHasRoom == step \in 1 .. Flushed => number < MaxSeason

\* The hooks that have run have left nothing of what they clean.
FlushedSoFar ==
    \A i \in DOMAIN Hooks : i < step => dirty \cap Hooks[i] = {}

\* Who has fallen is gone, unless spared, and who is there has been recorded for
\* every season since that is kept.
FallenAreGone ==
    \A c \in Characters \ spared, s \in Seasons : board[<<c, s, "fell">>] > 0 => since[c] = 0
LivingAreRecorded ==
    \A c \in Alive, s \in Seasons \ unkept :
        since[c] <= s /\ s < Closing => board[<<c, s, "survived">>] >= 1

IInv ==
    /\ TypeOK /\ ResetHasRoom
    /\ DraftIsBoardAndSurvivors /\ SurvivorsAreOfClosedSeasons /\ SurvivesOnce
    /\ FlushedSoFar
    /\ FallenAreGone /\ OnePlacement /\ LivingAreRecorded

-----------------------------------------------------------------------------
(* Action properties *)

\* No placement ever leaves the board (seasonal-reset.md section 2: append-only),
\* although every reset overwrites it with a copy it read at its start.
BoardOnlyGrows == [][\A e \in Placements : board'[e] >= board[e]]_vars

\* No season opens on a world that an earlier one has left its marks on: whatever
\* crash went before, every manager is flushed since the last play.
NewSeasonStartsClean == [][number' # number => dirty \cap Managers = {}]_vars

\* Nobody is surprised by the clock: when it ends a season every warning of that
\* season has been given, whatever was cut short before; but for a season whose own
\* opening was not saved to the end, which thinks it has warned (at_repeat,
\* _save_season).
TimedEndIsWarned ==
    [][number' # number /\ ~early /\ number \notin torn => heard = WarnOffsets]_vars

\* A season lasts its length unless a quest ends it, however late the ticks and
\* wherever earlier resets were cut short; but for a season whose own opening was
\* not saved to the end, which counts from the start of the last (_save_season;
\* seasonal-reset.md sections 1 and 5).
SeasonLasts ==
    [][number' # number /\ ~early /\ number \notin torn => now - opened >= SeasonLength]_vars

(* Liveness *)

\* A season whose time is up ends, whatever was cut short.
SeasonTurns ==
    \A s \in Seasons \ {MaxSeason} : (Idle /\ number = s /\ IsExpired) ~> (number > s)
=============================================================================
