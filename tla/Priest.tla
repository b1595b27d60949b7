------------------------------- MODULE Priest -------------------------------
(***************************************************************************)
(* The disguised priest: the manager that deals the season its spy and his *)
(* clues, the four ways a player comes by evidence, and the report that     *)
(* exposes him.  The identity is the server's, the evidence each player's   *)
(* own.  The season manager calls the reset and opens the season some       *)
(* writes later, so a reset cut short deals again.                          *)
(***************************************************************************)
EXTENDS Naturals, FiniteSets

CONSTANTS
    Players,
    Clerics,          \* players whose level is DETECT_EVIL_MIN_LEVEL or more
    Pool,             \* cfg.POOL_IDS
    Clues,            \* cfg.CLUE_IDS
    NightActs,        \* clues told by a night act
    Planted,          \* clues told by an object
    Smoking,          \* objects that are proof in themselves
    ClueCount,        \* cfg.CLUE_COUNT
    CurateThreshold,  \* cfg.CURATE_CLUE_THRESHOLD
    ReportThreshold,  \* cfg.CLUE_SIGHTINGS_TO_REPORT
    Aura,             \* cfg.PROOF_DETECT_EVIL
    MaxSeason,        \* bound: the last season
    MaxCrashes        \* bound: resets cut short

ASSUME PriestAssumption ==
    /\ Clerics \subseteq Players
    /\ \A n \in Pool : Pool \ {n} # {}
    /\ IsFiniteSet(Clues) /\ NightActs \subseteq Clues /\ Smoking \subseteq Planted /\ Planted \subseteq Clues
    /\ ClueCount \in Nat \ {0} /\ CurateThreshold \in Nat \ {0} /\ ReportThreshold \in Nat \ {0}
    /\ MaxSeason \in Nat \ {0} /\ MaxCrashes \in Nat

VARIABLES
    spy, clues, exposed,  \* the manager's attributes
    sightings, proofs,    \* player -> Evidence
    season,               \* the season manager's counter
    resetting,            \* reset_priest has run and the season has not opened
    served,               \* history: the spy the season opened with
    own,                  \* history: the sightings a player made unaided
    about,                \* history: the spies a player's evidence came from
    unmaskings,           \* history: <<season, player, spy>> of every exposing report
    crashes               \* history: resets cut short

plot == <<spy, clues, exposed>>
evidence == <<sightings, proofs, own, about>>
vars == <<spy, clues, exposed, sightings, proofs, season, resetting, served, own, about, unmaskings, crashes>>

-----------------------------------------------------------------------------
Draws == {d \in [1 .. ClueCount -> Clues] : \A i, j \in 1 .. ClueCount : d[i] = d[j] => i = j}
Drawn == {clues[i] : i \in 1 .. ClueCount}

\* The first clue of the draw that is in S: both searches stop at it.
IsFirst(i, S) == clues[i] \in S /\ \A j \in 1 .. i - 1 : clues[j] \notin S

CanReport(p) == proofs[p] # {} \/ Cardinality(sightings[p]) >= ReportThreshold
MeetsCurate(p) == Cardinality(sightings[p]) >= CurateThreshold

Init ==
    /\ spy \in Pool /\ clues \in Draws /\ exposed = FALSE
    /\ sightings = [p \in Players |-> {}] /\ proofs = [p \in Players |-> {}]
    /\ season = 1 /\ resetting = FALSE
    /\ served = spy
    /\ own = [p \in Players |-> {}] /\ about = [p \in Players |-> {}]
    /\ unmaskings = {} /\ crashes = 0

(* Investigation *)

Investigates(p) ==
    /\ ~resetting
    /\ about' = [about EXCEPT ![p] = @ \cup {spy}]
    /\ UNCHANGED <<plot, season, resetting, served, unmaskings, crashes>>

Sights(p, c) ==
    /\ sightings' = [sightings EXCEPT ![p] = @ \cup {c}]
    /\ own' = [own EXCEPT ![p] = @ \cup {c}]
    /\ UNCHANGED proofs

Proves(p, source) ==
    /\ proofs' = [proofs EXCEPT ![p] = @ \cup {source}]
    /\ UNCHANGED <<sightings, own>>

DetectEvil(p, target) ==
    /\ p \in Clerics /\ target = spy
    /\ Investigates(p) /\ Proves(p, Aura)

WitnessNightAct(p, c) ==
    /\ c \in Drawn \cap NightActs
    /\ Investigates(p) /\ Sights(p, c)

\* A search always turns up the first planted object of the draw.
SearchForObject(p) ==
    \E i \in 1 .. ClueCount :
        /\ IsFirst(i, Planted)
        /\ Investigates(p)
        /\ IF clues[i] \in Smoking THEN Proves(p, clues[i]) ELSE Sights(p, clues[i])

\* Mutant: the Curate confides one sighting too early.
CurateConfidesEarly(p) ==
    \E i \in 1 .. ClueCount :
        /\ Cardinality(sightings[p]) + 1 >= CurateThreshold
        /\ IsFirst(i, Clues \ sightings[p])
        /\ Investigates(p)
        /\ sightings' = [sightings EXCEPT ![p] = @ \cup {clues[i]}]
        /\ UNCHANGED <<proofs, own>>

CurateDialogue(p) ==
    \E i \in 1 .. ClueCount :
        /\ MeetsCurate(p)
        /\ IsFirst(i, Clues \ sightings[p])
        /\ Investigates(p)
        /\ sightings' = [sightings EXCEPT ![p] = @ \cup {clues[i]}]
        /\ UNCHANGED <<proofs, own>>

(* Exposure *)

\* Mutant: a report is heard although the spy is exposed.
ReportAgain(p) ==
    /\ ~resetting /\ CanReport(p)
    /\ exposed' = TRUE
    /\ unmaskings' = unmaskings \cup {<<season, p, spy>>}
    /\ UNCHANGED <<spy, clues, evidence, season, resetting, served, crashes>>

\* Mutant: suspicions are proof.
ReportOnSuspicion(p) ==
    /\ ~resetting
    /\ ~exposed /\ (proofs[p] # {} \/ MeetsCurate(p))
    /\ exposed' = TRUE
    /\ unmaskings' = unmaskings \cup {<<season, p, spy>>}
    /\ UNCHANGED <<spy, clues, evidence, season, resetting, served, crashes>>

Report(p) ==
    /\ ~resetting
    /\ ~exposed /\ CanReport(p)
    /\ exposed' = TRUE
    /\ unmaskings' = unmaskings \cup {<<season, p, spy>>}
    /\ UNCHANGED <<spy, clues, evidence, season, resetting, served, crashes>>

(* The season *)

\* Mutant: the outgoing spy is dismissed and nobody follows.
AssignNobody == spy' = {} /\ exposed' = FALSE

\* Never the outgoing spy; a fresh one starts unmasked.
AssignSpy == spy' \in Pool \ {spy} /\ exposed' = FALSE

\* reset_season clears the plot and no player's evidence.
ResetSeason ==
    /\ ~resetting /\ season < MaxSeason
    /\ AssignSpy
    /\ clues' \in Draws
    /\ resetting' = TRUE
    /\ UNCHANGED <<evidence, season, served, unmaskings, crashes>>

\* The season manager saves the new number.
OpenSeason ==
    /\ resetting
    /\ season' = season + 1
    /\ served' = spy
    /\ resetting' = FALSE
    /\ UNCHANGED <<plot, evidence, unmaskings, crashes>>

\* A later hook raises or the server dies: the plot is new, the season is not.
CutShort ==
    /\ resetting /\ crashes < MaxCrashes
    /\ crashes' = crashes + 1
    /\ resetting' = FALSE
    /\ UNCHANGED <<plot, evidence, season, served, unmaskings>>

Next ==
    \/ \E p \in Players :
        \/ \E n \in Pool : DetectEvil(p, n)
        \/ \E c \in Clues : WitnessNightAct(p, c)
        \/ SearchForObject(p) \/ CurateDialogue(p) \/ Report(p)
    \/ ResetSeason \/ OpenSeason \/ CutShort

Spec == Init /\ [][Next]_vars

-----------------------------------------------------------------------------
(* Properties *)

TypeOK ==
    /\ spy \in Pool /\ clues \in Draws /\ exposed \in BOOLEAN
    /\ sightings \in [Players -> SUBSET Clues] /\ own \in [Players -> SUBSET Clues]
    /\ proofs \in [Players -> SUBSET (Clues \cup {Aura})]
    /\ season \in 1 .. MaxSeason /\ resetting \in BOOLEAN
    /\ served \in Pool /\ about \in [Players -> SUBSET Pool]
    /\ unmaskings \subseteq (1 .. MaxSeason) \X Players \X Pool
    /\ crashes \in Nat

\* Nobody accuses on the Curate's word alone: whoever holds a sighting that is not
\* his own made enough of his own to be confided in (curate_dialogue).
NobodyAccusesOnHearsay ==
    \A p \in Players : sightings[p] # own[p] => Cardinality(own[p]) >= CurateThreshold

\* While no reset is cut short a season has one unmasking, however many players
\* hold proof (report_to_castellan: fires once).
OneUnmaskingASeason ==
    crashes = 0 => \A u, w \in unmaskings : u[1] = w[1] => u = w

\* In the first season whoever unmasks the spy has evidence that came from him and
\* not from an innocent (detect_evil, witness_night_act, search_for_object).
FirstHuntIsOnTheTrail ==
    crashes = 0 => \A u \in unmaskings : u[1] = 1 => u[3] \in about[u[2]]

\* No spy serves two seasons running while no reset is cut short (assign_spy;
\* disguised-priest.md section 2).
NoSpyTwiceRunning == [][season' # season /\ crashes = 0 => served' # served]_vars

\* The plot keeps what the quests rely on.
Promise == INSTANCE Hunt WITH
    ready <- {p \in Players : CanReport(p)},
    heard <- {p \in Players : MeetsCurate(p)}
KeepsTheHunt == Promise!HuntSpec

(* What makes these inductive *)

\* Evidence and its history agree, and who has any has it from somebody.
OwnIsSighted == \A p \in Players : own[p] \subseteq sightings[p]

\* Until the first reset all evidence points at the one spy there has been.
FirstTrailIsTheSpys ==
    season = 1 /\ crashes = 0 /\ ~resetting =>
        \A p \in Players : sightings[p] # {} \/ proofs[p] # {} => spy \in about[p]

\* Unmaskings lie in the past, and the season's own is what the flag says.
UnmaskingsArePast == \A u \in unmaskings : u[1] <= season
FlagIsTheUnmasking ==
    crashes = 0 /\ ~resetting => (exposed <=> \E u \in unmaskings : u[1] = season)

\* Between the two writes of a reset the spy is not the one that served.
SpyIsTurnedOver == crashes = 0 => (resetting <=> spy # served)

IInv ==
    /\ TypeOK /\ OwnIsSighted /\ NobodyAccusesOnHearsay
    /\ FirstTrailIsTheSpys /\ FirstHuntIsOnTheTrail
    /\ UnmaskingsArePast /\ FlagIsTheUnmasking /\ OneUnmaskingASeason
    /\ SpyIsTurnedOver /\ (resetting => season < MaxSeason /\ ~exposed)
=============================================================================
