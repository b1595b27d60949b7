------------------------------- MODULE Quests -------------------------------
(***************************************************************************)
(* The quest log of every character, the commands that accept and turn in, *)
(* the kills and deeds that credit it, and the two plots a turn-in reaches:  *)
(* the report that exposes the spy (module Hunt stands for the priest's      *)
(* side of it) and the cult's chain that ends in an ambush.  A turn-in is     *)
(* five writes in a row, and the server may die between any two of them.     *)
(***************************************************************************)
EXTENDS Naturals, FiniteSets

CONSTANTS
    Players,
    Catalog,      \* quest ids
    Factions,
    Kills,        \* quest -> kills it asks for, 0 for a pure deed
    Prey,         \* quest -> the faction whose dead count
    Repeatable,   \* the bounties
    Prior,        \* quest -> the quests to be done before
    NeedsReport,  \* quests with evidence_min = EVIDENCE_REPORT
    NeedsCurate,  \* quests with evidence_min = EVIDENCE_CURATE
    Exposing,     \* quests with season_global = SEASON_EXPOSE_PRIEST
    AidsCult,     \* the spy's chain
    MinLevel,     \* quest -> level it asks for
    Level,        \* player -> level
    Cooldown,     \* BOUNTY_COOLDOWN_SECONDS
    ToAmbush,     \* SPY_QUESTS_TO_AMBUSH
    Pursuits,     \* bound: what players may be after, each player -> set of quests
    MaxSlain, MaxTimes, MaxNow, MaxHunts, MaxCrashes  \* bounds

ASSUME QuestsAssumption ==
    /\ Kills \in [Catalog -> Nat] /\ Prey \in [Catalog -> Factions]
    /\ Prior \in [Catalog -> SUBSET Catalog]
    /\ MinLevel \in [Catalog -> Nat] /\ Level \in [Players -> Nat]
    /\ NeedsReport \cup NeedsCurate \cup Exposing \cup AidsCult \cup Repeatable \subseteq Catalog
    /\ IsFiniteSet(AidsCult) /\ Exposing \cap Repeatable = {}
    /\ Cooldown \in Nat /\ ToAmbush \in Nat \ {0}
    /\ Pursuits \subseteq [Players -> SUBSET Catalog]
    /\ MaxSlain \in Nat /\ MaxTimes \in Nat /\ MaxNow \in Nat /\ MaxHunts \in Nat /\ MaxCrashes \in Nat

VARIABLES
    log,       \* player -> quest -> entry of character.db.quests
    spied,     \* player -> character.db.spy_quests
    now,
    exposed, ready, heard,  \* the priest plot, as Hunt has it
    paid,      \* history: player -> quest -> times its reward was paid
    lastPaid,  \* history: when that was last
    slain,     \* history: player -> faction -> kills
    sprung,    \* history: player -> ambushes sprung
    unsprung,  \* history: players whose chain was full and who were cut short then
    hunts,     \* history: the hunts there have been
    crashes,   \* history: turn-ins cut short
    after      \* the pursuit of this behaviour

Plot == INSTANCE Hunt
plot == <<exposed, ready, heard>>
history == <<paid, lastPaid, sprung, unsprung>>
vars == <<log, spied, now, plot, history, slain, hunts, crashes, after>>

-----------------------------------------------------------------------------
Entries ==
    [state : {"none", "active", "complete"}, progress : Nat, times : Nat, cooldown : Nat, deed : BOOLEAN]
NoEntry == [state |-> "none", progress |-> 0, times |-> 0, cooldown |-> 0, deed |-> FALSE]

Lesser(a, b) == IF a <= b THEN a ELSE b

StepsMet(q, e) == e.progress >= Kills[q]
IsDeedOnly(q) == Kills[q] = 0
RequiresDeedFlag(q) == IsDeedOnly(q) /\ q \notin NeedsReport \cup NeedsCurate

HasEvidence(p, q) == (q \in NeedsReport => p \in ready) /\ (q \in NeedsCurate => p \in heard)

PrereqsMet(p, q) ==
    /\ Level[p] >= MinLevel[q] /\ HasEvidence(p, q)
    /\ \A r \in Prior[q] : log[p][r].state = "complete"

IsAvailable(p, q) ==
    /\ PrereqsMet(p, q)
    /\ \/ log[p][q].state = "none"
       \/ log[p][q].state = "complete" /\ q \in Repeatable /\ now >= log[p][q].cooldown

\* Mutant: the kills of the last time still count.
AcceptedAsWas(q, e) == [e EXCEPT !.state = "active", !.cooldown = 0, !.deed = FALSE]

\* Mutant: the completion history is lost.
AcceptedAnew(q, e) == [NoEntry EXCEPT !.state = "active"]

\* accept: fresh progress, the completion history kept.
Accepted(q, e) == [NoEntry EXCEPT !.state = "active", !.times = e.times]

TurnedIn(q, e) ==
    [e EXCEPT !.state = "complete", !.times = @ + 1,
              !.cooldown = IF q \in Repeatable THEN now + Cooldown ELSE 0]

\* Mutant: kills are not capped at the count.
CreditedAll(q, e, f) ==
    IF e.state = "active" /\ Prey[q] = f THEN [e EXCEPT !.progress = @ + 1] ELSE e

\* record_faction_kill, for one entry.
Credited(q, e, f) ==
    IF e.state = "active" /\ Prey[q] = f THEN [e EXCEPT !.progress = Lesser(Kills[q], @ + 1)] ELSE e

-----------------------------------------------------------------------------
Init ==
    /\ log = [p \in Players |-> [q \in Catalog |-> NoEntry]]
    /\ spied = [p \in Players |-> {}]
    /\ now = 0
    /\ Plot!HuntInit
    /\ paid = [p \in Players |-> [q \in Catalog |-> 0]]
    /\ lastPaid = [p \in Players |-> [q \in Catalog |-> 0]]
    /\ slain = [p \in Players |-> [f \in Factions |-> 0]]
    /\ sprung = [p \in Players |-> 0] /\ unsprung = {}
    /\ hunts = 1 /\ crashes = 0
    /\ after \in Pursuits

Accept(p, q) ==
    /\ q \in after[p] /\ log[p][q].times < MaxTimes
    /\ IsAvailable(p, q)
    /\ log' = [log EXCEPT ![p][q] = Accepted(q, @)]
    /\ UNCHANGED <<spied, now, plot, history, slain, hunts, crashes, after>>

\* The death of a mob of faction f, credited to p.
Kill(p, f) ==
    /\ slain[p][f] < MaxSlain /\ \E q \in after[p] : ~IsDeedOnly(q)
    /\ slain' = [slain EXCEPT ![p][f] = @ + 1]
    /\ log' = [log EXCEPT ![p] = [q \in Catalog |-> Credited(q, @[q], f)]]
    /\ UNCHANGED <<spied, now, plot, history, hunts, crashes, after>>

\* record_deed, from the event that satisfies q.
Deed(p, q) ==
    /\ IsDeedOnly(q) /\ log[p][q].state = "active" /\ ~log[p][q].deed
    /\ log' = [log EXCEPT ![p][q].deed = TRUE]
    /\ UNCHANGED <<spied, now, plot, history, slain, hunts, crashes, after>>

(* The turn-in *)

CanTurnIn(p, q) ==
    /\ log[p][q].state = "active" /\ StepsMet(q, log[p][q])
    /\ RequiresDeedFlag(q) => log[p][q].deed
    /\ q \in Exposing => Plot!Accepted(p)

\* Mutant: every spy quest beyond the threshold springs the trap again.
SpringsAgain(p, q) ==
    q \in AidsCult \ spied[p] /\ Cardinality(spied[p]) + 1 >= ToAmbush

\* complete_spy_quest: the completion that first reaches the threshold.
Springs(p, q) ==
    q \in AidsCult \ spied[p] /\ Cardinality(spied[p]) < ToAmbush /\ Cardinality(spied[p]) + 1 >= ToAmbush

Exposes(q) == q \in Exposing

\* The five writes of a turn-in in their order; n of them are made: the report, the
\* reward, the spy log, the ambush, the quest log.
Writes(p, q, n) ==
    /\ exposed' = IF n >= 1 /\ Exposes(q) THEN TRUE ELSE exposed
    /\ paid' = IF n >= 2 THEN [paid EXCEPT ![p][q] = @ + 1] ELSE paid
    /\ lastPaid' = IF n >= 2 THEN [lastPaid EXCEPT ![p][q] = now] ELSE lastPaid
    /\ spied' = IF n >= 3 /\ q \in AidsCult THEN [spied EXCEPT ![p] = @ \cup {q}] ELSE spied
    /\ sprung' = IF n >= 4 /\ Springs(p, q) THEN [sprung EXCEPT ![p] = @ + 1] ELSE sprung
    /\ unsprung' = IF n = 3 /\ Springs(p, q) THEN unsprung \cup {p} ELSE unsprung
    /\ log' = IF n >= 5 THEN [log EXCEPT ![p][q] = TurnedIn(q, @)] ELSE log

TurnIn(p, q) ==
    /\ CanTurnIn(p, q)
    /\ Writes(p, q, 5)
    /\ UNCHANGED <<now, ready, heard, slain, hunts, crashes, after>>

TurnInCut(p, q) ==
    /\ CanTurnIn(p, q) /\ crashes < MaxCrashes
    /\ \E n \in 1 .. 4 : Writes(p, q, n)
    /\ crashes' = crashes + 1
    /\ UNCHANGED <<now, ready, heard, slain, hunts, after>>

(* The rest of the world *)

Gather(p) ==
    /\ after[p] \cap (NeedsReport \cup NeedsCurate) # {}
    /\ Plot!Gather(p)
    /\ UNCHANGED <<log, spied, now, history, slain, hunts, crashes, after>>

\* A new season; no character's log is touched.
NewHunt ==
    /\ hunts < MaxHunts
    /\ Plot!NewHunt
    /\ hunts' = hunts + 1
    /\ UNCHANGED <<log, spied, now, history, slain, crashes, after>>

Pass ==
    /\ now < MaxNow
    /\ now' = now + 1
    /\ UNCHANGED <<log, spied, plot, history, slain, hunts, crashes, after>>

Next ==
    \/ \E p \in Players, q \in Catalog : Accept(p, q) \/ Deed(p, q) \/ TurnIn(p, q) \/ TurnInCut(p, q)
    \/ \E p \in Players, f \in Factions : Kill(p, f)
    \/ \E p \in Players : Gather(p)
    \/ NewHunt \/ Pass

Spec == Init /\ [][Next]_vars

-----------------------------------------------------------------------------
(* Properties *)

\* No progress beyond the count, and counters are counters.
TypeOK ==
    /\ log \in [Players -> [Catalog -> Entries]]
    /\ \A p \in Players, q \in Catalog : IsDeedOnly(q) \/ log[p][q].progress <= Kills[q]
    /\ spied \in [Players -> SUBSET AidsCult]
    /\ now \in Nat /\ hunts \in Nat \ {0} /\ crashes \in Nat
    /\ Plot!HuntTypeOK
    /\ paid \in [Players -> [Catalog -> Nat]] /\ lastPaid \in [Players -> [Catalog -> Nat]]
    /\ slain \in [Players -> [Factions -> Nat]]
    /\ sprung \in [Players -> Nat] /\ unsprung \subseteq Players
    /\ after \in Pursuits

\* No completion goes unpaid, and a reward is paid beyond the completions only by
\* turn-ins that were cut short, once for each (CmdTurnin.func: the log is last).
PaidForWhatIsDone ==
    \A p \in Players, q \in Catalog :
        log[p][q].times <= paid[p][q] /\ paid[p][q] <= log[p][q].times + crashes

\* A story quest is paid once in a character's life (status: only a bounty comes
\* back).
StoryPaysOnce ==
    \A p \in Players, q \in Catalog \ Repeatable : paid[p][q] <= 1 + crashes

\* Every completion of a bounty has kills of its own behind it, made by this
\* character since the last one (accept zeroes the progress; credit_kill).
KillsBackCompletions ==
    \A p \in Players, q \in Catalog :
        log[p][q].times * Kills[q] + (IF log[p][q].state = "active" THEN log[p][q].progress ELSE 0)
            <= slain[p][Prey[q]]

\* No quest is taken before those it depends on have been done once (prereqs_met).
\* That they are still done is not promised: a bounty taken anew is open again.
ChainInOrder ==
    \A p \in Players, q \in Catalog :
        log[p][q].state # "none" => \A r \in Prior[q] : log[p][r].times > 0

\* The ambush springs at most once in a character's life and only on a full chain,
\* even when turn-ins are cut short and done again; and a full chain has sprung it,
\* unless the turn-in that filled it was cut short after the spy log and before the
\* ambush (complete_spy_quest, _advance_cult_chain).
AmbushOnce ==
    \A p \in Players :
        /\ sprung[p] <= 1
        /\ sprung[p] = 1 => Cardinality(spied[p]) >= ToAmbush
        /\ Cardinality(spied[p]) >= ToAmbush => sprung[p] = 1 \/ p \in unsprung

\* Whoever was paid for the report.
Heroes == {pq \in Players \X Exposing : paid[pq[1]][pq[2]] > 0}

\* While nothing is cut short no hunt is rewarded twice, however many players hold
\* proof (_fire_season_global before _apply_reward).
OneHeroAHunt ==
    crashes = 0 =>
        Cardinality(Heroes) <= hunts

\* While nothing is cut short a bounty pays a character at most once in a cooldown.
BountyRests ==
    [][\A p \in Players, q \in Repeatable :
        paid'[p][q] # paid[p][q] /\ paid[p][q] > 0 /\ crashes = 0 => now - lastPaid[p][q] >= Cooldown]_vars

(* What makes these inductive *)

\* What is complete has been completed, and what is not in the log has not.
CompleteIsCounted ==
    \A p \in Players, q \in Catalog :
        /\ log[p][q].state = "complete" => log[p][q].times > 0
        /\ log[p][q].state = "none" => log[p][q].times = 0

\* A story quest is completed once and stays complete.
StoryIsDoneOnce ==
    \A p \in Players, q \in Catalog \ Repeatable :
        /\ log[p][q].times <= 1
        /\ log[p][q].times > 0 => log[p][q].state = "complete"

\* A bounty's cooldown is counted from its last payment.
CooldownIsArmed ==
    crashes = 0 =>
        \A p \in Players, q \in Repeatable :
            log[p][q].times > 0 =>
                /\ log[p][q].state = "complete" => log[p][q].cooldown = lastPaid[p][q] + Cooldown
                /\ log[p][q].state = "active" => now >= lastPaid[p][q] + Cooldown

\* Every hunt but the one that is on has had its hero at most.
HeroesFinite == IsFiniteSet(Heroes)
HeroesOfPastHunts ==
    crashes = 0 => Cardinality(Heroes) + (IF exposed THEN 0 ELSE 1) <= hunts

IInv ==
    /\ TypeOK /\ PaidForWhatIsDone /\ KillsBackCompletions
    /\ CompleteIsCounted /\ StoryIsDoneOnce /\ ChainInOrder
    /\ AmbushOnce /\ CooldownIsArmed /\ HeroesFinite /\ HeroesOfPastHunts

\* What the quests do to the priest plot is what Hunt allows.
KeepsTheHunt == Plot!HuntSpec
=============================================================================
