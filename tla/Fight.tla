-------------------------------- MODULE Fight --------------------------------
(***************************************************************************)
(* A fight: blows, spells declared and resolved at the end of the round,   *)
(* disruption, death and recall, and the script that rings the rounds.     *)
(* Only player characters act; a monster that takes offence says so and    *)
(* does nothing.  A hardcore death is module Season's.                     *)
(*                                                                         *)
(* Commands run between two rounds.  A round is one handler, but what a    *)
(* combatant's spell does depends on what the spells before it did, so     *)
(* the handler moves from one combatant to the next while turn > 0.        *)
(***************************************************************************)
EXTENDS Integers, Sequences, FiniteSets

CONSTANTS
    Heroes, Monsters,
    Spells, Kind,      \* the registry: each spell harms, heals or senses
    Slots,             \* what a rest prepares, by hero and spell
    HitPoints,         \* traits.hp.base
    Rolls,             \* damage or healing of one blow or spell
    Rooms, Bailey,     \* where one may be; where the slain are recalled to
    Cave               \* where the fight breaks out

Fighters == Heroes \cup Monsters
Harm == "harm"
Heal == "heal"
Sense == "sense"
NoCast == <<>>
NoSpells == [s \in Spells |-> 0]

ASSUME FightAssumption ==
    /\ Heroes \cap Monsters = {}
    /\ IsFiniteSet(Fighters)
    /\ Kind \in [Spells -> {Harm, Heal, Sense}]
    /\ Slots \in [Heroes -> [Spells -> Nat]]
    /\ HitPoints \in [Fighters -> Nat \ {0}]
    /\ Rolls \subseteq Nat \ {0}
    /\ {Bailey, Cave} \subseteq Rooms

VARIABLES
    hp, room,
    memory,      \* db.memorized_spells: how often each spell is prepared
    declared,    \* db.spell_declaring and db.pending_cast: <<spell, target>>
    running,     \* the handler's timer
    combatants,  \* db.combatants, in the order they joined
    turn,        \* whom the round has come to; 0 between rounds
    living,      \* the combatants the round found alive
    book,        \* history: slots cast, spoiled or forgotten since the last rest
    loose        \* history: heroes whose book is off (TakesEffect, RemoveCombatant)

body == <<hp, room>>
mind == <<memory, declared, book, loose>>
bell == <<running, combatants, turn, living>>
vars == <<body, mind, bell>>

-----------------------------------------------------------------------------
Alive(c) == hp[c] > 0
Fighting == {combatants[i] : i \in DOMAIN combatants}
InCombat(c) == running /\ c \in Fighting
Between == turn = 0

Struck(slots, s) == IF slots[s] > 0 THEN [slots EXCEPT ![s] = @ - 1] ELSE slots

Left(t, n) == IF hp[t] > n THEN hp[t] - n ELSE 0

Dies(t, n) == Alive(t) /\ Left(t, n) = 0

\* Mutant: a blow does not spoil the spell.
MemoryOfCalm(t, n) == IF Dies(t, n) THEN NoSpells ELSE memory[t]

\* apply_damage and _default_death on the prepared spells of a hero.
MemoryAfter(t, n) ==
    CASE Dies(t, n) -> NoSpells
      [] ~Dies(t, n) /\ declared[t] # NoCast -> Struck(memory[t], declared[t][1])
      [] OTHER -> memory[t]

BookAfter(t, n) ==
    CASE Dies(t, n) -> Slots[t]
      [] ~Dies(t, n) /\ declared[t] # NoCast -> [book[t] EXCEPT ![declared[t][1]] = @ + 1]
      [] OTHER -> book[t]

\* apply_damage on the body: the slain hero is recalled at one hit point.
Wound(t, n) ==
    /\ hp' = [hp EXCEPT ![t] = IF t \in Heroes /\ Dies(t, n) THEN 1 ELSE Left(t, n)]
    /\ room' = IF t \in Heroes /\ Dies(t, n) THEN [room EXCEPT ![t] = Bailey] ELSE room

\* The minds after a wound to t, before whoever dealt it pays for his spell.
Shaken(f, after, t) == IF t \in Heroes THEN [f EXCEPT ![t] = after] ELSE f

-----------------------------------------------------------------------------
Init ==
    /\ hp = HitPoints /\ room = [c \in Fighters |-> Cave]
    /\ memory = [c \in Heroes |-> NoSpells]
    /\ declared = [c \in Heroes |-> NoCast]
    /\ running = FALSE /\ combatants = <<>> /\ turn = 0 /\ living = {}
    /\ book = Slots /\ loose = {}

\* A blow that lands; one that misses changes nothing here.
Attack(a, t) ==
    /\ Between /\ a # t /\ room[a] = room[t]
    /\ \E n \in Rolls :
         /\ Wound(t, n)
         /\ memory' = Shaken(memory, MemoryAfter(t, n), t)
         /\ book' = Shaken(book, BookAfter(t, n), t)
    /\ declared' = Shaken(declared, NoCast, t)
    /\ UNCHANGED <<loose, bell>>

Rest(c) ==
    /\ Between
    /\ memory' = [memory EXCEPT ![c] = Slots[c]]
    /\ book' = [book EXCEPT ![c] = NoSpells]
    /\ loose' = IF declared[c] = NoCast THEN loose \ {c} ELSE loose
    /\ UNCHANGED <<body, declared, bell>>

Move(c) ==
    /\ Between
    /\ \E r \in Rooms \ {room[c]} : room' = [room EXCEPT ![c] = r]
    /\ UNCHANGED <<hp, mind, bell>>

-----------------------------------------------------------------------------
(* Spells *)

\* A search finds the target in the caster's room; a spell that finds none has no
\* effect and costs nothing.
Reaches(c, s, t) == Kind[s] = Sense \/ room[t] = room[c]

MemoryShaken(s, t, n) == IF Kind[s] = Harm THEN Shaken(memory, MemoryAfter(t, n), t) ELSE memory
DeclaredShaken(s, t) == IF Kind[s] = Harm THEN Shaken(declared, NoCast, t) ELSE declared
BookShaken(s, t, n) == IF Kind[s] = Harm THEN Shaken(book, BookAfter(t, n), t) ELSE book

\* The effect of c's spell s on t.  Who turns a harmful spell on himself is
\* disrupted by it and then pays for it too, or dies and then remembers.
TakesEffect(c, s, t, n) ==
    /\ Reaches(c, s, t)
    /\ \/ Kind[s] = Harm /\ Wound(t, n)
       \/ /\ Kind[s] = Heal
          /\ hp' = [hp EXCEPT ![t] = IF @ + n > HitPoints[t] THEN HitPoints[t] ELSE @ + n]
          /\ UNCHANGED room
       \/ Kind[s] = Sense /\ UNCHANGED body
    /\ book' = [BookShaken(s, t, n) EXCEPT ![c][s] = @ + 1]
    /\ loose' = IF Kind[s] = Harm /\ t = c THEN loose \cup {c} ELSE loose

\* Out of a fight a spell works at once.  The list it is struck from is the one
\* read before the effect.
Cast(c, s, t, n) ==
    /\ Between /\ ~InCombat(c) /\ memory[c][s] > 0
    /\ TakesEffect(c, s, t, n)
    /\ memory' = [MemoryShaken(s, t, n) EXCEPT ![c] = Struck(memory[c], s)]
    /\ declared' = DeclaredShaken(s, t)
    /\ UNCHANGED bell

\* Mutant: a second declaration displaces the first.
DeclareOver(c, s, t) ==
    /\ Between /\ InCombat(c) /\ memory[c][s] > 0
    /\ Kind[s] = Sense => t = c
    /\ declared' = [declared EXCEPT ![c] = <<s, t>>]
    /\ UNCHANGED <<body, memory, book, loose, bell>>

Declare(c, s, t) ==
    /\ Between /\ InCombat(c) /\ memory[c][s] > 0 /\ declared[c] = NoCast
    /\ Kind[s] = Sense => t = c  \* the target is not looked at
    /\ declared' = [declared EXCEPT ![c] = <<s, t>>]
    /\ UNCHANGED <<body, memory, book, loose, bell>>

-----------------------------------------------------------------------------
(* The handler.  Nothing in the game makes one or takes a combatant out yet. *)

LineUps == UNION {[1 .. n -> Fighters] : n \in 2 .. Cardinality(Fighters)}

Begin(line) ==
    /\ Between /\ ~running
    /\ \A i, j \in DOMAIN line : line[i] = line[j] => i = j
    /\ running' = TRUE /\ combatants' = line
    /\ UNCHANGED <<body, mind, turn, living>>

AddCombatant(c) ==
    /\ Between /\ running /\ c \notin Fighting
    /\ combatants' = Append(combatants, c)
    /\ UNCHANGED <<body, mind, running, turn, living>>

\* Who is taken out in the middle of a spell keeps its declaration.
RemoveCombatant(c) ==
    /\ Between /\ running
    /\ \E i \in DOMAIN combatants :
         /\ combatants[i] = c
         /\ combatants' = [k \in 1 .. Len(combatants) - 1 |-> combatants[IF k < i THEN k ELSE k + 1]]
    /\ loose' = IF c \in Heroes /\ declared[c] # NoCast THEN loose \cup {c} ELSE loose
    /\ UNCHANGED <<body, memory, declared, book, running, turn, living>>

AtRepeat ==
    /\ Between /\ running
    /\ turn' = 1 /\ living' = {c \in Fighting : Alive(c)}
    /\ UNCHANGED <<body, mind, running, combatants>>

Comes(c) == turn \in DOMAIN combatants /\ c = combatants[turn]
Casting(c) == c \in Heroes \cap living /\ declared[c] # NoCast

\* Mutant: a spell that found no target stays declared.
ResolveOnceItReaches(c, n) ==
    LET s == declared[c][1]
        t == declared[c][2]
    IN  \/ /\ TakesEffect(c, s, t, n)
           /\ memory' = [MemoryShaken(s, t, n) EXCEPT ![c] = Struck(@, s)]
           /\ declared' = [DeclaredShaken(s, t) EXCEPT ![c] = NoCast]
        \/ ~Reaches(c, s, t) /\ UNCHANGED <<body, mind>>

ResolvePendingCast(c, n) ==
    LET s == declared[c][1]
        t == declared[c][2]
    IN  \/ /\ TakesEffect(c, s, t, n)
           /\ memory' = [MemoryShaken(s, t, n) EXCEPT ![c] = Struck(@, s)]
           /\ declared' = [DeclaredShaken(s, t) EXCEPT ![c] = NoCast]
        \/ /\ ~Reaches(c, s, t)
           /\ declared' = [declared EXCEPT ![c] = NoCast]
           /\ UNCHANGED <<body, memory, book, loose>>

Resolve ==
    /\ \E c \in Heroes : Comes(c) /\ Casting(c) /\ \E n \in Rolls : ResolvePendingCast(c, n)
    /\ turn' = turn + 1
    /\ UNCHANGED <<running, combatants, living>>

PassOver ==
    /\ \E c \in Fighters : Comes(c) /\ ~Casting(c)
    /\ turn' = turn + 1
    /\ UNCHANGED <<body, mind, running, combatants, living>>

\* The round is over.  With fewer than two alive, before or after its spells, the
\* handler stops and lets its combatants go.
EndRound ==
    /\ turn > Len(combatants)
    /\ running' = \E c, d \in living : c # d /\ Alive(c) /\ Alive(d)
    /\ combatants' = IF running' THEN combatants ELSE <<>>
    /\ turn' = 0 /\ living' = {}
    /\ UNCHANGED <<body, mind>>

Next ==
    \/ \E a \in Heroes, t \in Fighters : Attack(a, t)
    \/ \E c \in Heroes : Rest(c) \/ Move(c)
    \/ \E c \in Heroes, s \in Spells, t \in Fighters : Declare(c, s, t)
    \/ \E c \in Heroes, s \in Spells, t \in Fighters, n \in Rolls : Cast(c, s, t, n)
    \/ \E line \in LineUps : Begin(line)
    \/ \E c \in Fighters : AddCombatant(c) \/ RemoveCombatant(c)
    \/ AtRepeat \/ Resolve \/ PassOver \/ EndRound

Spec == Init /\ [][Next]_vars

\* The timer rings while the handler runs, and a round that has begun goes on.
FairSpec == Spec /\ WF_vars(AtRepeat) /\ WF_vars(Resolve) /\ WF_vars(PassOver) /\ WF_vars(EndRound)

-----------------------------------------------------------------------------
(* Invariants *)

Casts == {NoCast} \cup (Spells \X Fighters)

TypeOK ==
    /\ hp \in [Fighters -> Nat] /\ \A c \in Fighters : hp[c] <= HitPoints[c]
    /\ room \in [Fighters -> Rooms]
    /\ memory \in [Heroes -> [Spells -> Nat]]
    /\ declared \in [Heroes -> Casts]
    /\ running \in BOOLEAN /\ combatants \in Seq(Fighters)
    /\ turn \in 0 .. Len(combatants) + 1 /\ living \subseteq Fighting
    /\ book \in [Heroes -> [Spells -> Nat]]
    /\ loose \subseteq Heroes

\* The slain are recalled within the blow that slays them (_default_death).
HeroesLive == \A c \in Heroes : Alive(c)

\* The slot of a declared spell is reserved: it is still held when the spell is
\* resolved or spoiled (CmdCast).
SlotIsReserved ==
    \A c \in Heroes \ loose : declared[c] # NoCast => memory[c][declared[c][1]] > 0

\* Nobody casts for free and nobody pays twice: what a hero holds and what was cast,
\* spoiled or forgotten since the last rest make up what the rest prepared.
SlotsAddUp ==
    \A c \in Heroes \ loose, s \in Spells : memory[c][s] + book[c][s] = Slots[c][s]

\* No declaration outlives its fight (at_stop: "no stale spell_declaring is left
\* behind"), unless its caster was taken out of it.
CastingMeansFighting == \A c \in Heroes \ loose : declared[c] # NoCast => InCombat(c)

\* Within a round those it has come to have no spell pending.
SettledSoFar ==
    /\ turn = 0 => living = {}
    /\ turn > 0 => /\ running
                   /\ \A c \in Heroes : c \in Fighting => c \in living
                   /\ \A i \in 1 .. turn - 1 :
                          combatants[i] \in Heroes => declared[combatants[i]] = NoCast

IInv ==
    TypeOK /\ HeroesLive /\ SlotIsReserved /\ SlotsAddUp /\ CastingMeansFighting /\ SettledSoFar

Pledged == [c \in Heroes |-> IF declared[c] = NoCast THEN {} ELSE {declared[c][1]}]

Book == INSTANCE Spellbook WITH
    Casters <- Heroes, held <- memory, pledged <- Pledged, astray <- loose

\* A slot is lost once and for one thing, and gained by rest alone: whatever casts, blows
\* and deaths fall on a caster between declaration and resolution, the fight implements
\* Spellbook (CmdCast, resolve_pending_cast, apply_damage, _default_death, CmdRest).
KeepsTheBook == Book!BookSpec

\* Every spell declared is resolved or spoiled in the end.
DeclaredIsSettled ==
    \A c \in Heroes : declared[c] # NoCast ~> (declared[c] = NoCast \/ c \in loose)

=============================================================================
