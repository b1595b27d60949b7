----------------------------- MODULE FightProofs -----------------------------
(***************************************************************************)
(* Theorems about the fight for any heroes, monsters, spells, prepared     *)
(* slots and rolls.                                                        *)
(***************************************************************************)
EXTENDS Fight, FiniteSetTheorems, TLAPS

BodyOK ==
    /\ hp \in [Fighters -> Nat] /\ \A c \in Fighters : hp[c] <= HitPoints[c]
    /\ room \in [Fighters -> Rooms]
    /\ HeroesLive

MindOK ==
    /\ memory \in [Heroes -> [Spells -> Nat]]
    /\ declared \in [Heroes -> Casts]
    /\ book \in [Heroes -> [Spells -> Nat]]
    /\ loose \subseteq Heroes
    /\ SlotIsReserved /\ SlotsAddUp

BellOK ==
    /\ running \in BOOLEAN /\ combatants \in Seq(Fighters)
    /\ turn \in 0 .. Len(combatants) + 1 /\ living \subseteq Fighting
    /\ CastingMeansFighting /\ SettledSoFar

LEMMA Parts == IInv <=> BodyOK /\ MindOK /\ BellOK
BY DEF IInv, BodyOK, MindOK, BellOK, TypeOK

LEMMA PartsNext == BodyOK' /\ MindOK' /\ BellOK' => IInv'
BY DEF IInv, BodyOK, MindOK, BellOK, TypeOK

LEMMA PartsAfter == IInv' => MindOK'
BY DEF IInv, MindOK, TypeOK

LEMMA CastsAreTwoLong == \A s \in Spells, t \in Fighters : <<s, t>> \in Casts /\ <<s, t>> # NoCast
BY DEF Casts, NoCast

LEMMA ACastHasASpell ==
    ASSUME NEW d \in Casts, d # NoCast PROVE d[1] \in Spells /\ d[2] \in Fighters
BY DEF Casts, NoCast

-----------------------------------------------------------------------------
(* Wounds *)

LEMMA WoundKeepsBodies ==
    ASSUME BodyOK, NEW t \in Fighters, NEW n \in Rolls, Wound(t, n) PROVE BodyOK'
<1>1. n \in Nat \ {0} /\ HitPoints[t] \in Nat \ {0} /\ Bailey \in Rooms
  BY FightAssumption
<1>2. Left(t, n) \in Nat /\ Left(t, n) <= hp[t] /\ hp[t] \in Nat
  BY <1>1 DEF BodyOK, Left
<1>3. hp' \in [Fighters -> Nat] /\ \A c \in Fighters : hp'[c] <= HitPoints[c]
  BY <1>1, <1>2 DEF Wound, BodyOK
<1>4. room' \in [Fighters -> Rooms]
  BY <1>1 DEF Wound, BodyOK
<1>5. ASSUME NEW c \in Heroes PROVE hp'[c] > 0
  <2>1. c \in Fighters /\ hp[c] > 0
    BY DEF Fighters, BodyOK, HeroesLive, Alive
  <2>2. CASE c = t
    BY <1>2, <2>1, <2>2 DEF Wound, BodyOK, Dies, Alive
  <2>3. CASE c # t
    BY <2>1, <2>3 DEF Wound, BodyOK
  <2> QED
    BY <2>2, <2>3
<1> QED
  BY <1>3, <1>4, <1>5 DEF BodyOK, HeroesLive, Alive

\* What a wound leaves of a hero's list and adds to his history is sound, and they
\* still make up what he prepared.
LEMMA WoundBalances ==
    ASSUME MindOK, NEW t \in Heroes, NEW n
    PROVE  /\ MemoryAfter(t, n) \in [Spells -> Nat] /\ BookAfter(t, n) \in [Spells -> Nat]
           /\ t \notin loose =>
                  \A s \in Spells : MemoryAfter(t, n)[s] + BookAfter(t, n)[s] = Slots[t][s]
<1> DEFINE d == declared[t][1]
<1>0. /\ memory[t] \in [Spells -> Nat] /\ book[t] \in [Spells -> Nat] /\ declared[t] \in Casts
      /\ Slots[t] \in [Spells -> Nat] /\ NoSpells \in [Spells -> Nat]
      /\ \A s \in Spells : NoSpells[s] = 0
      /\ t \notin loose => \A s \in Spells : memory[t][s] + book[t][s] = Slots[t][s]
  BY FightAssumption DEF MindOK, SlotsAddUp, NoSpells
<1>1. CASE Dies(t, n)
  BY <1>0, <1>1 DEF MemoryAfter, BookAfter
<1>2. CASE ~Dies(t, n) /\ declared[t] # NoCast
  <2>1. d \in Spells
    BY <1>0, <1>2, ACastHasASpell
  <2>2. MemoryAfter(t, n) = Struck(memory[t], d) /\ BookAfter(t, n) = [book[t] EXCEPT ![d] = @ + 1]
    BY <1>2 DEF MemoryAfter, BookAfter
  <2>3. t \notin loose => memory[t][d] > 0
    BY <1>2 DEF MindOK, SlotIsReserved
  <2>4. memory[t][d] > 0 =>
            \A s \in Spells : Struck(memory[t], d)[s] = IF s = d THEN memory[t][d] - 1 ELSE memory[t][s]
    BY <1>0, <2>1 DEF Struck
  <2>5. \A s \in Spells : [book[t] EXCEPT ![d] = @ + 1][s] = IF s = d THEN book[t][d] + 1 ELSE book[t][s]
    BY <1>0, <2>1
  <2>6. Struck(memory[t], d) \in [Spells -> Nat] /\ [book[t] EXCEPT ![d] = @ + 1] \in [Spells -> Nat]
    BY <1>0, <2>1 DEF Struck
  <2>7. ASSUME t \notin loose, NEW s \in Spells
        PROVE  MemoryAfter(t, n)[s] + BookAfter(t, n)[s] = Slots[t][s]
    <3>1. memory[t][s] \in Nat /\ book[t][s] \in Nat /\ memory[t][s] + book[t][s] = Slots[t][s]
      BY <1>0, <2>7
    <3> QED
      BY <2>2, <2>3, <2>4, <2>5, <2>7, <3>1
  <2> QED
    BY <2>2, <2>6, <2>7
<1>3. CASE ~Dies(t, n) /\ declared[t] = NoCast
  BY <1>0, <1>3 DEF MemoryAfter, BookAfter
<1> QED
  BY <1>1, <1>2, <1>3

\* The minds m, d and b of memory, declaration and history agree.
Agree(m, d, b, S) ==
    /\ m \in [Heroes -> [Spells -> Nat]] /\ d \in [Heroes -> Casts] /\ b \in [Heroes -> [Spells -> Nat]]
    /\ \A c \in S : /\ d[c] # NoCast => m[c][d[c][1]] > 0
                    /\ \A s \in Spells : m[c][s] + b[c][s] = Slots[c][s]

LEMMA AgreeIsMindOK ==
    MindOK <=> loose \subseteq Heroes /\ Agree(memory, declared, book, Heroes \ loose)
BY DEF MindOK, Agree, SlotIsReserved, SlotsAddUp

LEMMA WoundKeepsAgreement ==
    ASSUME MindOK, NEW t \in Fighters, NEW n
    PROVE  Agree(Shaken(memory, MemoryAfter(t, n), t), Shaken(declared, NoCast, t),
                 Shaken(book, BookAfter(t, n), t), Heroes \ loose)
<1>1. CASE t \in Heroes
  <2>1. NoCast \in Casts
    BY DEF Casts
  <2>2. /\ Shaken(memory, MemoryAfter(t, n), t) = [memory EXCEPT ![t] = MemoryAfter(t, n)]
        /\ Shaken(declared, NoCast, t) = [declared EXCEPT ![t] = NoCast]
        /\ Shaken(book, BookAfter(t, n), t) = [book EXCEPT ![t] = BookAfter(t, n)]
    BY <1>1 DEF Shaken
  <2>3. /\ MemoryAfter(t, n) \in [Spells -> Nat] /\ BookAfter(t, n) \in [Spells -> Nat]
        /\ t \notin loose => \A s \in Spells : MemoryAfter(t, n)[s] + BookAfter(t, n)[s] = Slots[t][s]
    BY <1>1, WoundBalances
  <2> QED
    BY <1>1, <2>1, <2>2, <2>3, AgreeIsMindOK DEF Agree
<1>2. CASE t \notin Heroes
  BY <1>2, AgreeIsMindOK DEF Shaken
<1> QED
  BY <1>1, <1>2

-----------------------------------------------------------------------------
(* Spells *)

LEMMA EffectKeepsBodies ==
    ASSUME BodyOK, NEW c, NEW s, NEW t \in Fighters, NEW n \in Rolls, TakesEffect(c, s, t, n)
    PROVE  BodyOK'
<1>1. CASE Kind[s] = Harm /\ Wound(t, n)
  BY <1>1, WoundKeepsBodies
<1>2. CASE /\ Kind[s] = Heal
           /\ hp' = [hp EXCEPT ![t] = IF @ + n > HitPoints[t] THEN HitPoints[t] ELSE @ + n]
           /\ UNCHANGED room
  <2>1. n \in Nat \ {0} /\ HitPoints[t] \in Nat \ {0} /\ hp[t] \in Nat
    BY FightAssumption DEF BodyOK
  <2>2. hp' \in [Fighters -> Nat] /\ \A x \in Fighters : hp'[x] <= HitPoints[x]
    BY <1>2, <2>1 DEF BodyOK
  <2>3. \A x \in Heroes : x \in Fighters /\ hp[x] > 0
    BY DEF BodyOK, HeroesLive, Alive, Fighters
  <2>4. \A x \in Heroes : hp'[x] > 0
    BY <1>2, <2>1, <2>3 DEF BodyOK
  <2> QED
    BY <1>2, <2>2, <2>4 DEF BodyOK, HeroesLive, Alive
<1>3. CASE Kind[s] = Sense /\ UNCHANGED body
  BY <1>3 DEF body, BodyOK, HeroesLive, Alive
<1> QED
  BY <1>1, <1>2, <1>3 DEF TakesEffect

\* Before its caster pays, a spell leaves the minds in agreement, and the caster's is
\* untouched unless he struck himself.
LEMMA EffectShakes ==
    ASSUME MindOK, NEW s \in Spells, NEW t \in Fighters, NEW n
    PROVE  /\ Agree(MemoryShaken(s, t, n), DeclaredShaken(s, t), BookShaken(s, t, n), Heroes \ loose)
           /\ \A c \in Heroes : ~(Kind[s] = Harm /\ t = c) =>
                  /\ MemoryShaken(s, t, n)[c] = memory[c] /\ DeclaredShaken(s, t)[c] = declared[c]
                  /\ BookShaken(s, t, n)[c] = book[c]
<1>1. CASE Kind[s] = Harm
  BY <1>1, WoundKeepsAgreement DEF MemoryShaken, DeclaredShaken, BookShaken, Shaken, MindOK
<1>2. CASE Kind[s] # Harm
  BY <1>2, AgreeIsMindOK DEF MemoryShaken, DeclaredShaken, BookShaken
<1> QED
  BY <1>1, <1>2

LEMMA StrikingIsTyped ==
    ASSUME NEW f \in [Spells -> Nat], NEW s \in Spells
    PROVE  /\ Struck(f, s) \in [Spells -> Nat]
           /\ f[s] > 0 => \A x \in Spells : Struck(f, s)[x] = IF x = s THEN f[s] - 1 ELSE f[x]
BY DEF Struck

\* A caster who holds the spell and pays for it once keeps his book.
LEMMA EffectBalances ==
    ASSUME MindOK, NEW c \in Heroes, NEW s \in Spells, NEW t \in Fighters, NEW n,
           TakesEffect(c, s, t, n),
           c \notin loose => memory[c][s] > 0,
           \/ memory' = [MemoryShaken(s, t, n) EXCEPT ![c] = Struck(memory[c], s)]
           \/ memory' = [MemoryShaken(s, t, n) EXCEPT ![c] = Struck(@, s)],
           \/ declared' = DeclaredShaken(s, t) /\ (c \notin loose => declared[c] = NoCast)
           \/ declared' = [DeclaredShaken(s, t) EXCEPT ![c] = NoCast]
    PROVE  MindOK'
<1> DEFINE m == MemoryShaken(s, t, n)
           d == DeclaredShaken(s, t)
           b == BookShaken(s, t, n)
<1>1. /\ Agree(m, d, b, Heroes \ loose)
      /\ ~(Kind[s] = Harm /\ t = c) => m[c] = memory[c] /\ d[c] = declared[c] /\ b[c] = book[c]
  <2>1. Agree(m, d, b, Heroes \ loose)
    BY EffectShakes
  <2>2. ~(Kind[s] = Harm /\ t = c) => m[c] = memory[c] /\ d[c] = declared[c] /\ b[c] = book[c]
    BY EffectShakes
  <2> QED
    BY <2>1, <2>2
<1>2. book' = [b EXCEPT ![c][s] = @ + 1]
      /\ loose' = IF Kind[s] = Harm /\ t = c THEN loose \cup {c} ELSE loose
  BY DEF TakesEffect
<1>3. /\ memory' = [m EXCEPT ![c] = Struck(memory[c], s)] \/ memory' = [m EXCEPT ![c] = Struck(m[c], s)]
      /\ \/ declared' = d /\ (c \notin loose => declared[c] = NoCast)
         \/ declared' = [d EXCEPT ![c] = NoCast]
      /\ NoCast \in Casts
  BY DEF Casts
<1> HIDE DEF m, d, b
<1>4. /\ m \in [Heroes -> [Spells -> Nat]] /\ d \in [Heroes -> Casts] /\ b \in [Heroes -> [Spells -> Nat]]
      /\ memory[c] \in [Spells -> Nat] /\ m[c] \in [Spells -> Nat] /\ b[c] \in [Spells -> Nat]
  BY <1>1 DEF Agree, MindOK
<1>5. memory' \in [Heroes -> [Spells -> Nat]]
  <2>1. Struck(memory[c], s) \in [Spells -> Nat] /\ Struck(m[c], s) \in [Spells -> Nat]
    BY <1>4, StrikingIsTyped
  <2> QED
    BY <1>3, <1>4, <2>1
<1>6. declared' \in [Heroes -> Casts]
  BY <1>3, <1>4
<1>7. book' \in [Heroes -> [Spells -> Nat]]
  BY <1>2, <1>4
<1>8. loose' \subseteq Heroes /\ loose \subseteq loose'
  BY <1>2 DEF MindOK
<1>9. ASSUME NEW x \in Heroes \ loose', x # c
      PROVE  /\ declared'[x] # NoCast => memory'[x][declared'[x][1]] > 0
             /\ \A y \in Spells : memory'[x][y] + book'[x][y] = Slots[x][y]
  <2>1. x \in Heroes \ loose /\ memory'[x] = m[x] /\ declared'[x] = d[x] /\ book'[x] = b[x]
    BY <1>2, <1>3, <1>4, <1>8, <1>9
  <2> QED
    BY <1>1, <2>1 DEF Agree
<1>10. ASSUME c \notin loose'
       PROVE  declared'[c] = NoCast /\ \A y \in Spells : memory'[c][y] + book'[c][y] = Slots[c][y]
  <2>1. c \notin loose /\ m[c] = memory[c] /\ d[c] = declared[c] /\ b[c] = book[c]
    BY <1>1, <1>2, <1>10
  <2>2. memory'[c] = Struck(memory[c], s)
    BY <1>3, <1>4, <2>1
  <2>3. declared'[c] = NoCast
    BY <1>3, <1>4, <2>1
  <2>4. \A y \in Spells : book'[c][y] = IF y = s THEN book[c][s] + 1 ELSE book[c][y]
    BY <1>2, <1>4, <2>1
  <2>5. \A y \in Spells : memory'[c][y] = IF y = s THEN memory[c][s] - 1 ELSE memory[c][y]
    BY <1>4, <2>1, <2>2, StrikingIsTyped
  <2>6. ASSUME NEW y \in Spells PROVE memory'[c][y] + book'[c][y] = Slots[c][y]
    <3>1. memory[c][y] \in Nat /\ book[c][y] \in Nat /\ memory[c][y] + book[c][y] = Slots[c][y]
      BY <2>1 DEF MindOK, SlotsAddUp
    <3> QED
      BY <2>4, <2>5, <3>1
  <2> QED
    BY <2>3, <2>6
<1> QED
  BY <1>5, <1>6, <1>7, <1>8, <1>9, <1>10 DEF MindOK, SlotIsReserved, SlotsAddUp

-----------------------------------------------------------------------------
(* Between two rounds *)

\* What the handler promises holds between two rounds while it is left alone and
\* whoever has a declaration is in the fight.
LEMMA BetweenKeepsBell ==
    ASSUME BellOK, Between, UNCHANGED bell,
           \A c \in Heroes \ loose' : declared'[c] # NoCast => InCombat(c)
    PROVE  BellOK'
<1>1. running' = running /\ combatants' = combatants /\ turn' = 0 /\ turn = 0 /\ living' = living
  BY DEF bell, Between
<1>2. Fighting' = Fighting
  BY <1>1 DEF Fighting
<1> QED
  BY <1>1, <1>2 DEF BellOK, CastingMeansFighting, InCombat, SettledSoFar

LEMMA AttackKeeps ==
    ASSUME IInv, NEW a \in Heroes, NEW t \in Fighters, Attack(a, t) PROVE IInv'
<1>1. BodyOK /\ MindOK /\ BellOK
  BY Parts
<1>2. PICK n \in Rolls : /\ Wound(t, n)
                         /\ memory' = Shaken(memory, MemoryAfter(t, n), t)
                         /\ book' = Shaken(book, BookAfter(t, n), t)
  BY DEF Attack
<1>3. declared' = Shaken(declared, NoCast, t) /\ loose' = loose /\ UNCHANGED bell /\ Between
  BY DEF Attack
<1>4. BodyOK'
  BY <1>1, <1>2, WoundKeepsBodies
<1>5. Agree(memory', declared', book', Heroes \ loose')
  BY <1>1, <1>2, <1>3, WoundKeepsAgreement
<1>6. MindOK'
  BY <1>1, <1>3, <1>5 DEF MindOK, Agree, SlotIsReserved, SlotsAddUp
<1>7. \A c \in Heroes \ loose' : declared'[c] # NoCast => InCombat(c)
  BY <1>1, <1>3 DEF BellOK, CastingMeansFighting, Shaken, MindOK
<1> QED
  BY <1>1, <1>3, <1>4, <1>6, <1>7, BetweenKeepsBell, PartsNext

LEMMA RestKeeps ==
    ASSUME IInv, NEW c \in Heroes, Rest(c) PROVE IInv'
<1>1. BodyOK /\ MindOK /\ BellOK
  BY Parts
<1>2. /\ memory' = [memory EXCEPT ![c] = Slots[c]] /\ book' = [book EXCEPT ![c] = NoSpells]
      /\ declared' = declared /\ Between /\ UNCHANGED bell
      /\ loose' = IF declared[c] = NoCast THEN loose \ {c} ELSE loose
  BY DEF Rest
<1>3. /\ Slots[c] \in [Spells -> Nat] /\ NoSpells \in [Spells -> Nat]
      /\ \A s \in Spells : NoSpells[s] = 0
  BY FightAssumption DEF NoSpells
<1>4. BodyOK'
  BY <1>1 DEF Rest, body, BodyOK, HeroesLive, Alive
<1>5. /\ memory' \in [Heroes -> [Spells -> Nat]] /\ book' \in [Heroes -> [Spells -> Nat]]
      /\ declared' \in [Heroes -> Casts] /\ loose' \subseteq Heroes
  BY <1>1, <1>2, <1>3 DEF MindOK
<1>6. \A s \in Spells : memory'[c][s] + book'[c][s] = Slots[c][s]
  BY <1>1, <1>2, <1>3 DEF MindOK
<1>7. ASSUME c \notin loose', declared[c] # NoCast PROVE memory'[c][declared[c][1]] > 0
  <2>1. c \notin loose /\ memory[c][declared[c][1]] > 0 /\ declared[c][1] \in Spells
    BY <1>1, <1>2, <1>7, ACastHasASpell DEF MindOK, SlotIsReserved
  <2>2. /\ memory[c][declared[c][1]] \in Nat /\ book[c][declared[c][1]] \in Nat
        /\ memory[c][declared[c][1]] + book[c][declared[c][1]] = Slots[c][declared[c][1]]
    BY <1>1, <2>1 DEF MindOK, SlotsAddUp
  <2>3. memory'[c] = Slots[c]
    BY <1>1, <1>2 DEF MindOK
  <2> QED
    BY <2>1, <2>2, <2>3
<1>8. ASSUME NEW x \in Heroes \ loose', x # c
      PROVE  /\ declared'[x] # NoCast => memory'[x][declared'[x][1]] > 0
             /\ \A s \in Spells : memory'[x][s] + book'[x][s] = Slots[x][s]
  <2>1. x \notin loose /\ memory'[x] = memory[x] /\ book'[x] = book[x] /\ declared'[x] = declared[x]
    BY <1>1, <1>2, <1>8 DEF MindOK
  <2> QED
    BY <1>1, <2>1 DEF MindOK, SlotIsReserved, SlotsAddUp
<1>9. MindOK'
  BY <1>2, <1>5, <1>6, <1>7, <1>8 DEF MindOK, SlotIsReserved, SlotsAddUp
<1>10. \A x \in Heroes \ loose' : declared'[x] # NoCast => InCombat(x)
  BY <1>1, <1>2 DEF BellOK, CastingMeansFighting
<1> QED
  BY <1>1, <1>2, <1>4, <1>9, <1>10, BetweenKeepsBell, PartsNext

LEMMA MoveKeeps ==
    ASSUME IInv, NEW c \in Heroes, Move(c) PROVE IInv'
<1>1. BodyOK /\ MindOK /\ BellOK
  BY Parts
<1>2. BodyOK'
  BY <1>1 DEF Move, BodyOK, HeroesLive, Alive
<1>3. MindOK' /\ BellOK'
  BY <1>1 DEF Move, mind, bell, MindOK, SlotIsReserved, SlotsAddUp, BellOK, CastingMeansFighting,
              InCombat, Fighting, SettledSoFar
<1> QED
  BY <1>2, <1>3, PartsNext

LEMMA CastKeeps ==
    ASSUME IInv, NEW c \in Heroes, NEW s \in Spells, NEW t \in Fighters, NEW n \in Rolls, Cast(c, s, t, n)
    PROVE  IInv'
<1>1. BodyOK /\ MindOK /\ BellOK
  BY Parts
<1>2. /\ Between /\ ~InCombat(c) /\ memory[c][s] > 0 /\ TakesEffect(c, s, t, n) /\ UNCHANGED bell
      /\ memory' = [MemoryShaken(s, t, n) EXCEPT ![c] = Struck(memory[c], s)]
      /\ declared' = DeclaredShaken(s, t)
  BY DEF Cast
<1>3. c \notin loose => declared[c] = NoCast
  BY <1>1, <1>2 DEF BellOK, CastingMeansFighting
<1>4. BodyOK' /\ MindOK'
  BY <1>1, <1>2, <1>3, EffectKeepsBodies, EffectBalances
<1>5. loose \subseteq loose'
  BY <1>2 DEF TakesEffect
<1>6. \A x \in Heroes \ loose' : declared'[x] # NoCast => InCombat(x)
  BY <1>1, <1>2, <1>5 DEF DeclaredShaken, Shaken, MindOK, BellOK, CastingMeansFighting
<1> QED
  BY <1>1, <1>2, <1>4, <1>6, BetweenKeepsBell, PartsNext

LEMMA DeclareKeeps ==
    ASSUME IInv, NEW c \in Heroes, NEW s \in Spells, NEW t \in Fighters, Declare(c, s, t)
    PROVE  IInv'
<1>1. BodyOK /\ MindOK /\ BellOK
  BY Parts
<1>2. /\ Between /\ InCombat(c) /\ memory[c][s] > 0
      /\ declared' = [declared EXCEPT ![c] = <<s, t>>]
      /\ UNCHANGED <<body, memory, book, loose, bell>>
  BY DEF Declare
<1>3. BodyOK'
  BY <1>1, <1>2 DEF body, BodyOK, HeroesLive, Alive
<1>4. declared' \in [Heroes -> Casts]
  BY <1>1, <1>2, CastsAreTwoLong DEF MindOK
<1>5. \A x \in Heroes : declared'[x] = IF x = c THEN <<s, t>> ELSE declared[x]
  BY <1>1, <1>2 DEF MindOK
<1>6. SlotIsReserved'
  BY <1>1, <1>2, <1>5 DEF MindOK, SlotIsReserved
<1>7. MindOK'
  BY <1>1, <1>2, <1>4, <1>6 DEF MindOK, SlotsAddUp
<1>8. \A x \in Heroes \ loose' : declared'[x] # NoCast => InCombat(x)
  BY <1>1, <1>2, <1>5 DEF BellOK, CastingMeansFighting
<1> QED
  BY <1>1, <1>2, <1>3, <1>7, <1>8, BetweenKeepsBell, PartsNext

\* Whoever is in the fight stays in it and no mind changes: beginning and joining.
LEMMA JoiningKeeps ==
    ASSUME IInv, Between, UNCHANGED <<body, mind, turn, living>>, running',
           combatants' \in Seq(Fighters), running => Fighting \subseteq Fighting'
    PROVE  IInv'
<1>1. BodyOK /\ MindOK /\ BellOK
  BY Parts
<1>2. BodyOK' /\ MindOK'
  BY <1>1 DEF body, mind, BodyOK, HeroesLive, Alive, MindOK, SlotIsReserved, SlotsAddUp
<1>3. turn' = 0 /\ living' = {} /\ Len(combatants') \in Nat
  BY <1>1 DEF Between, BellOK, SettledSoFar
<1>4. turn' \in 0 .. Len(combatants') + 1
  BY <1>3
<1>5. CastingMeansFighting'
  BY <1>1 DEF BellOK, CastingMeansFighting, InCombat, mind
<1>6. BellOK'
  BY <1>1, <1>3, <1>4, <1>5 DEF BellOK, SettledSoFar
<1> QED
  BY <1>2, <1>6, PartsNext

LEMMA BeginKeeps ==
    ASSUME IInv, NEW line \in LineUps, Begin(line) PROVE IInv'
<1>1. line \in Seq(Fighters)
  <2>1. IsFiniteSet(Fighters)
    BY FightAssumption
  <2>2. Cardinality(Fighters) \in Nat
    BY <2>1, FS_CardinalityType
  <2>3. PICK k \in 2 .. Cardinality(Fighters) : line \in [1 .. k -> Fighters]
    BY DEF LineUps
  <2> QED
    BY <2>2, <2>3
<1> QED
  BY <1>1, JoiningKeeps DEF Begin

LEMMA AddCombatantKeeps ==
    ASSUME IInv, NEW c \in Fighters, AddCombatant(c) PROVE IInv'
<1>1. combatants \in Seq(Fighters) /\ running \in BOOLEAN /\ combatants' = Append(combatants, c)
  BY DEF IInv, TypeOK, AddCombatant
<1>2. combatants' \in Seq(Fighters)
  BY <1>1
<1>3. Fighting \subseteq Fighting'
  BY <1>1 DEF Fighting
<1> QED
  BY <1>2, <1>3, JoiningKeeps DEF AddCombatant

LEMMA RemoveCombatantKeeps ==
    ASSUME IInv, NEW c \in Fighters, RemoveCombatant(c) PROVE IInv'
<1>1. BodyOK /\ MindOK /\ BellOK
  BY Parts
<1>2. PICK i \in DOMAIN combatants :
          /\ combatants[i] = c
          /\ combatants' = [k \in 1 .. Len(combatants) - 1 |-> combatants[IF k < i THEN k ELSE k + 1]]
  BY DEF RemoveCombatant
<1>3. /\ Between /\ running /\ UNCHANGED <<body, memory, declared, book, running, turn, living>>
      /\ loose' = IF c \in Heroes /\ declared[c] # NoCast THEN loose \cup {c} ELSE loose
  BY DEF RemoveCombatant
<1>4. combatants \in Seq(Fighters) /\ i \in 1 .. Len(combatants) /\ Len(combatants) \in Nat
  BY <1>1 DEF BellOK
<1>5. ASSUME NEW k \in 1 .. Len(combatants) - 1
      PROVE  combatants[IF k < i THEN k ELSE k + 1] \in Fighters
  <2>1. (IF k < i THEN k ELSE k + 1) \in 1 .. Len(combatants)
    BY <1>4
  <2> QED
    BY <1>4, <2>1
<1>6. combatants' \in Seq(Fighters) /\ DOMAIN combatants' = 1 .. Len(combatants) - 1
  <2>1. Len(combatants) - 1 \in Nat
    BY <1>4
  <2>2. combatants' \in [1 .. Len(combatants) - 1 -> Fighters]
    BY <1>2, <1>5
  <2> QED
    BY <2>1, <2>2
<1>7. ASSUME NEW j \in DOMAIN combatants, j # i
      PROVE  \E k \in DOMAIN combatants' : combatants'[k] = combatants[j]
  <2>0. j \in 1 .. Len(combatants)
    BY <1>4
  <2>1. CASE j < i
    <3>1. j \in 1 .. Len(combatants) - 1
      BY <1>4, <2>0, <2>1
    <3>2. combatants'[j] = combatants[j]
      BY <1>2, <2>1, <3>1
    <3> QED
      BY <1>6, <3>1, <3>2
  <2>2. CASE j > i
    <3>1. j - 1 \in 1 .. Len(combatants) - 1 /\ ~(j - 1 < i) /\ (j - 1) + 1 = j
      BY <1>4, <2>0, <2>2
    <3>2. combatants'[j - 1] = combatants[(j - 1) + 1]
      BY <1>2, <3>1
    <3> QED
      BY <1>6, <3>1, <3>2
  <2> QED
    BY <1>4, <1>7, <2>0, <2>1, <2>2
<1>8. Fighting \ {c} \subseteq Fighting'
  BY <1>2, <1>7 DEF Fighting
<1>9. BodyOK' /\ MindOK'
  BY <1>1, <1>3 DEF body, BodyOK, HeroesLive, Alive, MindOK, SlotIsReserved, SlotsAddUp
<1>10. CastingMeansFighting'
  BY <1>1, <1>3, <1>8 DEF BellOK, CastingMeansFighting, InCombat
<1>11. turn' = 0 /\ living' = {} /\ Len(combatants') \in Nat
  BY <1>1, <1>3, <1>6 DEF Between, BellOK, SettledSoFar
<1>12. turn' \in 0 .. Len(combatants') + 1
  BY <1>11
<1>13. BellOK'
  BY <1>1, <1>3, <1>6, <1>10, <1>11, <1>12 DEF BellOK, SettledSoFar
<1> QED
  BY <1>9, <1>13, PartsNext

-----------------------------------------------------------------------------
(* The round *)

LEMMA AtRepeatKeeps ==
    ASSUME IInv, AtRepeat PROVE IInv'
<1>1. BodyOK /\ MindOK /\ BellOK
  BY Parts
<1>2. /\ Between /\ running /\ turn' = 1 /\ living' = {c \in Fighting : Alive(c)}
      /\ UNCHANGED <<body, mind, running, combatants>>
  BY DEF AtRepeat
<1>3. BodyOK' /\ MindOK'
  BY <1>1, <1>2 DEF body, mind, BodyOK, HeroesLive, Alive, MindOK, SlotIsReserved, SlotsAddUp
<1>4. Fighting' = Fighting
  BY <1>2 DEF Fighting
<1>5. CastingMeansFighting'
  BY <1>1, <1>2, <1>4 DEF BellOK, CastingMeansFighting, InCombat, mind
<1>6. SettledSoFar'
  BY <1>1, <1>2, <1>4 DEF SettledSoFar, BodyOK, HeroesLive
<1>7. Len(combatants') \in Nat
  BY <1>1, <1>2 DEF BellOK
<1>8. turn' \in 0 .. Len(combatants') + 1
  BY <1>2, <1>7
<1> QED
  BY <1>1, <1>2, <1>3, <1>4, <1>5, <1>6, <1>8, PartsNext DEF BellOK

\* The round moves on from a combatant who has no spell pending then.
LEMMA TurnKeepsBell ==
    ASSUME BellOK, UNCHANGED <<running, combatants, living>>, turn' = turn + 1,
           NEW c \in Fighters, Comes(c), c \in Heroes => declared'[c] = NoCast,
           \A x \in Heroes : declared'[x] \in {declared[x], NoCast}, loose \subseteq loose'
    PROVE  BellOK'
<1>1. combatants \in Seq(Fighters) /\ turn \in 1 .. Len(combatants) /\ c = combatants[turn]
  BY DEF BellOK, Comes
<1>2. Fighting' = Fighting
  BY DEF Fighting
<1>3. turn' \in 0 .. Len(combatants') + 1
  BY <1>1
<1>4. CastingMeansFighting'
  BY <1>2 DEF BellOK, CastingMeansFighting, InCombat
<1>5. ASSUME NEW i \in 1 .. turn' - 1, combatants[i] \in Heroes PROVE declared'[combatants[i]] = NoCast
  <2>1. CASE i = turn
    BY <1>1, <1>5, <2>1
  <2>2. CASE i # turn
    <3>1. i \in 1 .. turn - 1 /\ turn > 0
      BY <1>1, <2>2
    <3> QED
      BY <1>5, <3>1 DEF BellOK, SettledSoFar
  <2> QED
    BY <2>1, <2>2
<1>6. SettledSoFar'
  BY <1>1, <1>2, <1>5 DEF BellOK, SettledSoFar
<1> QED
  BY <1>2, <1>3, <1>4, <1>6 DEF BellOK

LEMMA ResolveKeeps ==
    ASSUME IInv, Resolve PROVE IInv'
<1>1. BodyOK /\ MindOK /\ BellOK
  BY Parts
<1>2. PICK c \in Heroes, n \in Rolls : Comes(c) /\ Casting(c) /\ ResolvePendingCast(c, n)
  BY DEF Resolve
<1>3. turn' = turn + 1 /\ UNCHANGED <<running, combatants, living>>
  BY DEF Resolve
<1> DEFINE s == declared[c][1]
           t == declared[c][2]
<1>4. s \in Spells /\ t \in Fighters /\ declared[c] # NoCast /\ c \in Fighters
  BY <1>1, <1>2, ACastHasASpell DEF Casting, MindOK, Fighters
<1>5. CASE /\ TakesEffect(c, s, t, n)
           /\ memory' = [MemoryShaken(s, t, n) EXCEPT ![c] = Struck(@, s)]
           /\ declared' = [DeclaredShaken(s, t) EXCEPT ![c] = NoCast]
  <2>1. c \notin loose => memory[c][s] > 0
    BY <1>1, <1>4 DEF MindOK, SlotIsReserved
  <2>2. BodyOK'
    BY <1>1, <1>4, <1>5, EffectKeepsBodies
  <2>3. MindOK'
    BY <1>1, <1>4, <1>5, <2>1, EffectBalances
  <2>4. DeclaredShaken(s, t) \in [Heroes -> Casts]
    BY <1>1, <1>4, EffectShakes DEF Agree
  <2>5. \A x \in Heroes : DeclaredShaken(s, t)[x] \in {declared[x], NoCast}
    BY <1>1, <1>4 DEF DeclaredShaken, Shaken, MindOK
  <2>6. declared'[c] = NoCast /\ \A x \in Heroes : declared'[x] \in {declared[x], NoCast}
    BY <1>5, <2>4, <2>5
  <2>7. loose \subseteq loose'
    BY <1>5 DEF TakesEffect
  <2>8. BellOK'
    BY <1>1, <1>2, <1>3, <1>4, <2>6, <2>7, TurnKeepsBell
  <2> QED
    BY <2>2, <2>3, <2>8, PartsNext
<1>6. CASE /\ declared' = [declared EXCEPT ![c] = NoCast]
           /\ UNCHANGED <<body, memory, book, loose>>
  <2>1. NoCast \in Casts
    BY DEF Casts
  <2>2. BodyOK' /\ MindOK'
    BY <1>1, <1>6, <2>1 DEF body, BodyOK, HeroesLive, Alive, MindOK, SlotIsReserved, SlotsAddUp
  <2>3. declared'[c] = NoCast /\ \A x \in Heroes : declared'[x] \in {declared[x], NoCast}
    BY <1>1, <1>6 DEF MindOK
  <2>4. BellOK'
    BY <1>1, <1>2, <1>3, <1>4, <1>6, <2>3, TurnKeepsBell
  <2> QED
    BY <2>2, <2>4, PartsNext
<1> QED
  BY <1>2, <1>5, <1>6 DEF ResolvePendingCast

LEMMA PassOverKeeps ==
    ASSUME IInv, PassOver PROVE IInv'
<1>1. BodyOK /\ MindOK /\ BellOK
  BY Parts
<1>2. PICK c \in Fighters : Comes(c) /\ ~Casting(c)
  BY DEF PassOver
<1>3. turn' = turn + 1 /\ UNCHANGED <<body, mind, running, combatants, living>>
  BY DEF PassOver
<1>4. BodyOK' /\ MindOK'
  BY <1>1, <1>3 DEF body, mind, BodyOK, HeroesLive, Alive, MindOK, SlotIsReserved, SlotsAddUp
<1>5. ASSUME c \in Heroes PROVE declared'[c] = NoCast
  <2>1. turn > 0 /\ c \in Fighting
    BY <1>1, <1>2 DEF Comes, BellOK, Fighting
  <2>2. c \in living
    BY <1>1, <1>5, <2>1 DEF BellOK, SettledSoFar
  <2> QED
    BY <1>2, <1>3, <1>5, <2>2 DEF Casting, mind
<1>6. BellOK'
  BY <1>1, <1>2, <1>3, <1>5, TurnKeepsBell DEF mind
<1> QED
  BY <1>4, <1>6, PartsNext

\* When the round is over nobody in the fight has a spell pending, so the handler may stop.
LEMMA EndRoundKeeps ==
    ASSUME IInv, EndRound PROVE IInv'
<1>1. BodyOK /\ MindOK /\ BellOK
  BY Parts
<1>2. /\ turn > Len(combatants) /\ turn' = 0 /\ living' = {} /\ UNCHANGED <<body, mind>>
      /\ running' \in BOOLEAN /\ combatants' = IF running' THEN combatants ELSE <<>>
  BY DEF EndRound
<1>3. BodyOK' /\ MindOK'
  BY <1>1, <1>2 DEF body, mind, BodyOK, HeroesLive, Alive, MindOK, SlotIsReserved, SlotsAddUp
<1>4. combatants \in Seq(Fighters) /\ Len(combatants) \in Nat /\ turn = Len(combatants) + 1
  BY <1>1, <1>2 DEF BellOK
<1>5. combatants' \in Seq(Fighters) /\ Len(combatants') \in Nat
  BY <1>2, <1>4
<1>6. ASSUME NEW c \in Heroes \ loose, declared[c] # NoCast PROVE FALSE
  <2>1. c \in Fighting /\ turn > 0
    BY <1>1, <1>4, <1>6 DEF BellOK, CastingMeansFighting, InCombat
  <2>2. PICK i \in DOMAIN combatants : c = combatants[i]
    BY <2>1 DEF Fighting
  <2>3. i \in 1 .. turn - 1
    BY <1>4, <2>2
  <2> QED
    BY <1>1, <1>6, <2>1, <2>2, <2>3 DEF BellOK, SettledSoFar
<1>7. CastingMeansFighting'
  BY <1>2, <1>6 DEF CastingMeansFighting, mind
<1>8. turn' \in 0 .. Len(combatants') + 1
  BY <1>2, <1>5
<1>9. BellOK'
  BY <1>2, <1>5, <1>7, <1>8 DEF BellOK, SettledSoFar
<1> QED
  BY <1>3, <1>9, PartsNext

-----------------------------------------------------------------------------
(* What the fight does to one caster's book *)

LEMMA PledgeIs ==
    \A x \in Heroes : /\ Pledged[x] = IF declared[x] = NoCast THEN {} ELSE {declared[x][1]}
                      /\ Pledged'[x] = IF declared'[x] = NoCast THEN {} ELSE {declared'[x][1]}
BY DEF Pledged

LEMMA BookIsTyped ==
    ASSUME MindOK PROVE Book!BookTypeOK
<1>1. \A x \in Heroes : declared[x] # NoCast => declared[x][1] \in Spells
  BY ACastHasASpell DEF MindOK
<1>2. Pledged \in [Heroes -> SUBSET Spells]
  BY <1>1 DEF Pledged
<1> QED
  BY <1>2 DEF MindOK, Book!BookTypeOK

LEMMA BookIsTypedNext ==
    ASSUME MindOK' PROVE Book!BookTypeOK'
<1>1. \A x \in Heroes : declared'[x] # NoCast => declared'[x][1] \in Spells
  BY ACastHasASpell DEF MindOK
<1>2. Pledged' \in [Heroes -> SUBSET Spells]
  BY <1>1 DEF Pledged
<1> QED
  BY <1>2 DEF MindOK, Book!BookTypeOK

\* A caster whose list and declaration nobody touches, gone astray or not.
LEMMA UntouchedMoves ==
    ASSUME MindOK, NEW x \in Heroes, memory'[x] = memory[x], declared'[x] = declared[x],
           x \in loose => x \in loose'
    PROVE  Book!Moves(x)
<1>1. \A s \in Spells : memory[x][s] \in Nat
  BY DEF MindOK
<1>2. \A s \in Spells : memory'[x][s] <= memory[x][s]
  BY <1>1
<1> QED
  BY <1>2, PledgeIs DEF Book!Moves, Book!Keeps, Book!GainsNothing

\* Striking a spell from a list makes it no longer.
LEMMA StrikingGainsNothing ==
    ASSUME NEW f \in [Spells -> Nat], NEW s \in Spells, NEW x \in Spells
    PROVE  /\ Struck(f, s)[x] \in Nat /\ Struck(f, s)[x] <= f[x]
           /\ f[s] > 0 => Struck(f, s) = [f EXCEPT ![s] = @ - 1]
<1>1. f[x] \in Nat /\ f[s] \in Nat
  OBVIOUS
<1> QED
  BY <1>1 DEF Struck

LEMMA WoundGainsNothing ==
    ASSUME MindOK, NEW t \in Heroes, NEW n, NEW s \in Spells
    PROVE  MemoryAfter(t, n)[s] \in Nat /\ MemoryAfter(t, n)[s] <= memory[t][s]
<1>1. memory[t] \in [Spells -> Nat] /\ memory[t][s] \in Nat /\ declared[t] \in Casts
  BY DEF MindOK
<1>2. CASE Dies(t, n)
  BY <1>1, <1>2 DEF MemoryAfter, NoSpells
<1>3. CASE ~Dies(t, n) /\ declared[t] # NoCast
  <2>1. declared[t][1] \in Spells
    BY <1>1, <1>3, ACastHasASpell
  <2> QED
    BY <1>1, <1>3, <2>1, StrikingGainsNothing DEF MemoryAfter
<1>4. CASE ~Dies(t, n) /\ declared[t] = NoCast
  BY <1>1, <1>4 DEF MemoryAfter
<1> QED
  BY <1>2, <1>3, <1>4

\* A wound takes everything, or the spell that was declared, or nothing.
LEMMA WoundMoves ==
    ASSUME MindOK, NEW t \in Heroes, NEW n, memory'[t] = MemoryAfter(t, n), declared'[t] = NoCast,
           loose \subseteq loose'
    PROVE  Book!Moves(t)
<1>1. memory[t] \in [Spells -> Nat] /\ declared[t] \in Casts
  BY DEF MindOK
<1>2. CASE t \in loose'
  <2>1. \A s \in Spells : memory'[t][s] <= memory[t][s]
    BY WoundGainsNothing
  <2> QED
    BY <1>2, <2>1 DEF Book!Moves, Book!GainsNothing
<1>3. CASE t \notin loose' /\ Dies(t, n)
  <2>1. memory'[t] = [s \in Spells |-> 0]
    BY <1>3 DEF MemoryAfter, NoSpells
  <2> QED
    BY <1>3, <2>1, PledgeIs DEF Book!Moves, Book!Forget
<1>4. CASE t \notin loose' /\ ~Dies(t, n) /\ declared[t] # NoCast
  <2>1. t \notin loose /\ declared[t][1] \in Spells /\ memory[t][declared[t][1]] > 0
    BY <1>1, <1>4, ACastHasASpell DEF MindOK, SlotIsReserved
  <2>2. memory'[t] = [memory[t] EXCEPT ![declared[t][1]] = @ - 1]
    BY <1>1, <1>4, <2>1, StrikingGainsNothing DEF MemoryAfter
  <2>3. Pledged[t] = {declared[t][1]} /\ Pledged'[t] = {}
    BY <1>4, PledgeIs
  <2>4. Book!Spend(t)
    BY <2>1, <2>2, <2>3 DEF Book!Spend
  <2> QED
    BY <1>4, <2>1, <2>4 DEF Book!Moves
<1>5. CASE t \notin loose' /\ ~Dies(t, n) /\ declared[t] = NoCast
  <2>1. memory'[t] = memory[t]
    BY <1>5 DEF MemoryAfter
  <2> QED
    BY <1>5, <2>1, UntouchedMoves
<1> QED
  BY <1>2, <1>3, <1>4, <1>5

\* Whoever is struck by another's spell is wounded by it; nobody else notices.
LEMMA OthersMove ==
    ASSUME MindOK, NEW c \in Heroes, NEW s \in Spells, NEW t \in Fighters, NEW n,
           NEW m, memory' = [MemoryShaken(s, t, n) EXCEPT ![c] = m],
           \/ declared' = DeclaredShaken(s, t)
           \/ declared' = [DeclaredShaken(s, t) EXCEPT ![c] = NoCast],
           loose \subseteq loose', NEW x \in Heroes, x # c
    PROVE  Book!Moves(x)
<1>1. memory'[x] = MemoryShaken(s, t, n)[x] /\ declared'[x] = DeclaredShaken(s, t)[x]
  <2>1. /\ MemoryShaken(s, t, n) \in [Heroes -> [Spells -> Nat]]
        /\ DeclaredShaken(s, t) \in [Heroes -> Casts]
    BY EffectShakes DEF Agree
  <2> QED
    BY <2>1
<1>2. CASE Kind[s] = Harm /\ t = x
  <2>1. memory'[x] = MemoryAfter(x, n) /\ declared'[x] = NoCast
    BY <1>1, <1>2 DEF MemoryShaken, DeclaredShaken, Shaken, MindOK
  <2> QED
    BY <2>1, WoundMoves
<1>3. CASE ~(Kind[s] = Harm /\ t = x)
  <2>1. memory'[x] = memory[x] /\ declared'[x] = declared[x]
    BY <1>1, <1>3, EffectShakes
  <2> QED
    BY <2>1, UntouchedMoves
<1> QED
  BY <1>2, <1>3

\* The caster pays once, unless he strikes himself, and then he still gains nothing.
LEMMA CasterMoves ==
    ASSUME MindOK, NEW c \in Heroes, NEW s \in Spells, NEW t \in Fighters, NEW n,
           TakesEffect(c, s, t, n),
           c \notin loose => memory[c][s] > 0,
           \/ memory' = [MemoryShaken(s, t, n) EXCEPT ![c] = Struck(memory[c], s)]
           \/ memory' = [MemoryShaken(s, t, n) EXCEPT ![c] = Struck(@, s)],
           \/ declared' = DeclaredShaken(s, t) /\ (c \notin loose => declared[c] = NoCast)
           \/ /\ declared' = [DeclaredShaken(s, t) EXCEPT ![c] = NoCast]
              /\ declared[c] # NoCast /\ declared[c][1] = s
    PROVE  Book!Moves(c)
<1> DEFINE m == MemoryShaken(s, t, n)
           d == DeclaredShaken(s, t)
<1>1. /\ m \in [Heroes -> [Spells -> Nat]] /\ d \in [Heroes -> Casts]
      /\ memory[c] \in [Spells -> Nat] /\ m[c] \in [Spells -> Nat]
      /\ ~(Kind[s] = Harm /\ t = c) => m[c] = memory[c] /\ d[c] = declared[c]
  <2>1. m \in [Heroes -> [Spells -> Nat]] /\ d \in [Heroes -> Casts]
    BY EffectShakes DEF Agree
  <2>2. ~(Kind[s] = Harm /\ t = c) => m[c] = memory[c] /\ d[c] = declared[c]
    BY EffectShakes
  <2> QED
    BY <2>1, <2>2 DEF MindOK
<1>2. loose' = IF Kind[s] = Harm /\ t = c THEN loose \cup {c} ELSE loose
  BY DEF TakesEffect
<1>3. \A x \in Spells : m[c][x] \in Nat /\ m[c][x] <= memory[c][x]
  <2>1. CASE Kind[s] = Harm /\ t = c
    <3>1. m[c] = MemoryAfter(c, n)
      BY <2>1 DEF MemoryShaken, Shaken, MindOK
    <3> QED
      BY <3>1, WoundGainsNothing
  <2>2. CASE ~(Kind[s] = Harm /\ t = c)
    BY <1>1, <2>2
  <2> QED
    BY <2>1, <2>2
<1>4. memory'[c] \in {Struck(memory[c], s), Struck(m[c], s)}
  BY <1>1
<1>5. \A x \in Spells : memory'[c][x] <= memory[c][x]
  <2> SUFFICES ASSUME NEW x \in Spells PROVE memory'[c][x] <= memory[c][x]
    OBVIOUS
  <2>1. Struck(memory[c], s)[x] \in Nat /\ Struck(memory[c], s)[x] <= memory[c][x]
    BY <1>1, StrikingGainsNothing
  <2>2. Struck(m[c], s)[x] \in Nat /\ Struck(m[c], s)[x] <= m[c][x]
    BY <1>1, StrikingGainsNothing
  <2>3. memory[c][x] \in Nat /\ m[c][x] \in Nat /\ m[c][x] <= memory[c][x]
    BY <1>1, <1>3
  <2> HIDE DEF m
  <2> QED
    BY <1>4, <2>1, <2>2, <2>3
<1>6. CASE c \in loose'
  BY <1>5, <1>6 DEF Book!Moves, Book!GainsNothing
<1>7. CASE c \notin loose'
  <2>1. c \notin loose /\ m[c] = memory[c] /\ d[c] = declared[c] /\ memory[c][s] > 0
    BY <1>1, <1>2, <1>7
  <2>2. memory'[c] = [memory[c] EXCEPT ![s] = @ - 1]
    BY <1>1, <1>4, <2>1, StrikingGainsNothing
  <2>3. Pledged[c] \subseteq {s} /\ Pledged'[c] = {}
    <3>1. declared'[c] = NoCast /\ (declared[c] = NoCast \/ declared[c][1] = s)
      BY <1>1, <2>1
    <3> QED
      BY <3>1, PledgeIs
  <2>4. Book!Spend(c)
    BY <2>1, <2>2, <2>3 DEF Book!Spend
  <2> QED
    BY <1>7, <2>1, <2>4 DEF Book!Moves
<1> QED
  BY <1>6, <1>7

-----------------------------------------------------------------------------
(* The theorems *)

LEMMA InitHolds == Init => IInv
<1> SUFFICES ASSUME Init PROVE IInv
  OBVIOUS
<1>1. \A c \in Fighters : HitPoints[c] \in Nat \ {0}
  BY FightAssumption
<1>2. Cave \in Rooms /\ HitPoints \in [Fighters -> Nat]
  BY FightAssumption
<1>3. BodyOK
  BY <1>1, <1>2 DEF Init, BodyOK, HeroesLive, Alive, Fighters
<1>4. NoSpells \in [Spells -> Nat] /\ \A s \in Spells : NoSpells[s] = 0
  BY DEF NoSpells
<1>5. \A c \in Heroes, s \in Spells : Slots[c] \in [Spells -> Nat] /\ 0 + Slots[c][s] = Slots[c][s]
  BY FightAssumption
<1>6. /\ memory = [c \in Heroes |-> NoSpells] /\ declared = [c \in Heroes |-> NoCast]
      /\ book = Slots /\ loose = {} /\ NoCast \in Casts /\ Slots \in [Heroes -> [Spells -> Nat]]
  BY FightAssumption DEF Init, Casts
<1>7. MindOK
  BY <1>4, <1>5, <1>6 DEF MindOK, SlotIsReserved, SlotsAddUp
<1>8. /\ running = FALSE /\ combatants = <<>> /\ turn = 0 /\ living = {}
      /\ \A c \in Heroes : declared[c] = NoCast
  BY DEF Init
<1>9. BellOK
  <2>1. combatants \in Seq(Fighters) /\ Len(combatants) = 0
    BY <1>8
  <2>2. turn \in 0 .. Len(combatants) + 1 /\ living \subseteq Fighting
    BY <1>8, <2>1
  <2>3. CastingMeansFighting
    BY <1>8 DEF CastingMeansFighting
  <2>4. SettledSoFar
    BY <1>8 DEF SettledSoFar
  <2> QED
    BY <1>8, <2>1, <2>2, <2>3, <2>4 DEF BellOK
<1> QED
  BY <1>3, <1>7, <1>9, Parts

LEMMA StepHolds == IInv /\ [Next]_vars => IInv'
<1> SUFFICES ASSUME IInv, [Next]_vars PROVE IInv'
  OBVIOUS
<1>1. ASSUME NEW a \in Heroes, NEW t \in Fighters, Attack(a, t) PROVE IInv'
  BY <1>1, AttackKeeps
<1>2. ASSUME NEW c \in Heroes, Rest(c) \/ Move(c) PROVE IInv'
  BY <1>2, RestKeeps, MoveKeeps
<1>3. ASSUME NEW c \in Heroes, NEW s \in Spells, NEW t \in Fighters, Declare(c, s, t) PROVE IInv'
  BY <1>3, DeclareKeeps
<1>4. ASSUME NEW c \in Heroes, NEW s \in Spells, NEW t \in Fighters, NEW n \in Rolls, Cast(c, s, t, n)
      PROVE  IInv'
  BY <1>4, CastKeeps
<1>5. ASSUME NEW line \in LineUps, Begin(line) PROVE IInv'
  BY <1>5, BeginKeeps
<1>6. ASSUME NEW c \in Fighters, AddCombatant(c) \/ RemoveCombatant(c) PROVE IInv'
  BY <1>6, AddCombatantKeeps, RemoveCombatantKeeps
<1>7. ASSUME AtRepeat \/ Resolve \/ PassOver \/ EndRound PROVE IInv'
  BY <1>7, AtRepeatKeeps, ResolveKeeps, PassOverKeeps, EndRoundKeeps
<1>8. CASE UNCHANGED vars
  <2>1. UNCHANGED <<body, mind, bell>>
    BY <1>8 DEF vars
  <2> QED
    BY <2>1 DEF body, mind, bell, IInv, TypeOK, HeroesLive, Alive, SlotIsReserved, SlotsAddUp,
                CastingMeansFighting, InCombat, Fighting, SettledSoFar
<1> QED
  BY <1>1, <1>2, <1>3, <1>4, <1>5, <1>6, <1>7, <1>8 DEF Next

\* Hit points, lists, declarations, the handler and its round stay in agreement through
\* every command and every step of a round (commands/spells.py, apply_damage, CombatHandler).
THEOREM Inductive == Spec => []IInv
<1> QED
  BY InitHolds, StepHolds, PTL DEF Spec

\* Every variable keeps its type, and nobody has more hit points than his maximum.
THEOREM TypeCorrect == Spec => []TypeOK
<1>1. IInv => TypeOK
  BY DEF IInv
<1> QED
  BY <1>1, Inductive, PTL

\* A declared spell still has its slot when it is resolved or spoiled (CmdCast).
THEOREM ReservationHolds == Spec => []SlotIsReserved
<1>1. IInv => SlotIsReserved
  BY DEF IInv
<1> QED
  BY <1>1, Inductive, PTL

\* Spells held and spells cast, spoiled or forgotten make up what the last rest
\* prepared (CmdRest, resolve_pending_cast, apply_damage, _default_death).
THEOREM BooksBalance == Spec => []SlotsAddUp
<1>1. IInv => SlotsAddUp
  BY DEF IInv
<1> QED
  BY <1>1, Inductive, PTL

\* A declaration lives only in a running fight (CombatHandler.at_stop).
THEOREM NoStaleDeclaration == Spec => []CastingMeansFighting
<1>1. IInv => CastingMeansFighting
  BY DEF IInv
<1> QED
  BY <1>1, Inductive, PTL

LEMMA EveryStepMovesBooks ==
    ASSUME IInv, Next, NEW x \in Heroes PROVE Book!Moves(x)
<1>1. MindOK /\ BellOK
  BY Parts
<1>2. ASSUME NEW a \in Heroes, NEW t \in Fighters, Attack(a, t) PROVE Book!Moves(x)
  <2>1. PICK n \in Rolls : memory' = Shaken(memory, MemoryAfter(t, n), t)
    BY <1>2 DEF Attack
  <2>2. declared' = Shaken(declared, NoCast, t) /\ loose' = loose
    BY <1>2 DEF Attack
  <2>3. CASE x = t
    <3>1. memory'[x] = MemoryAfter(x, n) /\ declared'[x] = NoCast
      BY <1>1, <2>1, <2>2, <2>3 DEF Shaken, MindOK
    <3> QED
      BY <1>1, <2>2, <3>1, WoundMoves
  <2>4. CASE x # t
    <3>1. memory'[x] = memory[x] /\ declared'[x] = declared[x]
      BY <1>1, <2>1, <2>2, <2>4 DEF Shaken, MindOK
    <3> QED
      BY <1>1, <2>2, <3>1, UntouchedMoves
  <2> QED
    BY <2>3, <2>4
<1>3. ASSUME NEW c \in Heroes, Rest(c) PROVE Book!Moves(x)
  <2>1. /\ memory' = [memory EXCEPT ![c] = Slots[c]] /\ declared' = declared
        /\ loose' = IF declared[c] = NoCast THEN loose \ {c} ELSE loose
    BY <1>3 DEF Rest
  <2>2. CASE x = c
    <3>1. memory'[x] = Slots[x] /\ Pledged'[x] = Pledged[x]
      BY <1>1, <2>1, <2>2, PledgeIs DEF MindOK
    <3>2. x \in loose \ loose' => Pledged'[x] = {}
      BY <2>1, <2>2, PledgeIs
    <3> QED
      BY <2>1, <3>1, <3>2 DEF Book!Moves, Book!Prepare
  <2>3. CASE x # c
    BY <1>1, <2>1, <2>3, UntouchedMoves DEF MindOK
  <2> QED
    BY <2>2, <2>3
<1>4. ASSUME UNCHANGED <<memory, declared>>, loose \subseteq loose' PROVE Book!Moves(x)
  BY <1>1, <1>4, UntouchedMoves
<1>5. ASSUME NEW c \in Heroes, NEW s \in Spells, NEW t \in Fighters, Declare(c, s, t)
      PROVE  Book!Moves(x)
  <2>1. /\ memory[c][s] > 0 /\ declared[c] = NoCast /\ memory' = memory /\ loose' = loose
        /\ declared' = [declared EXCEPT ![c] = <<s, t>>]
    BY <1>5 DEF Declare
  <2>2. CASE x = c
    <3>1. declared'[x] = <<s, t>> /\ <<s, t>> # NoCast /\ <<s, t>>[1] = s
      BY <1>1, <2>1, <2>2, CastsAreTwoLong DEF MindOK
    <3>2. Pledged[x] = {} /\ Pledged'[x] = {s} /\ memory'[x] = memory[x]
      BY <2>1, <2>2, <3>1, PledgeIs
    <3>3. CASE x \in loose
      <4>1. \A y \in Spells : memory[x][y] \in Nat
        BY <1>1 DEF MindOK
      <4>2. \A y \in Spells : memory'[x][y] <= memory[x][y]
        BY <3>2, <4>1
      <4> QED
        BY <2>1, <3>3, <4>2 DEF Book!Moves, Book!GainsNothing
    <3>4. CASE x \notin loose
      BY <2>1, <2>2, <3>2, <3>4 DEF Book!Moves, Book!Pledge
    <3> QED
      BY <3>3, <3>4
  <2>3. CASE x # c
    BY <1>1, <2>1, <2>3, UntouchedMoves DEF MindOK
  <2> QED
    BY <2>2, <2>3
<1>6. ASSUME NEW c \in Heroes, NEW s \in Spells, NEW t \in Fighters, NEW n \in Rolls, Cast(c, s, t, n)
      PROVE  Book!Moves(x)
  <2>1. /\ ~InCombat(c) /\ memory[c][s] > 0 /\ TakesEffect(c, s, t, n)
        /\ memory' = [MemoryShaken(s, t, n) EXCEPT ![c] = Struck(memory[c], s)]
        /\ declared' = DeclaredShaken(s, t)
    BY <1>6 DEF Cast
  <2>2. c \notin loose => declared[c] = NoCast
    BY <1>1, <2>1 DEF BellOK, CastingMeansFighting
  <2>3. loose \subseteq loose'
    BY <2>1 DEF TakesEffect
  <2>4. CASE x = c
    BY <1>1, <2>1, <2>2, <2>4, CasterMoves
  <2>5. CASE x # c
    BY <1>1, <2>1, <2>3, <2>5, OthersMove
  <2> QED
    BY <2>4, <2>5
<1>7. ASSUME Resolve PROVE Book!Moves(x)
  <2>1. PICK c \in Heroes, n \in Rolls : Casting(c) /\ ResolvePendingCast(c, n)
    BY <1>7 DEF Resolve
  <2> DEFINE s == declared[c][1]
             t == declared[c][2]
  <2>2. s \in Spells /\ t \in Fighters /\ declared[c] # NoCast
    BY <1>1, <2>1, ACastHasASpell DEF Casting, MindOK
  <2>3. CASE /\ TakesEffect(c, s, t, n)
             /\ memory' = [MemoryShaken(s, t, n) EXCEPT ![c] = Struck(@, s)]
             /\ declared' = [DeclaredShaken(s, t) EXCEPT ![c] = NoCast]
    <3>1. c \notin loose => memory[c][s] > 0
      BY <1>1, <2>2 DEF MindOK, SlotIsReserved
    <3>2. loose \subseteq loose'
      BY <2>3 DEF TakesEffect
    <3>3. CASE x = c
      BY <1>1, <2>2, <2>3, <3>1, <3>3, CasterMoves
    <3>4. CASE x # c
      BY <1>1, <2>2, <2>3, <3>2, <3>4, OthersMove
    <3> QED
      BY <3>3, <3>4
  <2>4. CASE /\ declared' = [declared EXCEPT ![c] = NoCast]
             /\ memory' = memory /\ loose' = loose
    <3>1. CASE x = c
      <4>1. Pledged'[x] = {} /\ memory'[x] = memory[x]
        BY <1>1, <2>4, <3>1, PledgeIs DEF MindOK
      <4>2. \A y \in Spells : memory[x][y] \in Nat
        BY <1>1 DEF MindOK
      <4>3. Book!GainsNothing(x)
        BY <4>1, <4>2 DEF Book!GainsNothing
      <4> QED
        BY <2>4, <4>1, <4>3 DEF Book!Moves, Book!Withdraw
    <3>2. CASE x # c
      BY <1>1, <2>4, <3>2, UntouchedMoves DEF MindOK
    <3> QED
      BY <3>1, <3>2
  <2> QED
    BY <2>1, <2>3, <2>4 DEF ResolvePendingCast
<1>8. ASSUME NEW c \in Heroes, Move(c) PROVE Book!Moves(x)
  BY <1>4, <1>8 DEF Move, mind
<1>9. ASSUME NEW line \in LineUps, Begin(line) PROVE Book!Moves(x)
  BY <1>4, <1>9 DEF Begin, mind
<1>10. ASSUME NEW c \in Fighters, AddCombatant(c) \/ RemoveCombatant(c) PROVE Book!Moves(x)
  <2>1. UNCHANGED <<memory, declared>> /\ loose \subseteq loose'
    BY <1>10 DEF AddCombatant, RemoveCombatant, mind
  <2> QED
    BY <1>4, <2>1
<1>11. ASSUME AtRepeat \/ PassOver \/ EndRound PROVE Book!Moves(x)
  <2>1. UNCHANGED mind
    BY <1>11 DEF AtRepeat, PassOver, EndRound
  <2> QED
    BY <1>4, <2>1 DEF mind
<1> QED
  BY <1>2, <1>3, <1>5, <1>6, <1>7, <1>8, <1>9, <1>10, <1>11 DEF Next

\* A slot is lost once and for one effect, one disruption or one death, and gained by
\* rest alone: the fight implements Spellbook (CmdCast, resolve_pending_cast,
\* apply_damage, _default_death, CmdRest).
THEOREM ImplementsSpellbook == Spec => KeepsTheBook
<1>1. Init => Book!BookInit
  BY DEF Init, NoSpells, Pledged, Book!BookInit
<1>2. IInv /\ [Next]_vars => [Book!BookNext]_(Book!bookVars)
  <2> SUFFICES ASSUME IInv, [Next]_vars
               PROVE  Book!BookNext \/ UNCHANGED <<memory, Pledged, loose>>
    BY DEF Book!bookVars
  <2>1. CASE Next
    <3>1. IInv'
      BY <2>1, StepHolds
    <3>2. MindOK'
      BY <3>1, PartsAfter
    <3> QED
      BY <2>1, <3>2, BookIsTypedNext, EveryStepMovesBooks DEF Book!BookNext
  <2>2. CASE UNCHANGED vars
    BY <2>2 DEF vars, mind, Pledged
  <2> QED
    BY <2>1, <2>2
<1> QED
  BY <1>1, <1>2, Inductive, PTL DEF Spec, KeepsTheBook, Book!BookSpec

-----------------------------------------------------------------------------
(* Rounds *)

\* What a round that has begun may do: come to its next combatant, or end with every one
\* passed and no hero left declaring (at_repeat).
RoundsSettle ==
    [][turn > 0 =>
         \/ turn \in DOMAIN combatants /\ turn' = turn + 1 /\ UNCHANGED combatants
         \/ /\ turn = Len(combatants) + 1 /\ turn' = 0
            /\ \A c \in Heroes \ loose' : declared'[c] = NoCast]_vars

\* Nothing breaks into a round or lengthens it, each step brings it nearer its end, and at
\* its end every declaration made before it has been settled.
THEOREM RoundsSettleAll == Spec => RoundsSettle
<1>1. IInv /\ [Next]_vars =>
        [turn > 0 =>
         \/ turn \in DOMAIN combatants /\ turn' = turn + 1 /\ UNCHANGED combatants
         \/ /\ turn = Len(combatants) + 1 /\ turn' = 0
            /\ \A c \in Heroes \ loose' : declared'[c] = NoCast]_vars
  <2> SUFFICES ASSUME IInv, Next, turn > 0
               PROVE  \/ turn \in DOMAIN combatants /\ turn' = turn + 1 /\ UNCHANGED combatants
                      \/ /\ turn = Len(combatants) + 1 /\ turn' = 0
                         /\ \A c \in Heroes \ loose' : declared'[c] = NoCast
    OBVIOUS
  <2>1. /\ combatants \in Seq(Fighters) /\ Len(combatants) \in Nat
        /\ turn \in 0 .. Len(combatants) + 1 /\ DOMAIN combatants = 1 .. Len(combatants)
    BY DEF IInv, TypeOK
  <2>2. ~Between
    BY <2>1 DEF Between
  <2>3. Resolve \/ PassOver \/ EndRound
    BY <2>2 DEF Next, Attack, Rest, Move, Declare, Cast, Begin, AddCombatant, RemoveCombatant, AtRepeat
  <2>4. CASE Resolve \/ PassOver
    BY <2>4 DEF Resolve, PassOver, Comes
  <2>5. CASE EndRound
    <3>1. turn = Len(combatants) + 1 /\ turn' = 0 /\ declared' = declared /\ loose' = loose
      BY <2>1, <2>5 DEF EndRound, mind
    <3>2. ASSUME NEW c \in Heroes \ loose, declared[c] # NoCast PROVE FALSE
      <4>1. PICK i \in DOMAIN combatants : combatants[i] = c
        BY <3>2, <2>1 DEF IInv, CastingMeansFighting, InCombat, Fighting
      <4>2. i \in 1 .. turn - 1
        BY <2>1, <3>1
      <4> QED
        BY <3>2, <4>1, <4>2 DEF IInv, SettledSoFar
    <3> QED
      BY <3>1, <3>2
  <2> QED
    BY <2>3, <2>4, <2>5
<1> QED
  BY <1>1, Inductive, PTL DEF Spec, RoundsSettle
=============================================================================
