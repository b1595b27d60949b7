----------------------------- MODULE RepopProofs -----------------------------
(***************************************************************************)
(* Theorems about the repop manager for every zone layout, every choice of *)
(* delays and every scouting party size.                                   *)
(***************************************************************************)
EXTENDS Repop, TLAPS

-----------------------------------------------------------------------------
(* Types *)

\* The next Shrine boundary always lies ahead, at most one whole cycle away
\* (mark_shrine_reset).
LEMMA NextBoundaryAhead ==
    ASSUME NEW left \in Int
    PROVE  NextBoundary(left) \in 1 .. ShrineReset
<1>1. ShrineReset \in Nat /\ ShrineReset > 0
  BY RepopAssumption
<1>2. left % ShrineReset \in 0 .. ShrineReset - 1
  BY <1>1
<1> QED
  BY <1>1, <1>2 DEF NextBoundary

LEMMA NoTimerNegative == NoTimer \in Int /\ NoTimer < 0 /\ NoTimer = -MaxLag - 1
BY RepopAssumption DEF NoTimer

\* A scouting party is made of scout ids of the tribe whose lair it occupies.
LEMMA PartyIds ==
    ASSUME NEW t \in Tribes
    PROVE  /\ ScoutParty(t) \subseteq ScoutIds
           /\ \A c \in ScoutParty(t) : c[1] = t
BY DEF ScoutParty, ScoutIds

\* However much of a halt was saved and made, its timers run and the types hold.
LEMMA HaltTypes ==
    ASSUME TypeOK, NEW p \in Points, NEW saved \in SUBSET Whole,
           NEW made \in SUBSET ScoutParty(TribeOf[p]),
           Fell(p), TriggerHalt(TribeOf[p], saved, made)
    PROVE  TypeOK'
<1> USE RepopAssumption, NoTimerNegative
<1>1. TribeOf[p] \in Tribes
  OBVIOUS
<1>2. mob' \in [Points -> {"none", "alive", "dead"}] /\ shrine' = shrine
  BY DEF Fell, TypeOK
<1>3. halt' \in [Tribes -> TimeLeft(LeadershipHalt)]
  BY <1>1 DEF TriggerHalt, TypeOK, TimeLeft
<1>4. respawn' \in [Points -> Nat \cup {NoTimer}]
  BY DEF TriggerHalt, TypeOK
<1>5. scouts' \subseteq ScoutIds
  BY <1>1, PartyIds DEF TriggerHalt, TypeOK
<1>6. scoutMob' \in [ScoutIds -> {"none", "alive", "dead"}]
  BY DEF TriggerHalt, TypeOK, SpawnScout
<1>7. caught' \subseteq Points
  BY DEF TriggerHalt, TypeOK
<1> QED
  BY <1>2, <1>3, <1>4, <1>5, <1>6, <1>7 DEF TypeOK

LEMMA SavesAreParts == Whole \in Saves /\ \A saved \in Saves : saved \subseteq Whole
BY DEF Saves, Whole

\* Every variable keeps its type, whatever else happens: handlers cut short,
\* cures and rebuilds included.
THEOREM TypeCorrect == Spec => []TypeOK
<1>1. Init => TypeOK
  BY RepopAssumption, NoTimerNegative DEF Init, TypeOK, TimeLeft, ScoutIds
<1>2. TypeOK /\ [Next]_vars => TypeOK'
  <2> SUFFICES ASSUME TypeOK, [Next]_vars
               PROVE  TypeOK'
    OBVIOUS
  <2> USE RepopAssumption, NoTimerNegative
  <2>1. ASSUME NEW p \in Points, KillMob(p)
        PROVE  TypeOK'
    <3>1. CASE BothLeadersDown(p)
      BY <2>1, <3>1, HaltTypes, SavesAreParts DEF KillMob
    <3>2. CASE ~BothLeadersDown(p)
      BY <2>1, <3>2 DEF KillMob, Fell, ScheduleRespawn, TypeOK, TimeLeft
    <3> QED
      BY <3>1, <3>2
  <2>2. ASSUME NEW p \in Points, FallUnreported(p)
        PROVE  TypeOK'
    BY <2>2 DEF FallUnreported, Fell, TypeOK
  <2>3. ASSUME NEW p \in Points, HaltCutShort(p)
        PROVE  TypeOK'
    BY <2>3, HaltTypes, SavesAreParts DEF HaltCutShort
  <2>4. ASSUME NEW c \in ScoutIds, KillScout(c)
        PROVE  TypeOK'
    BY <2>4 DEF KillScout, TypeOK
  <2>5. CASE CrashInKillScout
    BY <2>5 DEF CrashInKillScout, TypeOK
  <2>6. CASE CureDead
    BY <2>6 DEF CureDead, TypeOK
  <2>7. ASSUME TickWorld, TickTimers
        PROVE  /\ mob' \in [Points -> {"none", "alive", "dead"}]
               /\ respawn' \in [Points -> Nat \cup {NoTimer}]
               /\ scoutMob' \in [ScoutIds -> {"none", "alive", "dead"}]
    BY <2>7 DEF TickWorld, TickTimers, TypeOK, SpawnMob
  <2>8. CASE Tick
    <3>1. shrine' \in -MaxLag - 1 .. ShrineReset
      BY <2>8, NextBoundaryAhead DEF Tick, TypeOK
    <3>2. scouts' \subseteq ScoutIds
      BY <2>8 DEF Tick, TypeOK
    <3> QED
      BY <2>7, <2>8, <3>1, <3>2 DEF Tick, TypeOK
  <2>9. CASE CrashInTick
    <3>1. CASE TickUnsaved
      BY <2>9, <3>1 DEF CrashInTick, TickUnsaved, TypeOK, SpawnMob
    <3>2. CASE TickHalfSaved
      <4>1. scouts' \subseteq ScoutIds
        BY <3>2 DEF TickHalfSaved, TypeOK
      <4> QED
        BY <2>7, <2>9, <3>2, <4>1 DEF CrashInTick, TickHalfSaved, TypeOK
    <3> QED
      BY <2>9, <3>1, <3>2 DEF CrashInTick
  <2>10. CASE SeasonReset
    BY <2>10 DEF SeasonReset, TypeOK, TimeLeft
  <2>11. CASE CrashInSeason
    <3>1. ASSUME NEW saved, SeasonSaved(saved)
          PROVE  /\ respawn' \in [Points -> Nat \cup {NoTimer}]
                 /\ halt' \in [Tribes -> TimeLeft(LeadershipHalt)]
                 /\ scouts' \subseteq ScoutIds
                 /\ shrine' \in -MaxLag - 1 .. ShrineReset
      BY <3>1 DEF SeasonSaved, TypeOK, TimeLeft
    <3>2. CASE SeasonNotRebuilt
      BY <3>1, <3>2 DEF SeasonNotRebuilt, TypeOK, Fallen
    <3>3. CASE SeasonDespawning
      BY <3>1, <3>3 DEF SeasonDespawning, TypeOK, Fallen
    <3>4. CASE SeasonPopulating
      BY <3>1, <3>4 DEF SeasonPopulating, TypeOK
    <3> QED
      BY <2>11, <3>2, <3>3, <3>4 DEF CrashInSeason
  <2>12. CASE Rebuild
    BY <2>12 DEF Rebuild, TypeOK, SpawnMob
  <2>13. CASE CrashInRebuild
    <3>1. CASE Registering
      BY <2>13, <3>1 DEF CrashInRebuild, Registering, TypeOK, Fallen
    <3>2. CASE Populating
      BY <2>13, <3>2 DEF CrashInRebuild, Populating, TypeOK, SpawnMob, Fallen
    <3> QED
      BY <2>13, <3>1, <3>2 DEF CrashInRebuild
  <2>14. CASE Elapse
    BY <2>14 DEF Elapse, TypeOK, TimeLeft, Less
  <2>15. CASE UNCHANGED vars
    BY <2>15 DEF vars, TypeOK
  <2> QED
    BY <2>1, <2>2, <2>3, <2>4, <2>5, <2>6, <2>8, <2>9, <2>10, <2>11, <2>12, <2>13, <2>14, <2>15
    DEF Next, Kill, CrashInKill
<1> QED
  BY <1>1, <1>2, PTL DEF Spec

-----------------------------------------------------------------------------
(* Nothing fallen is lost *)

\* What does not stand is on a timer, or the server's death caught it between
\* two writes: no death, halt, tick, cure, rebuild or season reset, whole or cut
\* short, loses anything else.
THEOREM FallenStaysPending == Spec => []FallenIsPending
<1> USE RepopAssumption, NoTimerNegative
<1>1. Init => FallenIsPending
  BY DEF Init, FallenIsPending, Fallen
<1>2. TypeOK /\ FallenIsPending /\ [Next]_vars => FallenIsPending'
  <2> SUFFICES ASSUME TypeOK, FallenIsPending, [Next]_vars,
                      NEW q \in Points, TribeOf[q] \in Built, mob'[q] # "alive", q \notin caught'
               PROVE  Pending(q)'
    BY DEF FallenIsPending, Fallen
  <2> USE DEF Pending
  <2>1. mob[q] # "alive" => respawn[q] # NoTimer \/ q \in caught
    BY DEF FallenIsPending, Fallen
  <2>2. SpawnMob(q) = "alive"
    BY DEF SpawnMob
  <2>3. ASSUME NEW p \in Points, Fell(p)
        PROVE  mob[q] # "alive" \/ q = p
    BY <2>3 DEF Fell, TypeOK
  <2>4. ASSUME NEW p \in Points, NEW saved, NEW made, Fell(p), TriggerHalt(TribeOf[p], saved, made)
        PROVE  respawn'[q] # NoTimer
    BY <2>1, <2>3, <2>4 DEF TriggerHalt, TypeOK, MembersOf
  <2>5. ASSUME NEW p \in Points, KillMob(p)
        PROVE  respawn'[q] # NoTimer
    <3>1. CASE BothLeadersDown(p)
      BY <2>4, <2>5, <3>1 DEF KillMob
    <3>2. CASE ~BothLeadersDown(p)
      BY <2>1, <2>3, <2>5, <3>2 DEF KillMob, ScheduleRespawn, TypeOK
    <3> QED
      BY <3>1, <3>2
  <2>6. ASSUME NEW p \in Points, FallUnreported(p)
        PROVE  respawn'[q] # NoTimer
    BY <2>1, <2>3, <2>6 DEF FallUnreported
  <2>7. ASSUME NEW p \in Points, HaltCutShort(p)
        PROVE  respawn'[q] # NoTimer
    BY <2>4, <2>7 DEF HaltCutShort
  <2>8. ASSUME NEW c \in ScoutIds, KillScout(c)
        PROVE  respawn'[q] # NoTimer
    BY <2>1, <2>8 DEF KillScout
  <2>9. CASE CrashInKillScout
    BY <2>1, <2>9 DEF CrashInKillScout
  <2>10. CASE CureDead
    BY <2>1, <2>10 DEF CureDead, TypeOK
  <2>11. CASE Tick
    BY <2>1, <2>2, <2>11 DEF Tick, TickWorld, TickTimers
  <2>12. CASE CrashInTick
    <3>1. CASE TickUnsaved
      BY <2>1, <2>2, <2>12, <3>1 DEF CrashInTick, TickUnsaved, Back, Restocked, DueSpawns
    <3>2. CASE TickHalfSaved
      BY <2>1, <2>2, <2>12, <3>2 DEF CrashInTick, TickHalfSaved, TickWorld, TickTimers
    <3> QED
      BY <2>12, <3>1, <3>2 DEF CrashInTick
  <2>13. CASE SeasonReset
    BY <2>13 DEF SeasonReset
  <2>14. CASE CrashInSeason
    <3>1. ~SeasonNotRebuilt
      BY DEF SeasonNotRebuilt, Fallen
    <3>2. ~SeasonDespawning
      BY DEF SeasonDespawning, Fallen
    <3>3. ~SeasonPopulating
      BY DEF SeasonPopulating
    <3> QED
      BY <2>14, <3>1, <3>2, <3>3 DEF CrashInSeason
  <2>15. CASE Rebuild
    BY <2>2, <2>15 DEF Rebuild
  <2>16. CASE CrashInRebuild
    <3>1. CASE Registering
      BY <2>1, <3>1 DEF Registering, Fallen
    <3>2. ~Populating
      BY <2>2 DEF Populating, Fallen
    <3> QED
      BY <2>16, <3>1, <3>2 DEF CrashInRebuild
  <2>17. CASE Elapse
    BY <2>1, <2>17 DEF Elapse, Less, TypeOK
  <2>18. CASE UNCHANGED vars
    BY <2>1, <2>18 DEF vars
  <2> QED
    BY <2>5, <2>6, <2>7, <2>8, <2>9, <2>10, <2>11, <2>12, <2>13, <2>14, <2>15, <2>16, <2>17, <2>18
    DEF Next, Kill, CrashInKill
<1> QED
  BY <1>1, <1>2, TypeCorrect, PTL DEF Spec

-----------------------------------------------------------------------------
(* Undisturbed play *)

\* Without cures of the dead, operators and crashes, none of their actions.
LEMMA NoMishap ==
    ASSUME Undisturbed
    PROVE  /\ ~CrashInKill /\ ~CrashInKillScout /\ ~CureDead /\ ~CrashInTick
           /\ ~CrashInSeason /\ ~Rebuild /\ ~CrashInRebuild
BY DEF Undisturbed, CrashInKill, CrashInKillScout, CureDead, CrashInTick, CrashInSeason,
       Rebuild, CrashInRebuild

\* Undisturbed, the slain are on a timer.
LEMMA DeadIsPending ==
    ASSUME IInv, NEW p \in Points, mob[p] = "dead"
    PROVE  Pending(p)
BY DEF IInv, FallenIsPending, Fallen, LairsArePopulated

-----------------------------------------------------------------------------
(* Leadership halts in undisturbed play *)

\* When a leader falls and its counterpart lies dead already, those two are all
\* the leaders their tribe has.
LEMMA BothDown ==
    ASSUME TypeOK, LeaderOnTimerIsDead, NEW p \in Points, BothLeadersDown(p)
    PROVE  /\ p \in Leaders
           /\ \E q \in Leaders :
                /\ TribeOf[q] = TribeOf[p] /\ q # p
                /\ {Role[p], Role[q]} = {"chief", "shaman"}
                /\ mob[q] = "dead"
                /\ \A l \in Leaders : TribeOf[l] = TribeOf[p] => l = p \/ l = q
<1>1. PICK q \in OtherLeaders(p) : Pending(q)
  BY DEF BothLeadersDown
<1>2. p \in Leaders /\ q \in Leaders /\ TribeOf[q] = TribeOf[p] /\ Role[q] # Role[p]
  BY <1>1 DEF BothLeadersDown, OtherLeaders
<1>3. \A l \in Leaders : Role[l] \in {"chief", "shaman"}
  BY RepopAssumption DEF Leaders
<1>4. \A l \in Leaders : TribeOf[l] = TribeOf[p] => l = p \/ l = q
  BY <1>2, <1>3, LeaderAssumption
<1>5. mob[q] = "dead"
  BY <1>1, <1>2 DEF LeaderOnTimerIsDead
<1> QED
  BY <1>2, <1>3, <1>4, <1>5

\* One step per conjunct of the invariant, for the death that breaks a tribe.
LEMMA BreakingDeathKeepsIInv ==
    ASSUME IInv, TypeOK', FallenIsPending', NEW p \in Points, KillMob(p), BothLeadersDown(p)
    PROVE  IInv'
<1> USE RepopAssumption, NoTimerNegative
<1> DEFINE t == TribeOf[p]
<1>1. TypeOK /\ LeaderOnTimerIsDead
  BY DEF IInv
<1>2. PICK q \in Leaders : /\ TribeOf[q] = t /\ q # p
                           /\ {Role[p], Role[q]} = {"chief", "shaman"}
                           /\ mob[q] = "dead"
                           /\ \A l \in Leaders : TribeOf[l] = t => l = p \/ l = q
  BY <1>1, BothDown
<1>3. p \in Leaders /\ q \in Points /\ t \in Tribes
  BY <1>1, <1>2, BothDown DEF Leaders
<1>4. /\ mob' = [mob EXCEPT ![p] = "dead"]
      /\ halt' = [halt EXCEPT ![t] = LeadershipHalt]
      /\ respawn' = [x \in Points |-> IF TribeOf[x] = t THEN LeadershipHalt ELSE respawn[x]]
      /\ scouts' = scouts \cup ScoutParty(t)
      /\ scoutMob' = [c \in ScoutIds |->
                         IF c \in ScoutParty(t) THEN SpawnScout(c) ELSE scoutMob[c]]
  BY DEF KillMob, Fell, TriggerHalt, Whole
<1>15. caught' = {}
  BY DEF KillMob, Fell, TriggerHalt, Whole, IInv
<1>5. mob'[p] = "dead" /\ mob'[q] = "dead" /\ \A x \in Points : x # p => mob'[x] = mob[x]
  BY <1>1, <1>2, <1>3, <1>4 DEF TypeOK
<1>6. mob[p] = "alive"
  BY DEF KillMob, Fell
<1>7. \A l \in Leaders : TribeOf[l] = t => mob'[l] = "dead"
  BY <1>2, <1>5
<1>8. HaltedIsLeaderless'
  <2> SUFFICES ASSUME NEW u \in Tribes, halt'[u] > 0
               PROVE  \E c, s \in MembersOf(u) : /\ Role[c] = "chief"  /\ mob'[c] = "dead"
                                                 /\ Role[s] = "shaman" /\ mob'[s] = "dead"
    BY DEF HaltedIsLeaderless, Halted, MembersOf
  <2>1. CASE u = t
    BY <2>1, <1>2, <1>3, <1>5 DEF MembersOf
  <2>2. CASE u # t
    <3>1. halt[u] > 0
      BY <2>2, <1>1, <1>4 DEF TypeOK
    <3> QED
      BY <3>1, <1>5 DEF IInv, HaltedIsLeaderless, Halted, MembersOf
  <2> QED
    BY <2>1, <2>2
<1>9. HaltedIsPending'
  <2> SUFFICES ASSUME NEW u \in Tribes, halt'[u] > 0, NEW x \in MembersOf(u)
               PROVE  /\ respawn'[x] # NoTimer
                      /\ respawn'[x] > halt'[u] => mob'[x] = "dead" /\ respawn'[x] <= Respawn[x]
    BY DEF HaltedIsPending, Halted, Pending, MembersOf
  <2>1. CASE u = t
    BY <2>1, <1>1, <1>4 DEF MembersOf, TypeOK
  <2>2. CASE u # t
    <3>1. halt[u] > 0 /\ halt'[u] = halt[u] /\ respawn'[x] = respawn[x] /\ mob'[x] = mob[x]
      BY <2>2, <1>1, <1>3, <1>4, <1>5 DEF TypeOK, MembersOf
    <3> QED
      BY <3>1 DEF IInv, HaltedIsPending, Halted, Pending
  <2> QED
    BY <2>1, <2>2
<1>10. NoStrayScout'
  BY <1>1, <1>4 DEF IInv, NoStrayScout, TypeOK
<1>11. LeaderOnTimerIsDead'
  <2> SUFFICES ASSUME NEW l \in Leaders, respawn'[l] # NoTimer
               PROVE  mob'[l] = "dead"
    BY DEF LeaderOnTimerIsDead, Pending, Leaders
  <2>1. CASE TribeOf[l] = t
    BY <2>1, <1>7
  <2>2. CASE TribeOf[l] # t
    <3>1. l \in Points /\ l # p /\ respawn[l] # NoTimer
      BY <2>2, <1>4 DEF Leaders
    <3> QED
      BY <3>1, <1>1, <1>5 DEF LeaderOnTimerIsDead, Pending
  <2> QED
    BY <2>1, <2>2
<1>12. LeadersReturnTogether'
  BY <1>1, <1>4, <1>5 DEF IInv, LeadersReturnTogether, Leaders
<1>13. LairsArePopulated'
  BY <1>5, <1>6, <1>3 DEF IInv, LairsArePopulated
<1>14. ScoutedIsLeaderless'
  <2> SUFFICES ASSUME NEW c \in scouts', NEW l \in Leaders, TribeOf[l] = c[1]
               PROVE  mob'[l] = "dead"
    BY DEF ScoutedIsLeaderless, Leaders
  <2>1. CASE c \in ScoutParty(t)
    BY <2>1, <1>3, <1>7, PartyIds
  <2>2. CASE c \in scouts
    BY <2>2, <1>5 DEF IInv, ScoutedIsLeaderless, Leaders
  <2> QED
    BY <2>1, <2>2, <1>4
<1> QED
  BY <1>15, <1>8, <1>9, <1>10, <1>11, <1>12, <1>13, <1>14 DEF IInv

\* Any other death only puts one more mob on its own timer.
LEMMA PlainDeathKeepsIInv ==
    ASSUME IInv, TypeOK', FallenIsPending', NEW p \in Points, KillMob(p), ~BothLeadersDown(p)
    PROVE  IInv'
<1> USE RepopAssumption, NoTimerNegative
<1>1. TypeOK
  BY DEF IInv
<1>2. /\ mob[p] = "alive"
      /\ mob' = [mob EXCEPT ![p] = "dead"]
      /\ respawn' = [respawn EXCEPT ![p] = Respawn[p]]
      /\ UNCHANGED <<halt, scouts, scoutMob, caught>>
  BY DEF KillMob, Fell, ScheduleRespawn
<1>3. /\ mob'[p] = "dead" /\ respawn'[p] = Respawn[p]
      /\ \A x \in Points : x # p => mob'[x] = mob[x] /\ respawn'[x] = respawn[x]
  BY <1>1, <1>2 DEF TypeOK
<1>4. HaltedIsLeaderless'
  BY <1>2, <1>3 DEF IInv, HaltedIsLeaderless, Halted, MembersOf
<1>5. HaltedIsPending'
  BY <1>2, <1>3 DEF IInv, HaltedIsPending, Halted, Pending, MembersOf
<1>6. NoStrayScout'
  BY <1>2 DEF IInv, NoStrayScout
<1>7. LeaderOnTimerIsDead'
  BY <1>3 DEF IInv, LeaderOnTimerIsDead, Pending, Leaders
<1>8. LeadersReturnTogether'
  <2> SUFFICES ASSUME NEW l \in Leaders, NEW m \in Leaders, TribeOf[l] = TribeOf[m],
                      mob'[l] = "dead", mob'[m] = "dead"
               PROVE  respawn'[l] = respawn'[m]
    BY DEF LeadersReturnTogether, Leaders
  <2>1. CASE l = m
    BY <2>1
  <2>2. CASE l # p /\ m # p
    BY <2>2, <1>3 DEF IInv, LeadersReturnTogether, Leaders
  <2>3. ASSUME NEW a \in Leaders, NEW b \in Leaders, TribeOf[a] = TribeOf[b], a # b,
               a = p, mob'[b] = "dead"
        PROVE  FALSE
    <3>1. b \in OtherLeaders(p)
      BY <2>3, LeaderAssumption DEF OtherLeaders
    <3>2. Pending(b)
      BY <2>3, <1>3, DeadIsPending DEF Leaders
    <3> QED
      BY <3>1, <3>2, <2>3 DEF BothLeadersDown
  <2> QED
    BY <2>1, <2>2, <2>3
<1>9. LairsArePopulated'
  BY <1>2, <1>3 DEF IInv, LairsArePopulated
<1>10. ScoutedIsLeaderless'
  BY <1>2, <1>3 DEF IInv, ScoutedIsLeaderless, Leaders
<1> QED
  BY <1>2, <1>4, <1>5, <1>6, <1>7, <1>8, <1>9, <1>10 DEF IInv

\* The tick brings back nothing of a halted tribe and leaves no scout behind.
LEMMA TickKeepsIInv ==
    ASSUME IInv, TypeOK', FallenIsPending', Tick
    PROVE  IInv'
<1> USE RepopAssumption, NoTimerNegative
<1> DEFINE back == Restocked \cup DueSpawns
<1>1. TypeOK
  BY DEF IInv
<1>2. /\ mob' = [p \in Points |-> IF p \in back THEN SpawnMob(p) ELSE mob[p]]
      /\ respawn' = [p \in Points |-> IF p \in back THEN NoTimer ELSE respawn[p]]
      /\ scouts' = scouts \ DueRetreats
      /\ scoutMob' = [c \in ScoutIds |-> IF c \in DueRetreats THEN "none" ELSE scoutMob[c]]
      /\ halt' = halt /\ caught' = caught
  BY DEF Tick, TickWorld, TickTimers, Back
<1>3. ASSUME NEW p \in Points, p \in back PROVE ~Halted(TribeOf[p])
  <2>1. CASE p \in ShrinePoints
    <3>1. \A l \in Leaders : TribeOf[l] # TribeOf[p]
      BY <2>1, LeaderAssumption
    <3>2. \A l \in MembersOf(TribeOf[p]) : Role[l] \notin {"chief", "shaman"}
      BY <3>1 DEF MembersOf, Leaders
    <3> QED
      BY <3>2 DEF IInv, HaltedIsLeaderless
  <2>2. CASE p \notin ShrinePoints
    BY <1>3, <2>2 DEF Restocked, DueSpawns
  <2> QED
    BY <2>1, <2>2
<1>4. \A p \in Points : Halted(TribeOf[p]) => mob'[p] = mob[p] /\ respawn'[p] = respawn[p]
  BY <1>2, <1>3
<1>5. HaltedIsLeaderless'
  BY <1>2, <1>4 DEF IInv, HaltedIsLeaderless, Halted, MembersOf
<1>6. HaltedIsPending'
  BY <1>2, <1>4 DEF IInv, HaltedIsPending, Halted, Pending, MembersOf
<1>7. NoStrayScout'
  BY <1>2 DEF IInv, NoStrayScout
<1>8. LeaderOnTimerIsDead'
  BY <1>2 DEF IInv, LeaderOnTimerIsDead, Pending, Leaders
<1>9. LeadersReturnTogether'
  BY <1>2, <1>1 DEF IInv, LeadersReturnTogether, Leaders, SpawnMob
<1>10. LairsArePopulated'
  BY <1>2 DEF IInv, LairsArePopulated, SpawnMob
<1>11. ScoutedIsLeaderless'
  <2> SUFFICES ASSUME NEW c \in scouts', NEW l \in Leaders, TribeOf[l] = c[1]
               PROVE  mob'[l] = "dead"
    BY DEF ScoutedIsLeaderless, Leaders
  <2>1. c \in scouts /\ Halted(c[1])
    BY <1>2 DEF DueRetreats
  <2> QED
    BY <2>1, <1>4 DEF IInv, ScoutedIsLeaderless, Leaders
<1> QED
  BY <1>2, <1>5, <1>6, <1>7, <1>8, <1>9, <1>10, <1>11 DEF IInv

\* Time alone keeps every relation between the timers.
LEMMA ElapseKeepsIInv ==
    ASSUME IInv, TypeOK', FallenIsPending', Elapse
    PROVE  IInv'
<1> USE RepopAssumption, NoTimerNegative
<1>1. TypeOK
  BY DEF IInv
<1>2. /\ respawn' = [p \in Points |-> Less(respawn[p])]
      /\ halt' = [t \in Tribes |-> Less(halt[t])]
      /\ UNCHANGED <<mob, scouts, scoutMob, caught>>
  BY DEF Elapse
<1>3. \A t \in Tribes : Halted(t)' => Halted(t) /\ halt'[t] = halt[t] - 1
  BY <1>1, <1>2 DEF Halted, Less, TypeOK, TimeLeft
<1>4. \A p \in Points : /\ Pending(p)' <=> Pending(p)
                        /\ respawn'[p] = respawn[p] \/ (respawn[p] > 0 /\ respawn'[p] = respawn[p] - 1)
                        /\ respawn'[p] > 0 => respawn'[p] = respawn[p] - 1
  BY <1>1, <1>2 DEF Pending, Less, TypeOK
<1>5. HaltedIsLeaderless'
  BY <1>2, <1>3 DEF IInv, HaltedIsLeaderless, MembersOf
<1>6. HaltedIsPending'
  <2> SUFFICES ASSUME NEW t \in Tribes, Halted(t)', NEW p \in MembersOf(t)
               PROVE  /\ Pending(p)'
                      /\ respawn'[p] > halt'[t] => mob'[p] = "dead" /\ respawn'[p] <= Respawn[p]
    BY DEF HaltedIsPending, MembersOf
  <2>1. Halted(t) /\ halt'[t] = halt[t] - 1 /\ p \in Points
    BY <1>3 DEF MembersOf
  <2>2. Pending(p) /\ (respawn[p] > halt[t] => mob[p] = "dead" /\ respawn[p] <= Respawn[p])
    BY <2>1 DEF IInv, HaltedIsPending
  <2>3. halt[t] \in Int /\ respawn[p] \in Int /\ Respawn[p] \in Int /\ halt[t] > 0
    BY <1>1, <2>1 DEF TypeOK, TimeLeft, Halted
  <2> QED
    BY <2>1, <2>2, <2>3, <1>2, <1>4
<1>7. NoStrayScout'
  BY <1>2 DEF IInv, NoStrayScout
<1>8. LeaderOnTimerIsDead'
  BY <1>2, <1>4 DEF IInv, LeaderOnTimerIsDead, Leaders
<1>9. LeadersReturnTogether'
  BY <1>2 DEF IInv, LeadersReturnTogether, Leaders
<1>10. LairsArePopulated'
  BY <1>2 DEF IInv, LairsArePopulated
<1>11. ScoutedIsLeaderless'
  BY <1>2 DEF IInv, ScoutedIsLeaderless
<1> QED
  BY <1>2, <1>5, <1>6, <1>7, <1>8, <1>9, <1>10, <1>11 DEF IInv

LEMMA StepKeepsIInv ==
    ASSUME Undisturbed, IInv, TypeOK', FallenIsPending', [Next]_vars
    PROVE  IInv'
<1> USE RepopAssumption, NoTimerNegative
<1>1. ASSUME NEW p \in Points, KillMob(p)
      PROVE  IInv'
  BY <1>1, BreakingDeathKeepsIInv, PlainDeathKeepsIInv
<1>2. ASSUME NEW c \in ScoutIds, KillScout(c)
      PROVE  IInv'
  <2>1. NoStrayScout'
    BY <1>2 DEF KillScout, IInv, NoStrayScout, TypeOK
  <2>2. HaltedIsLeaderless' /\ HaltedIsPending'
    BY <1>2 DEF KillScout, IInv, HaltedIsLeaderless, HaltedIsPending, Halted, Pending, MembersOf
  <2>3. LeaderOnTimerIsDead' /\ LeadersReturnTogether' /\ LairsArePopulated'
    BY <1>2 DEF KillScout, IInv, LeaderOnTimerIsDead, LeadersReturnTogether, LairsArePopulated,
                Pending, Leaders
  <2>4. ScoutedIsLeaderless'
    BY <1>2 DEF KillScout, IInv, ScoutedIsLeaderless, Leaders
  <2> QED
    BY <1>2, <2>1, <2>2, <2>3, <2>4 DEF IInv, KillScout
<1>3. CASE SeasonReset
  <2>1. HaltedIsLeaderless' /\ HaltedIsPending' /\ NoStrayScout'
    BY <1>3 DEF SeasonReset, HaltedIsLeaderless, HaltedIsPending, NoStrayScout, Halted
  <2>2. LeaderOnTimerIsDead' /\ LeadersReturnTogether' /\ LairsArePopulated'
    BY <1>3 DEF SeasonReset, LeaderOnTimerIsDead, LeadersReturnTogether, LairsArePopulated,
                Pending, Leaders
  <2>3. ScoutedIsLeaderless'
    BY <1>3 DEF SeasonReset, ScoutedIsLeaderless
  <2> QED
    BY <1>3, <2>1, <2>2, <2>3 DEF IInv, SeasonReset
<1>4. CASE UNCHANGED vars
  <2>1. HaltedIsLeaderless' /\ HaltedIsPending' /\ NoStrayScout'
    BY <1>4 DEF vars, IInv, HaltedIsLeaderless, HaltedIsPending, NoStrayScout, Halted, Pending,
                MembersOf
  <2>2. LeaderOnTimerIsDead' /\ LeadersReturnTogether' /\ LairsArePopulated'
    BY <1>4 DEF vars, IInv, LeaderOnTimerIsDead, LeadersReturnTogether, LairsArePopulated,
                Pending, Leaders
  <2>3. ScoutedIsLeaderless'
    BY <1>4 DEF vars, IInv, ScoutedIsLeaderless, Leaders
  <2> QED
    BY <1>4, <2>1, <2>2, <2>3 DEF IInv, vars
<1>5. /\ ~CrashInKill /\ ~CrashInKillScout /\ ~CureDead /\ ~CrashInTick
      /\ ~CrashInSeason /\ ~Rebuild /\ ~CrashInRebuild
  BY NoMishap
<1> QED
  BY <1>1, <1>2, <1>3, <1>4, <1>5, TickKeepsIInv, ElapseKeepsIInv DEF Next, Kill

\* The invariant of undisturbed play holds throughout it.
THEOREM UndisturbedInvariant == Undisturbed => (Spec => []IInv)
<1> SUFFICES ASSUME Undisturbed PROVE Spec => []IInv
  OBVIOUS
<1> USE RepopAssumption, NoTimerNegative
<1>1. Init /\ TypeOK => IInv
  <2> SUFFICES ASSUME Init, TypeOK PROVE IInv
    OBVIOUS
  <2>1. FallenIsPending /\ HaltedIsLeaderless /\ HaltedIsPending /\ NoStrayScout /\ caught = {}
    BY DEF Init, FallenIsPending, Fallen, HaltedIsLeaderless, HaltedIsPending, NoStrayScout, Halted
  <2>2. LeaderOnTimerIsDead /\ LeadersReturnTogether /\ LairsArePopulated /\ ScoutedIsLeaderless
    BY DEF Init, LeaderOnTimerIsDead, LeadersReturnTogether, LairsArePopulated,
           ScoutedIsLeaderless, Pending, Leaders
  <2> QED
    BY <2>1, <2>2 DEF IInv
<1>2. IInv /\ TypeOK' /\ FallenIsPending' /\ [Next]_vars => IInv'
  BY StepKeepsIInv
<1> QED
  BY <1>1, <1>2, TypeCorrect, FallenStaysPending, PTL DEF Spec

\* A halted tribe has both its leaders dead.
THEOREM HaltedStaysLeaderless == Undisturbed => (Spec => []HaltedIsLeaderless)
<1>1. IInv => HaltedIsLeaderless
  BY DEF IInv
<1> QED
  BY <1>1, UndisturbedInvariant, PTL

\* Scouts stand only in lairs whose leaders lie dead.
THEOREM ScoutsKeepToBrokenLairs == Undisturbed => (Spec => []ScoutsOnlyInBrokenLairs)
<1>1. IInv => ScoutsOnlyInBrokenLairs
  BY DEF IInv, NoStrayScout, ScoutedIsLeaderless, ScoutsOnlyInBrokenLairs
<1> QED
  BY <1>1, UndisturbedInvariant, PTL

\* Nothing of a halted tribe comes back before the halt is over, but by a new
\* season.
THEOREM HaltHolds == Undisturbed => (Spec => NoRepopWhileHalted)
<1> SUFFICES ASSUME Undisturbed PROVE Spec => NoRepopWhileHalted
  OBVIOUS
<1> DEFINE Held == \A p \in Points :
               mob[p] = "dead" /\ mob'[p] = "alive" /\ Halted(TribeOf[p]) => NewSeason
<1>1. IInv /\ [Next]_vars => [Held]_vars
  <2> SUFFICES ASSUME IInv, Next, NEW p \in Points,
                      mob[p] = "dead", mob'[p] = "alive", Halted(TribeOf[p])
               PROVE  NewSeason
    BY DEF vars
  <2>1. /\ ~CrashInKill /\ ~CrashInKillScout /\ ~CureDead /\ ~CrashInTick
        /\ ~CrashInSeason /\ ~Rebuild /\ ~CrashInRebuild
    BY NoMishap
  <2>2. ~Kill /\ ~(\E c \in ScoutIds : KillScout(c)) /\ ~Elapse
    BY DEF Kill, KillMob, Fell, KillScout, Elapse, IInv, TypeOK
  <2>3. CASE Tick
    <3>1. p \in ShrinePoints
      BY <2>3 DEF Tick, TickWorld, TickTimers, Back, Restocked, DueSpawns
    <3>2. \A l \in MembersOf(TribeOf[p]) : Role[l] \notin {"chief", "shaman"}
      BY <3>1, LeaderAssumption DEF MembersOf, Leaders
    <3> QED
      BY <3>2, RepopAssumption DEF IInv, HaltedIsLeaderless
  <2>4. CASE SeasonReset
    BY <2>4 DEF SeasonReset, NewSeason
  <2> QED
    BY <2>1, <2>2, <2>3, <2>4 DEF Next
<1> QED
  BY <1>1, UndisturbedInvariant, PTL DEF Spec, NoRepopWhileHalted

\* A halt begins only when both leaders of the tribe are down.
THEOREM HaltIsEarned == Undisturbed => (Spec => HaltNeedsBothLeadersDown)
<1> SUFFICES ASSUME Undisturbed PROVE Spec => HaltNeedsBothLeadersDown
  OBVIOUS
<1> USE RepopAssumption, NoTimerNegative
<1> DEFINE Earned == \A t \in Tribes : halt'[t] > halt[t] =>
               \E c, s \in MembersOf(t) : /\ Role[c] = "chief"  /\ mob'[c] = "dead"
                                          /\ Role[s] = "shaman" /\ mob'[s] = "dead"
<1>1. IInv /\ IInv' /\ [Next]_vars => [Earned]_vars
  <2> SUFFICES ASSUME IInv, IInv', Next, NEW t \in Tribes, halt'[t] > halt[t]
               PROVE  \E c, s \in MembersOf(t) : /\ Role[c] = "chief"  /\ mob'[c] = "dead"
                                                 /\ Role[s] = "shaman" /\ mob'[s] = "dead"
    BY DEF vars
  <2>1. halt[t] \in TimeLeft(LeadershipHalt) /\ halt'[t] \in TimeLeft(LeadershipHalt)
    BY DEF IInv, TypeOK
  <2>2. CASE halt'[t] > 0
    BY <2>2 DEF IInv, HaltedIsLeaderless, Halted, MembersOf
  <2>3. CASE ~(halt'[t] > 0)
    <3>1. halt[t] = NoTimer /\ halt'[t] = 0
      BY <2>1, <2>3 DEF TimeLeft
    <3>2. /\ ~CrashInKill /\ ~CrashInKillScout /\ ~CureDead /\ ~CrashInTick
          /\ ~CrashInSeason /\ ~Rebuild /\ ~CrashInRebuild
      BY NoMishap
    <3>3. ~Tick /\ ~SeasonReset /\ ~Elapse /\ ~(\E c \in ScoutIds : KillScout(c))
      BY <3>1 DEF Tick, TickWorld, TickTimers, Back, SeasonReset, Elapse, KillScout, Less
    <3>4. ~Kill
      BY <3>1 DEF Kill, KillMob, Fell, TriggerHalt, Whole, ScheduleRespawn, IInv, TypeOK
    <3> QED
      BY <3>2, <3>3, <3>4 DEF Next
  <2> QED
    BY <2>2, <2>3
<1> QED
  BY <1>1, UndisturbedInvariant, PTL DEF Spec, HaltNeedsBothLeadersDown

-----------------------------------------------------------------------------
(* The end of a halt *)

\* When a halt runs out everything of the tribe is due at once, leaders and followers;
\* only a follower slain while it lasted may still be on its own, shorter timer
\* (_trigger_halt; repop.md section 3: the entire tribe repops at the next tick).
BrokenTribesRegroup ==
    [][\A t \in Tribes : Halted(t) /\ ~Halted(t)' /\ ~NewSeason =>
         \A p \in MembersOf(t) :
            \/ respawn'[p] = 0
            \/ p \notin Leaders /\ mob[p] = "dead" /\ respawn[p] <= Respawn[p]]_vars

\* The leaders of a broken tribe are due when its halt is over, and not before.
LeadersReturnWithTheHalt ==
    \A t \in Tribes : Halted(t) => \A p \in Leaders \cap MembersOf(t) : respawn[p] = halt[t]

LEMMA LeadersKeepToTheHalt ==
    ASSUME Undisturbed, IInv, LeadersReturnWithTheHalt, Next
    PROVE  LeadersReturnWithTheHalt'
<1> SUFFICES ASSUME NEW t \in Tribes, Halted(t)', NEW l \in Leaders, l \in MembersOf(t)
             PROVE  respawn'[l] = halt'[t]
  BY DEF LeadersReturnWithTheHalt
<1> USE RepopAssumption, NoTimerNegative
<1>1. /\ l \in Points /\ TribeOf[l] = t
      /\ halt[t] \in TimeLeft(LeadershipHalt) /\ respawn[l] \in Nat \cup {NoTimer}
      /\ halt \in [Tribes -> TimeLeft(LeadershipHalt)] /\ respawn \in [Points -> Nat \cup {NoTimer}]
      /\ Halted(t) => respawn[l] = halt[t]
  BY DEF MembersOf, IInv, TypeOK, LeadersReturnWithTheHalt
<1>2. ASSUME Halted(t) PROVE mob[l] = "dead"
  <2>1. PICK c \in MembersOf(t), s \in MembersOf(t) :
             Role[c] = "chief" /\ mob[c] = "dead" /\ Role[s] = "shaman" /\ mob[s] = "dead"
    BY <1>2 DEF IInv, HaltedIsLeaderless
  <2>2. c \in Leaders /\ s \in Leaders /\ TribeOf[c] = t /\ TribeOf[s] = t
    BY <2>1 DEF Leaders, MembersOf
  <2>3. Role[l] \in {"chief", "shaman"}
    BY <1>1 DEF Leaders
  <2> QED
    BY <1>1, <2>1, <2>2, <2>3, LeaderAssumption
<1>3. ASSUME NEW p \in Points, KillMob(p) PROVE respawn'[l] = halt'[t]
  <2>1. CASE BothLeadersDown(p)
    <3>1. /\ halt' = [halt EXCEPT ![TribeOf[p]] = LeadershipHalt]
          /\ respawn' = [q \in Points |-> IF TribeOf[q] = TribeOf[p] THEN LeadershipHalt ELSE respawn[q]]
      BY <1>3, <2>1 DEF KillMob, Fell, TriggerHalt, Whole
    <3>2. CASE t = TribeOf[p]
      BY <1>1, <3>1, <3>2
    <3>3. CASE t # TribeOf[p]
      BY <1>1, <3>1, <3>3 DEF Halted
    <3> QED
      BY <3>2, <3>3
  <2>2. CASE ~BothLeadersDown(p)
    <3>1. halt' = halt /\ respawn' = [respawn EXCEPT ![p] = Respawn[p]] /\ mob[p] = "alive"
      BY <1>3, <2>2 DEF KillMob, Fell, ScheduleRespawn
    <3>2. Halted(t) /\ p # l
      BY <1>2, <3>1 DEF Halted
    <3> QED
      BY <1>1, <3>1, <3>2
  <2> QED
    BY <2>1, <2>2
<1>4. CASE Tick
  <2>1. halt' = halt /\ Halted(t)
    BY <1>4 DEF Tick, TickWorld, TickTimers, Back, Halted
  <2>2. l \notin Restocked \cup DueSpawns
    BY <1>1, <2>1, LeaderAssumption DEF Restocked, DueSpawns
  <2> QED
    BY <1>1, <1>4, <2>1, <2>2 DEF Tick, TickWorld, TickTimers, Back
<1>5. CASE Elapse
  <2>1. halt'[t] = Less(halt[t]) /\ respawn'[l] = Less(respawn[l])
    BY <1>1, <1>5 DEF Elapse
  <2>2. Halted(t)
    BY <1>1, <2>1 DEF Halted, Less
  <2> QED
    BY <1>1, <2>1, <2>2
<1>6. ~SeasonReset
  BY DEF SeasonReset, Halted
<1>7. CASE \E c \in ScoutIds : KillScout(c)
  BY <1>1, <1>7 DEF KillScout, Halted
<1> QED
  BY <1>3, <1>4, <1>5, <1>6, <1>7, NoMishap DEF Next, Kill

\* A broken tribe regroups as one: the tick after its halt finds both leaders due and,
\* but for what was slain meanwhile, everybody else.
THEOREM TribesRegroup == Undisturbed => (Spec => BrokenTribesRegroup)
<1> SUFFICES ASSUME Undisturbed PROVE Spec => BrokenTribesRegroup
  OBVIOUS
<1> USE RepopAssumption, NoTimerNegative
<1> DEFINE Regrouped == \A t \in Tribes : Halted(t) /\ ~Halted(t)' /\ ~NewSeason =>
              \A p \in MembersOf(t) :
                 \/ respawn'[p] = 0
                 \/ p \notin Leaders /\ mob[p] = "dead" /\ respawn[p] <= Respawn[p]
<1>1. Init => LeadersReturnWithTheHalt
  BY DEF Init, LeadersReturnWithTheHalt, Halted
<1>2. IInv /\ LeadersReturnWithTheHalt /\ [Next]_vars => LeadersReturnWithTheHalt'
  <2>1. CASE UNCHANGED vars
    BY <2>1 DEF vars, LeadersReturnWithTheHalt, Halted
  <2> QED
    BY <2>1, LeadersKeepToTheHalt
<1>3. IInv /\ LeadersReturnWithTheHalt /\ [Next]_vars => [Regrouped]_vars
  <2> SUFFICES ASSUME IInv, LeadersReturnWithTheHalt, Next, NEW t \in Tribes,
                      Halted(t), ~Halted(t)', ~NewSeason, NEW p \in MembersOf(t),
                      ~(p \notin Leaders /\ mob[p] = "dead" /\ respawn[p] <= Respawn[p])
               PROVE  respawn'[p] = 0
    BY DEF vars
  <2>1. /\ p \in Points /\ TribeOf[p] = t /\ halt[t] \in TimeLeft(LeadershipHalt)
        /\ halt \in [Tribes -> TimeLeft(LeadershipHalt)]
        /\ respawn \in [Points -> Nat \cup {NoTimer}] /\ respawn[p] \in Nat \cup {NoTimer}
    BY DEF IInv, TypeOK, MembersOf
  <2>2. ~Tick /\ ~SeasonReset /\ ~(\E c \in ScoutIds : KillScout(c))
    BY DEF Tick, TickWorld, TickTimers, Back, SeasonReset, KillScout, Halted, NewSeason
  <2>3. ~Kill
    BY <2>1 DEF Kill, KillMob, Fell, TriggerHalt, Whole, ScheduleRespawn, Halted
  <2>4. Elapse
    BY <2>2, <2>3, NoMishap DEF Next
  <2>5. respawn'[p] = Less(respawn[p]) /\ halt[t] = 1
    BY <2>1, <2>4 DEF Elapse, Less, Halted, TimeLeft
  <2>6. Pending(p) /\ (respawn[p] > halt[t] => mob[p] = "dead" /\ respawn[p] <= Respawn[p])
    BY <2>1 DEF IInv, HaltedIsPending
  <2>7. respawn[p] \in Nat /\ respawn[p] <= 1
    <3>1. CASE p \in Leaders
      BY <2>1, <2>5, <3>1 DEF LeadersReturnWithTheHalt
    <3>2. CASE p \notin Leaders
      BY <2>1, <2>5, <2>6, <3>2 DEF Pending
    <3> QED
      BY <3>1, <3>2
  <2> QED
    BY <2>5, <2>7 DEF Less
<1> QED
  BY <1>1, <1>2, <1>3, UndisturbedInvariant, PTL DEF Spec, BrokenTribesRegroup

-----------------------------------------------------------------------------
(* The Shrine *)

\* The Shrine's boundary brings the whole cult back, but for those a server death
\* left without a timer, and leaves the next one ahead, however late the tick and
\* whatever was cut short before (_tick_shrine, restock, mark_shrine_reset).
THEOREM ShrineComesBackWhole == Spec => ShrineRestocksWhole
<1> USE RepopAssumption, NoTimerNegative
<1> DEFINE Restored == ShrineDue /\ shrine' # shrine /\ ~(shrine' < shrine) =>
               /\ shrine' > 0
               /\ \A p \in ShrinePoints \ caught' : TribeOf[p] \in Built => mob'[p] = "alive"
<1>1. TypeOK /\ FallenIsPending /\ [Next]_vars => [Restored]_vars
  <2> SUFFICES ASSUME TypeOK, FallenIsPending, Next,
                      ShrineDue, shrine' # shrine, ~(shrine' < shrine)
               PROVE  /\ shrine' > 0
                      /\ \A p \in ShrinePoints \ caught' : TribeOf[p] \in Built => mob'[p] = "alive"
    BY DEF vars
  <2>1. shrine \in Int /\ shrine # NoTimer
    BY DEF TypeOK, ShrineDue
  <2>2. ~Elapse /\ ~CureDead /\ ~CrashInTick /\ ~Rebuild /\ ~CrashInRebuild
    BY <2>1 DEF Elapse, CureDead, CrashInTick, Rebuild, CrashInRebuild
  <2>3. ~Kill /\ ~CrashInKill /\ ~CrashInKillScout /\ ~(\E c \in ScoutIds : KillScout(c))
    BY DEF Kill, KillMob, CrashInKill, FallUnreported, HaltCutShort, Fell, KillScout,
           CrashInKillScout
  <2>4. Tick \/ SeasonReset \/ CrashInSeason
    BY <2>2, <2>3 DEF Next
  <2>5. CASE Tick
    <3>1. shrine' = NextBoundary(shrine)
      BY <2>1, <2>5 DEF Tick, TickWorld, TickTimers, Back
    <3>2. shrine' > 0
      BY <2>1, <3>1, NextBoundaryAhead
    <3>3. ASSUME NEW p \in ShrinePoints, TribeOf[p] \in Built, p \notin caught'
          PROVE  mob'[p] = "alive"
      <4>1. p \in Points /\ SpawnMob(p) = "alive" /\ p \notin caught
        BY <2>5, <3>3 DEF SpawnMob, Tick, TickWorld, TickTimers, Back
      <4>2. mob'[p] = IF p \in Restocked \cup DueSpawns THEN SpawnMob(p) ELSE mob[p]
        BY <2>5, <4>1 DEF Tick, TickWorld, Back
      <4>3. CASE Pending(p)
        BY <3>3, <4>1, <4>2, <4>3 DEF Restocked
      <4>4. CASE ~Pending(p)
        <5>1. mob[p] = "alive"
          BY <3>3, <4>1, <4>4 DEF FallenIsPending, Fallen
        <5> QED
          BY <4>1, <4>2, <5>1
      <4> QED
        BY <4>3, <4>4
    <3> QED
      BY <3>2, <3>3
  <2>6. CASE SeasonReset
    BY <2>6 DEF SeasonReset
  <2>7. CASE CrashInSeason
    <3>1. ASSUME NEW saved, SeasonSaved(saved) PROVE shrine' > 0
      BY <3>1 DEF SeasonSaved
    <3>2. shrine' > 0
      BY <2>7, <3>1 DEF CrashInSeason, SeasonNotRebuilt, SeasonDespawning, SeasonPopulating
    <3>3. ASSUME NEW p \in ShrinePoints, TribeOf[p] \in Built, p \notin caught'
          PROVE  mob'[p] = "alive"
      <4>1. p \in Points
        BY <3>3
      <4>2. CASE SeasonNotRebuilt
        BY <3>3, <4>1, <4>2 DEF SeasonNotRebuilt, Fallen
      <4>3. CASE SeasonDespawning
        BY <3>3, <4>1, <4>3 DEF SeasonDespawning, Fallen
      <4>4. CASE SeasonPopulating
        BY <3>3, <4>1, <4>4 DEF SeasonPopulating
      <4> QED
        BY <2>7, <4>2, <4>3, <4>4 DEF CrashInSeason
    <3> QED
      BY <3>2, <3>3
  <2> QED
    BY <2>4, <2>5, <2>6, <2>7
<1> QED
  BY <1>1, TypeCorrect, FallenStaysPending, PTL DEF Spec, ShrineRestocksWhole

-----------------------------------------------------------------------------
(* Refinement of the promise *)

Home == {p \in Points : TribeOf[p] \in Built}
Standing == {p \in Points : mob[p] = "alive"}
Broken == {t \in Tribes : Halted(t)}

\* A death is a fall, and it breaks the tribe exactly when the promise says.
LEMMA DeathIsAFall ==
    ASSUME IInv, IInv', NEW p \in Points, KillMob(p)
    PROVE  Promise!Fall(p) /\ p \in Home
<1> USE RepopAssumption, NoTimerNegative
<1>1. TypeOK
  BY DEF IInv
<1>2. mob[p] = "alive" /\ mob' = [mob EXCEPT ![p] = "dead"] /\ p \in Home
  BY <1>1 DEF KillMob, Fell, IInv, LairsArePopulated, Home
<1>3. p \in Standing /\ Standing' = Standing \ {p}
  BY <1>1, <1>2 DEF Standing, TypeOK
<1>4. Promise!Commands(p) <=> p \in Leaders
  BY DEF Promise!Commands, Leaders
<1>5. \A q \in OtherLeaders(p) : /\ q \in Home
                                 /\ Pending(q) <=> q \notin Standing
  <2> TAKE q \in OtherLeaders(p)
  <2>1. q \in Leaders /\ q \in Points /\ TribeOf[q] = TribeOf[p]
    BY DEF OtherLeaders, Leaders
  <2>2. mob[q] \in {"alive", "dead"} /\ q \in Home
    BY <1>1, <1>2, <2>1 DEF IInv, LairsArePopulated, TypeOK, Home
  <2>3. Pending(q) <=> mob[q] = "dead"
    BY <2>1, DeadIsPending DEF IInv, LeaderOnTimerIsDead
  <2> QED
    BY <2>1, <2>2, <2>3 DEF Standing
<1>6. Promise!Counterparts(p) = OtherLeaders(p)
  <2>1. Promise!Counterparts(p) = {q \in Home : TribeOf[q] = TribeOf[p] /\ Role[q] # "none" /\ Role[q] # Role[p]}
    BY DEF Promise!Counterparts, Promise!Commands, Home
  <2>2. OtherLeaders(p) = {q \in Points : TribeOf[q] = TribeOf[p] /\ Role[q] # "none" /\ Role[q] # Role[p]}
    BY DEF OtherLeaders, Leaders
  <2> QED
    BY <2>1, <2>2, <1>2 DEF Home
<1>7. BothLeadersDown(p) <=> Promise!Commands(p) /\ Promise!Counterparts(p) \ Standing # {}
  BY <1>4, <1>5, <1>6 DEF BothLeadersDown
<1>8. Broken' = IF BothLeadersDown(p) THEN Broken \cup {TribeOf[p]} ELSE Broken
  <2>1. CASE BothLeadersDown(p)
    <3>1. halt' = [halt EXCEPT ![TribeOf[p]] = LeadershipHalt]
      BY <2>1 DEF KillMob, Fell, TriggerHalt, Whole
    <3> QED
      BY <1>1, <2>1, <3>1 DEF Broken, Halted, TypeOK
  <2>2. CASE ~BothLeadersDown(p)
    BY <2>2 DEF KillMob, Fell, ScheduleRespawn, Broken, Halted
  <2> QED
    BY <2>1, <2>2
<1> QED
  BY <1>2, <1>3, <1>7, <1>8 DEF Promise!Fall, Standing, Broken

\* A tick is a return: nothing of a broken tribe, and fallen leaders together.
LEMMA TickIsAReturn ==
    ASSUME IInv, Tick
    PROVE  \E S \in SUBSET (Home \ Standing) : Promise!Return(S)
<1> USE RepopAssumption, NoTimerNegative
<1> DEFINE back == Restocked \cup DueSpawns
           S == {p \in Home \ Standing : p \in back}
<1>1. TypeOK
  BY DEF IInv
<1>2. /\ mob' = [p \in Points |-> IF p \in back THEN SpawnMob(p) ELSE mob[p]]
      /\ halt' = halt
  BY DEF Tick, TickWorld, TickTimers, Back
<1>3. Broken' = Broken
  BY <1>2 DEF Broken, Halted
<1>4. Standing' = Standing \cup S
  BY <1>1, <1>2 DEF Standing, Home, SpawnMob, TypeOK
<1>5. \A p \in ShrinePoints : p \notin Leaders /\ ~Halted(TribeOf[p])
  <2> TAKE p \in ShrinePoints
  <2>1. \A l \in MembersOf(TribeOf[p]) : l \notin Leaders
    BY LeaderAssumption DEF MembersOf
  <2>2. \A l \in MembersOf(TribeOf[p]) : Role[l] = "none"
    BY <2>1 DEF MembersOf, Leaders
  <2>3. p \in MembersOf(TribeOf[p])
    BY DEF MembersOf
  <2> QED
    BY <2>1, <2>2, <2>3 DEF IInv, HaltedIsLeaderless
<1>6. \A p \in S : TribeOf[p] \notin Broken
  BY <1>5 DEF Broken, Restocked, DueSpawns
<1>7. ASSUME NEW p \in S, Promise!Commands(p), NEW q \in Promise!Counterparts(p) \ Standing
      PROVE  q \in S
  <2>1. /\ p \in Leaders /\ q \in Leaders /\ q \in Home \ Standing
        /\ TribeOf[q] = TribeOf[p] /\ p \in Home \ Standing
    BY <1>7 DEF Promise!Commands, Promise!Counterparts, Home, Leaders
  <2>2. mob[p] = "dead" /\ mob[q] = "dead"
    BY <2>1, <1>1 DEF IInv, LairsArePopulated, TypeOK, Home, Standing
  <2>3. respawn[p] = respawn[q]
    BY <2>1, <2>2 DEF IInv, LeadersReturnTogether
  <2>4. p \in DueSpawns
    BY <2>1, <1>5 DEF Restocked
  <2>5. q \in DueSpawns
    BY <2>1, <2>3, <2>4, <1>5 DEF DueSpawns, Leaders, Restocked
  <2> QED
    BY <2>1, <2>5
<1>8. Promise!Return(S)
  <2>1. \A p \in S : Promise!Commands(p) => Promise!Counterparts(p) \ Standing \subseteq S
    BY <1>7
  <2> HIDE DEF S
  <2> QED
    BY <1>3, <1>4, <1>6, <2>1 DEF Promise!Return, Standing, Broken
<1>9. S \in SUBSET (Home \ Standing)
  OBVIOUS
<1> HIDE DEF S
<1> QED
  BY <1>8, <1>9 DEF Promise!Return

\* Undisturbed, the manager implements what it promises the players.
THEOREM RepopKeepsPromise == Undisturbed => (Spec => Promise!PromiseSafety)
<1> SUFFICES ASSUME Undisturbed PROVE Spec => Promise!PromiseSafety
  OBVIOUS
<1> USE RepopAssumption, NoTimerNegative
<1>1. Init => Promise!PromiseInit
  <2> SUFFICES ASSUME Init PROVE Promise!PromiseInit
    OBVIOUS
  <2>1. Standing = Home /\ Broken = {}
    BY DEF Init, Standing, Home, Broken, Halted
  <2> QED
    BY <2>1 DEF Promise!PromiseInit, Standing, Home, Broken
<1>2. IInv /\ IInv' /\ [Next]_vars => [Promise!PromiseNext]_(Promise!promiseVars)
  <2> SUFFICES ASSUME IInv, IInv', [Next]_vars
               PROVE  Promise!PromiseNext \/ UNCHANGED Promise!promiseVars
    OBVIOUS
  <2>1. CASE Kill
    BY <2>1, DeathIsAFall DEF Kill, Promise!PromiseNext, Home
  <2>2. CASE Tick
    BY <2>2, TickIsAReturn DEF Promise!PromiseNext, Home, Standing
  <2>3. CASE Elapse
    <3> DEFINE T == {t \in Broken : ~(halt'[t] > 0)}
    <3>1. Standing' = Standing
      BY <2>3 DEF Elapse, Standing
    <3>2. Broken' = Broken \ T
      BY <2>3 DEF Elapse, Broken, Halted, Less, IInv, TypeOK, TimeLeft
    <3>3. Promise!Mend(T)
      BY <3>1, <3>2 DEF Promise!Mend, Standing, Broken
    <3>4. T \in SUBSET Broken
      OBVIOUS
    <3> QED
      BY <3>3, <3>4 DEF Promise!PromiseNext, Broken
  <2>4. CASE SeasonReset
    <3>1. Standing' = Home /\ Broken' = {}
      BY <2>4 DEF SeasonReset, Standing, Home, Broken, Halted
    <3> QED
      BY <3>1 DEF Promise!NewSeason, Promise!PromiseNext, Standing, Home, Broken
  <2>5. ASSUME UNCHANGED <<mob, halt>>
        PROVE  UNCHANGED Promise!promiseVars
    BY <2>5 DEF Promise!promiseVars, Halted
  <2>6. ASSUME NEW c \in ScoutIds, KillScout(c)
        PROVE  UNCHANGED <<mob, halt>>
    BY <2>6 DEF KillScout
  <2>7. CASE UNCHANGED vars
    BY <2>5, <2>7 DEF vars
  <2>8. /\ ~CrashInKill /\ ~CrashInKillScout /\ ~CureDead /\ ~CrashInTick
        /\ ~CrashInSeason /\ ~Rebuild /\ ~CrashInRebuild
    BY NoMishap
  <2> QED
    BY <2>1, <2>2, <2>3, <2>4, <2>5, <2>6, <2>7, <2>8 DEF Next
<1> QED
  BY <1>1, <1>2, UndisturbedInvariant, PTL DEF Spec, Promise!PromiseSafety
=============================================================================
