---------------------------- MODULE PriestProofs -----------------------------
(***************************************************************************)
(* Theorems about the priest plot for any players, any pool of at least two *)
(* and any clues, and its refinement of the promise in Hunt.                *)
(***************************************************************************)
EXTENDS Priest, FiniteSetTheorems, TLAPS

\* The Curate tells p of c.
Told(p, c) ==
    /\ MeetsCurate(p) /\ c \notin sightings[p]
    /\ sightings' = [sightings EXCEPT ![p] = @ \cup {c}]
    /\ UNCHANGED <<proofs, own>>

\* What p comes to know by any of the four paths.
Learns(p) ==
    \/ \E c \in Clues : Sights(p, c) \/ Told(p, c)
    \/ \E x \in Clues \cup {Aura} : Proves(p, x)

LEMMA DrawsAreClues ==
    ASSUME TypeOK, NEW i \in 1 .. ClueCount PROVE clues[i] \in Clues
BY DEF TypeOK, Draws

\* Each path is an investigation from which the player learns one thing.
LEMMA PathsLearn ==
    ASSUME TypeOK, NEW p \in Players,
           \/ \E n \in Pool : DetectEvil(p, n)
           \/ \E c \in Clues : WitnessNightAct(p, c)
           \/ SearchForObject(p) \/ CurateDialogue(p)
    PROVE  Investigates(p) /\ Learns(p)
<1>1. CASE \E n \in Pool : DetectEvil(p, n)
  BY <1>1 DEF DetectEvil, Learns
<1>2. CASE \E c \in Clues : WitnessNightAct(p, c)
  BY <1>2 DEF WitnessNightAct, Learns
<1>3. CASE SearchForObject(p)
  BY <1>3, DrawsAreClues DEF SearchForObject, Learns
<1>4. CASE CurateDialogue(p)
  <2>1. PICK i \in 1 .. ClueCount :
            /\ MeetsCurate(p) /\ IsFirst(i, Clues \ sightings[p]) /\ Investigates(p)
            /\ sightings' = [sightings EXCEPT ![p] = @ \cup {clues[i]}]
            /\ UNCHANGED <<proofs, own>>
    BY <1>4 DEF CurateDialogue
  <2>2. clues[i] \in Clues /\ clues[i] \notin sightings[p]
    BY <2>1, DrawsAreClues DEF IsFirst
  <2> QED
    BY <2>1, <2>2 DEF Learns, Told
<1> QED
  BY <1>1, <1>2, <1>3, <1>4

\* Every step is one of five kinds.
LEMMA StepKinds ==
    ASSUME TypeOK, [Next]_vars
    PROVE  \/ \E p \in Players : Investigates(p) /\ Learns(p)
           \/ \E p \in Players : Report(p)
           \/ ResetSeason \/ OpenSeason \/ CutShort \/ UNCHANGED vars
<1>1. CASE Next
  <2>1. CASE \E p \in Players : \/ \E n \in Pool : DetectEvil(p, n)
                                \/ \E c \in Clues : WitnessNightAct(p, c)
                                \/ SearchForObject(p) \/ CurateDialogue(p)
    BY <2>1, PathsLearn
  <2> QED
    BY <1>1, <2>1 DEF Next
<1> QED
  BY <1>1

LEMMA SightingsAreFinite ==
    ASSUME NEW S \in SUBSET Clues
    PROVE  IsFiniteSet(S) /\ Cardinality(S) \in Nat
BY PriestAssumption, FS_Subset, FS_CardinalityType

LEMMA MoreIsMore ==
    ASSUME NEW S \in SUBSET Clues, NEW T \in SUBSET S
    PROVE  Cardinality(T) <= Cardinality(S)
BY SightingsAreFinite, FS_Subset

-----------------------------------------------------------------------------
(* What an investigation changes *)

LEMMA LearningKeepsTypes ==
    ASSUME TypeOK, NEW p \in Players, Investigates(p), Learns(p)
    PROVE  TypeOK'
<1>1. about' \in [Players -> SUBSET Pool]
  BY DEF TypeOK, Investigates
<1>2. /\ sightings' \in [Players -> SUBSET Clues] /\ own' \in [Players -> SUBSET Clues]
      /\ proofs' \in [Players -> SUBSET (Clues \cup {Aura})]
  BY DEF TypeOK, Learns, Sights, Told, Proves
<1> QED
  BY <1>1, <1>2 DEF TypeOK, Investigates, plot, Draws

\* It only adds, and only to the one player.
LEMMA LearningAdds ==
    ASSUME TypeOK, NEW p \in Players, Learns(p)
    PROVE  /\ \A q \in Players : sightings[q] \subseteq sightings'[q] /\ proofs[q] \subseteq proofs'[q]
           /\ \A q \in Players \ {p} : sightings'[q] = sightings[q] /\ proofs'[q] = proofs[q]
BY DEF TypeOK, Learns, Sights, Told, Proves

LEMMA LearningKeepsHearsay ==
    ASSUME TypeOK, OwnIsSighted, NobodyAccusesOnHearsay, NEW p \in Players, Learns(p)
    PROVE  OwnIsSighted' /\ NobodyAccusesOnHearsay'
<1> SUFFICES ASSUME NEW q \in Players
             PROVE  /\ own'[q] \subseteq sightings'[q]
                    /\ sightings'[q] # own'[q] => Cardinality(own'[q]) >= CurateThreshold
  BY DEF OwnIsSighted, NobodyAccusesOnHearsay
<1>0. /\ own[q] \subseteq sightings[q] /\ sightings[q] \in SUBSET Clues /\ own[q] \in SUBSET Clues
      /\ sightings[q] # own[q] => Cardinality(own[q]) >= CurateThreshold
  BY DEF OwnIsSighted, NobodyAccusesOnHearsay, TypeOK
<1>1. CASE q # p \/ \E x \in Clues \cup {Aura} : Proves(p, x)
  <2>1. sightings'[q] = sightings[q] /\ own'[q] = own[q]
    BY <1>1 DEF Learns, Sights, Told, Proves, TypeOK
  <2> QED
    BY <1>0, <2>1
<1>2. ASSUME q = p, NEW c \in Clues, Sights(p, c)
      PROVE  /\ own'[q] \subseteq sightings'[q]
             /\ sightings'[q] # own'[q] => Cardinality(own'[q]) >= CurateThreshold
  <2>1. sightings'[q] = sightings[q] \cup {c} /\ own'[q] = own[q] \cup {c}
    BY <1>2 DEF Sights, TypeOK
  <2>2. Cardinality(own[q]) <= Cardinality(own[q] \cup {c})
    BY <1>0, <1>2, MoreIsMore
  <2>3. Cardinality(own[q]) \in Nat /\ Cardinality(own[q] \cup {c}) \in Nat
    BY <1>0, <1>2, SightingsAreFinite
  <2>4. sightings[q] # own[q] => Cardinality(own[q] \cup {c}) >= CurateThreshold
    BY <1>0, <2>2, <2>3, PriestAssumption
  <2> QED
    BY <1>0, <2>1, <2>4
<1>3. ASSUME q = p, NEW c \in Clues, Told(p, c)
      PROVE  /\ own'[q] \subseteq sightings'[q]
             /\ sightings'[q] # own'[q] => Cardinality(own'[q]) >= CurateThreshold
  <2>1. sightings'[q] = sightings[q] \cup {c} /\ own'[q] = own[q]
    BY <1>3 DEF Told, TypeOK
  <2>2. Cardinality(sightings[q]) >= CurateThreshold
    BY <1>3 DEF Told, MeetsCurate
  <2>3. Cardinality(own[q]) >= CurateThreshold
    BY <1>0, <2>2
  <2> QED
    BY <1>0, <2>1, <2>3
<1> QED
  BY <1>1, <1>2, <1>3 DEF Learns

-----------------------------------------------------------------------------
(* The inductive invariant *)

LEMMA InitHolds == Init => IInv
<1> SUFFICES ASSUME Init PROVE IInv
  OBVIOUS
<1>1. TypeOK
  <2>1. exposed \in BOOLEAN /\ resetting \in BOOLEAN
    BY Zenon DEF Init
  <2>2. /\ spy \in Pool /\ clues \in Draws /\ served \in Pool
        /\ season \in 1 .. MaxSeason /\ crashes \in Nat
    BY PriestAssumption DEF Init
  <2>3. /\ sightings \in [Players -> SUBSET Clues] /\ own \in [Players -> SUBSET Clues]
        /\ proofs \in [Players -> SUBSET (Clues \cup {Aura})]
        /\ about \in [Players -> SUBSET Pool]
        /\ unmaskings \subseteq (1 .. MaxSeason) \X Players \X Pool
    BY DEF Init
  <2> QED
    BY <2>1, <2>2, <2>3 DEF TypeOK
<1>2. OwnIsSighted /\ NobodyAccusesOnHearsay /\ FirstTrailIsTheSpys
  BY DEF Init, OwnIsSighted, NobodyAccusesOnHearsay, FirstTrailIsTheSpys
<1>3. /\ FirstHuntIsOnTheTrail /\ UnmaskingsArePast /\ FlagIsTheUnmasking
      /\ OneUnmaskingASeason /\ SpyIsTurnedOver
  BY DEF Init, FirstHuntIsOnTheTrail, UnmaskingsArePast, FlagIsTheUnmasking,
         OneUnmaskingASeason, SpyIsTurnedOver
<1> QED
  BY <1>1, <1>2, <1>3 DEF Init, IInv

LEMMA LearningKeepsIInv ==
    ASSUME IInv, NEW p \in Players, Investigates(p), Learns(p)
    PROVE  IInv'
<1>1. TypeOK'
  BY LearningKeepsTypes DEF IInv
<1>2. OwnIsSighted' /\ NobodyAccusesOnHearsay'
  BY LearningKeepsHearsay DEF IInv
<1>3. /\ about' = [about EXCEPT ![p] = @ \cup {spy}]
      /\ UNCHANGED <<spy, clues, exposed, season, resetting, served, unmaskings, crashes>>
  BY DEF Investigates, plot
<1>4. FirstTrailIsTheSpys'
  <2> SUFFICES ASSUME season = 1, crashes = 0, ~resetting, NEW q \in Players,
                      sightings'[q] # {} \/ proofs'[q] # {}
               PROVE  spy \in about'[q]
    BY <1>3 DEF FirstTrailIsTheSpys
  <2>1. CASE q = p
    BY <1>3, <2>1 DEF IInv, TypeOK
  <2>2. CASE q # p
    BY <1>3, <2>2, LearningAdds DEF IInv, TypeOK, FirstTrailIsTheSpys
  <2> QED
    BY <2>1, <2>2
<1>5. FirstHuntIsOnTheTrail'
  BY <1>3 DEF IInv, TypeOK, FirstHuntIsOnTheTrail
<1>6. UnmaskingsArePast' /\ FlagIsTheUnmasking' /\ OneUnmaskingASeason' /\ SpyIsTurnedOver'
  BY <1>3 DEF IInv, UnmaskingsArePast, FlagIsTheUnmasking, OneUnmaskingASeason, SpyIsTurnedOver
<1> QED
  BY <1>1, <1>2, <1>3, <1>4, <1>5, <1>6 DEF IInv

\* Who can report has evidence of some kind.
LEMMA ReportNeedsEvidence ==
    ASSUME NEW p \in Players, CanReport(p) PROVE sightings[p] # {} \/ proofs[p] # {}
BY PriestAssumption, FS_EmptySet DEF CanReport

LEMMA ReportKeepsIInv ==
    ASSUME IInv, NEW p \in Players, Report(p)
    PROVE  IInv'
<1>1. /\ ~resetting /\ ~exposed /\ CanReport(p) /\ exposed' = TRUE
      /\ unmaskings' = unmaskings \cup {<<season, p, spy>>}
      /\ UNCHANGED <<spy, clues, sightings, proofs, own, about, season, resetting, served, crashes>>
  BY DEF Report, evidence
<1>2. TypeOK'
  BY <1>1 DEF IInv, TypeOK, Draws
<1>3. OwnIsSighted' /\ NobodyAccusesOnHearsay' /\ FirstTrailIsTheSpys' /\ SpyIsTurnedOver'
  BY <1>1 DEF IInv, OwnIsSighted, NobodyAccusesOnHearsay, FirstTrailIsTheSpys, SpyIsTurnedOver
<1>4. FirstHuntIsOnTheTrail'
  <2>1. crashes = 0 /\ season = 1 => spy \in about[p]
    BY <1>1, ReportNeedsEvidence DEF IInv, FirstTrailIsTheSpys
  <2> QED
    BY <1>1, <2>1 DEF IInv, FirstHuntIsOnTheTrail
<1>5. UnmaskingsArePast'
  BY <1>1 DEF IInv, UnmaskingsArePast, TypeOK
<1>6. FlagIsTheUnmasking'
  <2>1. <<season, p, spy>> \in unmaskings' /\ <<season, p, spy>>[1] = season'
    BY <1>1
  <2> QED
    BY <1>1, <2>1 DEF FlagIsTheUnmasking
<1>7. OneUnmaskingASeason'
  <2> SUFFICES ASSUME crashes = 0, NEW u \in unmaskings', NEW w \in unmaskings', u[1] = w[1]
               PROVE  u = w
    BY <1>1 DEF OneUnmaskingASeason
  <2>1. \A v \in unmaskings : v[1] # season
    BY <1>1 DEF IInv, FlagIsTheUnmasking
  <2>2. <<season, p, spy>>[1] = season
    OBVIOUS
  <2>3. u \in unmaskings /\ w \in unmaskings => u = w
    BY DEF IInv, OneUnmaskingASeason
  <2> QED
    BY <1>1, <2>1, <2>2, <2>3
<1> QED
  BY <1>1, <1>2, <1>3, <1>4, <1>5, <1>6, <1>7 DEF IInv

LEMMA SeasonKeepsIInv ==
    ASSUME IInv, ResetSeason \/ OpenSeason \/ CutShort
    PROVE  IInv'
<1>0. UNCHANGED <<sightings, proofs, own, about, unmaskings>>
  BY DEF ResetSeason, OpenSeason, CutShort, evidence, plot
<1>1. TypeOK'
  <2>1. season \in 1 .. MaxSeason /\ MaxSeason \in Nat /\ crashes \in Nat
    BY PriestAssumption DEF IInv, TypeOK
  <2>2. CASE ResetSeason
    BY <1>0, <2>2 DEF ResetSeason, AssignSpy, IInv, TypeOK, Draws
  <2>3. CASE OpenSeason
    <3>1. season' \in 1 .. MaxSeason
      BY <2>1, <2>3 DEF OpenSeason, IInv
    <3> QED
      BY <1>0, <2>3, <3>1 DEF OpenSeason, plot, IInv, TypeOK, Draws
  <2>4. CASE CutShort
    <3>1. crashes' \in Nat
      BY <2>1, <2>4 DEF CutShort
    <3> QED
      BY <1>0, <2>4, <3>1 DEF CutShort, plot, IInv, TypeOK, Draws
  <2> QED
    BY <2>2, <2>3, <2>4
<1>2. OwnIsSighted' /\ NobodyAccusesOnHearsay'
  BY <1>0 DEF IInv, OwnIsSighted, NobodyAccusesOnHearsay
<1>3. CASE ResetSeason
  <2>1. /\ ~resetting /\ season < MaxSeason /\ spy' \in Pool \ {spy} /\ exposed' = FALSE /\ resetting' = TRUE
        /\ UNCHANGED <<season, served, crashes>>
    BY <1>3 DEF ResetSeason, AssignSpy
  <2>2. FirstTrailIsTheSpys' /\ FirstHuntIsOnTheTrail' /\ UnmaskingsArePast' /\ FlagIsTheUnmasking'
        /\ OneUnmaskingASeason'
    BY <1>0, <2>1 DEF IInv, FirstTrailIsTheSpys, FirstHuntIsOnTheTrail, UnmaskingsArePast,
                      FlagIsTheUnmasking, OneUnmaskingASeason
  <2>3. SpyIsTurnedOver'
    BY <2>1 DEF IInv, SpyIsTurnedOver
  <2> QED
    BY <1>1, <1>2, <2>1, <2>2, <2>3 DEF IInv
<1>4. CASE OpenSeason
  <2>1. /\ resetting /\ season' = season + 1 /\ served' = spy /\ resetting' = FALSE
        /\ UNCHANGED <<spy, clues, exposed, crashes>>
    BY <1>4 DEF OpenSeason, plot
  <2>2. season \in Nat /\ season >= 1 /\ \A u \in unmaskings : u[1] \in Nat /\ u[1] <= season
    BY PriestAssumption DEF IInv, TypeOK, UnmaskingsArePast
  <2>3. UnmaskingsArePast' /\ FirstTrailIsTheSpys'
    BY <1>0, <2>1, <2>2 DEF UnmaskingsArePast, FirstTrailIsTheSpys
  <2>4. FirstHuntIsOnTheTrail' /\ OneUnmaskingASeason' /\ SpyIsTurnedOver'
    BY <1>0, <2>1 DEF IInv, FirstHuntIsOnTheTrail, OneUnmaskingASeason, SpyIsTurnedOver
  <2>5. FlagIsTheUnmasking'
    <3>1. \A u \in unmaskings : u[1] # season + 1
      BY <2>2
    <3>2. ~exposed
      BY <2>1 DEF IInv
    <3> QED
      BY <1>0, <2>1, <3>1, <3>2 DEF FlagIsTheUnmasking
  <2> QED
    BY <1>1, <1>2, <2>1, <2>3, <2>4, <2>5 DEF IInv
<1>5. CASE CutShort
  <2>1. crashes' # 0 /\ resetting' = FALSE /\ UNCHANGED <<season>>
    BY <1>5 DEF CutShort, IInv, TypeOK
  <2>2. /\ FirstTrailIsTheSpys' /\ FirstHuntIsOnTheTrail' /\ FlagIsTheUnmasking'
        /\ OneUnmaskingASeason' /\ SpyIsTurnedOver'
    BY <2>1 DEF FirstTrailIsTheSpys, FirstHuntIsOnTheTrail, FlagIsTheUnmasking,
                OneUnmaskingASeason, SpyIsTurnedOver
  <2>3. UnmaskingsArePast'
    BY <1>0, <2>1 DEF IInv, UnmaskingsArePast
  <2> QED
    BY <1>1, <1>2, <2>1, <2>2, <2>3 DEF IInv
<1> QED
  BY <1>3, <1>4, <1>5

LEMMA StutterKeepsIInv ==
    ASSUME IInv, UNCHANGED vars PROVE IInv'
BY DEF IInv, vars, TypeOK, Draws, OwnIsSighted, NobodyAccusesOnHearsay, FirstTrailIsTheSpys,
       FirstHuntIsOnTheTrail, UnmaskingsArePast, FlagIsTheUnmasking, OneUnmaskingASeason, SpyIsTurnedOver

\* Evidence, its history, the flag and the two writes of a reset stay in agreement
\* through every investigation, report and reset, whole or cut short.
THEOREM Inductive == Spec => []IInv
<1>1. IInv /\ [Next]_vars => IInv'
  <2> SUFFICES ASSUME IInv, [Next]_vars PROVE IInv'
    OBVIOUS
  <2>1. TypeOK
    BY DEF IInv
  <2> QED
    BY <2>1, StepKinds, LearningKeepsIInv, ReportKeepsIInv, SeasonKeepsIInv, StutterKeepsIInv
<1> QED
  BY <1>1, InitHolds, PTL DEF Spec

-----------------------------------------------------------------------------

\* Every variable keeps its type.
THEOREM TypeCorrect == Spec => []TypeOK
<1>1. IInv => TypeOK
  BY DEF IInv
<1> QED
  BY <1>1, Inductive, PTL

\* Nobody accuses on the Curate's word alone (curate_dialogue).
THEOREM HearsayIsNotEnough == Spec => []NobodyAccusesOnHearsay
<1>1. IInv => NobodyAccusesOnHearsay
  BY DEF IInv
<1> QED
  BY <1>1, Inductive, PTL

\* However many players hold proof, a season that is not cut short has one
\* unmasking (report_to_castellan).
THEOREM ExposureFiresOnce == Spec => []OneUnmaskingASeason
<1>1. IInv => OneUnmaskingASeason
  BY DEF IInv
<1> QED
  BY <1>1, Inductive, PTL

\* The first season's accuser has evidence of the man he accuses (detection.py).
THEOREM FirstAccuserIsRight == Spec => []FirstHuntIsOnTheTrail
<1>1. IInv => FirstHuntIsOnTheTrail
  BY DEF IInv
<1> QED
  BY <1>1, Inductive, PTL

\* While no reset is cut short no spy serves two seasons running (assign_spy).
THEOREM SpiesAlternate == Spec => NoSpyTwiceRunning
<1>1. IInv /\ [Next]_vars => [season' # season /\ crashes = 0 => served' # served]_vars
  <2> SUFFICES ASSUME IInv, [Next]_vars, season' # season, crashes = 0 PROVE served' # served
    OBVIOUS
  <2>1. TypeOK
    BY DEF IInv
  <2>2. OpenSeason
    BY <2>1, StepKinds DEF Investigates, Report, ResetSeason, CutShort, vars
  <2> QED
    BY <2>2 DEF OpenSeason, IInv, SpyIsTurnedOver
<1> QED
  BY <1>1, Inductive, PTL DEF Spec, NoSpyTwiceRunning

\* Evidence is only ever gathered, one player at a time, and one report on good
\* evidence exposes the spy until the next hunt: the plot implements Hunt.
THEOREM ImplementsHunt == Spec => KeepsTheHunt
<1> DEFINE Ready == {p \in Players : CanReport(p)}
           Heard == {p \in Players : MeetsCurate(p)}
<1>1. Init => Promise!HuntInit
  <2> SUFFICES ASSUME Init PROVE Promise!HuntInit
    OBVIOUS
  <2>1. \A p \in Players : ~CanReport(p)
    BY ReportNeedsEvidence DEF Init
  <2>2. \A p \in Players : ~MeetsCurate(p)
    BY FS_EmptySet, PriestAssumption DEF Init, MeetsCurate
  <2> QED
    BY <2>1, <2>2 DEF Init, Promise!HuntInit
<1>2. IInv /\ [Next]_vars => [Promise!HuntNext]_(Promise!huntVars)
  <2> SUFFICES ASSUME IInv, [Next]_vars
               PROVE  Promise!HuntNext \/ UNCHANGED <<exposed, Ready, Heard>>
    BY DEF Promise!huntVars
  <2>1. TypeOK
    BY DEF IInv
  <2>2. ASSUME UNCHANGED <<sightings, proofs>> PROVE UNCHANGED <<Ready, Heard>>
    BY <2>2 DEF CanReport, MeetsCurate
  <2>3. ASSUME NEW p \in Players, Investigates(p), Learns(p) PROVE Promise!Gather(p)
    <3>1. UNCHANGED exposed
      BY <2>3 DEF Investigates, plot
    <3>2. \A q \in Players \ {p} : (CanReport(q)' <=> CanReport(q)) /\ (MeetsCurate(q)' <=> MeetsCurate(q))
      BY <2>1, <2>3, LearningAdds DEF CanReport, MeetsCurate
    <3>3. Cardinality(sightings[p]) <= Cardinality(sightings'[p])
      <4>1. sightings'[p] \in SUBSET Clues /\ sightings[p] \in SUBSET sightings'[p]
        BY <2>1, <2>3, LearningKeepsTypes, LearningAdds DEF TypeOK
      <4> QED
        BY <4>1, MoreIsMore
    <3>4. Cardinality(sightings[p]) \in Nat /\ Cardinality(sightings'[p]) \in Nat
      BY <2>1, <2>3, LearningKeepsTypes, SightingsAreFinite DEF TypeOK
    <3>5. CanReport(p) => CanReport(p)'
      BY <2>1, <2>3, <3>3, <3>4, LearningAdds, PriestAssumption DEF CanReport
    <3>6. MeetsCurate(p) => MeetsCurate(p)'
      BY <3>3, <3>4, PriestAssumption DEF MeetsCurate
    <3>7. Ready' \in {Ready, Ready \cup {p}}
      BY <3>2, <3>5
    <3>8. Heard' \in {Heard, Heard \cup {p}}
      BY <3>2, <3>6
    <3> QED
      BY <3>1, <3>7, <3>8 DEF Promise!Gather
  <2>4. ASSUME NEW p \in Players, Report(p) PROVE Promise!Expose(p)
    BY <2>2, <2>4 DEF Report, evidence, Promise!Expose, Promise!Accepted
  <2>5. CASE ResetSeason
    BY <2>2, <2>5 DEF ResetSeason, AssignSpy, evidence, Promise!NewHunt, Promise!HuntNext
  <2>6. CASE OpenSeason \/ CutShort \/ UNCHANGED vars
    BY <2>2, <2>6 DEF OpenSeason, CutShort, vars, plot, evidence
  <2> QED
    BY <2>1, <2>3, <2>4, <2>5, <2>6, StepKinds DEF Promise!HuntNext
<1> QED
  BY <1>1, <1>2, Inductive, PTL DEF Spec, KeepsTheHunt, Promise!HuntSpec
=============================================================================
