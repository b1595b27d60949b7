---------------------------- MODULE QuestsProofs -----------------------------
(***************************************************************************)
(* Theorems about the quest log for any players and any catalog.  The       *)
(* argument is entry by entry: five things can happen to one player's entry *)
(* for one quest, and every invariant but the last two follows from them.   *)
(***************************************************************************)
EXTENDS Quests, FiniteSetTheorems, TLAPS

\* A turn-in of which n writes are made; all five are, or it was cut short.
Turn(p, q, n) ==
    /\ CanTurnIn(p, q)
    /\ Writes(p, q, n)
    /\ crashes' = IF n = 5 THEN crashes ELSE crashes + 1
    /\ UNCHANGED <<now, ready, heard, slain, hunts, after>>

\* What stays the same of an entry that only gains its deed.
SameEntry(p, q) ==
    /\ log'[p][q].state = log[p][q].state /\ log'[p][q].progress = log[p][q].progress
    /\ log'[p][q].times = log[p][q].times /\ log'[p][q].cooldown = log[p][q].cooldown
SamePay(p, q) == paid'[p][q] = paid[p][q] /\ lastPaid'[p][q] = lastPaid[p][q]

Rests(p, q) == SameEntry(p, q) /\ SamePay(p, q)
IsTaken(p, q) ==
    /\ IsAvailable(p, q) /\ log'[p][q] = Accepted(q, log[p][q]) /\ SamePay(p, q)
IsCredited(p, q) ==
    /\ log[p][q].state = "active"
    /\ log'[p][q] = Credited(q, log[p][q], Prey[q]) /\ SamePay(p, q)
    /\ slain'[p][Prey[q]] = slain[p][Prey[q]] + 1
IsTurnedIn(p, q) ==
    /\ CanTurnIn(p, q) /\ log'[p][q] = TurnedIn(q, log[p][q])
    /\ paid'[p][q] = paid[p][q] + 1 /\ lastPaid'[p][q] = now
    /\ now' = now /\ crashes' = crashes
IsCut(p, q) ==
    /\ CanTurnIn(p, q) /\ log'[p][q] = log[p][q]
    /\ paid'[p][q] \in {paid[p][q], paid[p][q] + 1}
    /\ crashes' = crashes + 1

\* What may happen to one entry in a step.
EntryStep(p, q) == Rests(p, q) \/ IsTaken(p, q) \/ IsCredited(p, q) \/ IsTurnedIn(p, q) \/ IsCut(p, q)

\* What every step does to the clock and the counts.
Onward ==
    /\ now' \in Nat /\ now' >= now
    /\ crashes' \in Nat /\ crashes' >= crashes
    /\ \A p \in Players, f \in Factions : slain'[p][f] \in Nat /\ slain'[p][f] >= slain[p][f]

\* Every step is one of eight kinds.
LEMMA StepKinds ==
    ASSUME [Next]_vars
    PROVE  \/ \E p \in Players, q \in Catalog : Accept(p, q) \/ Deed(p, q)
           \/ \E p \in Players, q \in Catalog, n \in 1 .. 5 : Turn(p, q, n)
           \/ \E p \in Players, f \in Factions : Kill(p, f)
           \/ \E p \in Players : Gather(p)
           \/ NewHunt \/ Pass \/ UNCHANGED vars
<1>1. ASSUME NEW p \in Players, NEW q \in Catalog, TurnIn(p, q) PROVE Turn(p, q, 5)
  BY <1>1 DEF TurnIn, Turn
<1>2. ASSUME NEW p \in Players, NEW q \in Catalog, TurnInCut(p, q)
      PROVE  \E n \in 1 .. 5 : Turn(p, q, n)
  <2>1. PICK n \in 1 .. 4 : Writes(p, q, n)
    BY <1>2 DEF TurnInCut
  <2> QED
    BY <1>2, <2>1 DEF TurnInCut, Turn
<1> QED
  BY <1>1, <1>2 DEF Next

-----------------------------------------------------------------------------
(* Types *)

LEMMA HelpersKeepTypes ==
    ASSUME TypeOK, NEW q \in Catalog, NEW e \in Entries
    PROVE  /\ Accepted(q, e) \in Entries /\ TurnedIn(q, e) \in Entries
           /\ \A f \in Factions : Credited(q, e, f) \in Entries
           /\ [e EXCEPT !.deed = TRUE] \in Entries
<1>1. Cooldown \in Nat /\ Kills[q] \in Nat /\ now \in Nat
  BY QuestsAssumption DEF TypeOK
<1>2. Accepted(q, e) \in Entries
  BY DEF Accepted, NoEntry, Entries
<1>3. TurnedIn(q, e) \in Entries
  <2>1. ASSUME NEW c \in Nat, NEW t \in Nat
        PROVE  [e EXCEPT !.state = "complete", !.times = t, !.cooldown = c] \in Entries
    BY <2>1, Zenon DEF Entries
  <2>2. (IF q \in Repeatable THEN now + Cooldown ELSE 0) \in Nat /\ e.times + 1 \in Nat
    BY <1>1 DEF Entries
  <2> QED
    BY <2>1, <2>2, Zenon DEF TurnedIn
<1>4. ASSUME NEW f \in Factions PROVE Credited(q, e, f) \in Entries
  <2>1. Lesser(Kills[q], e.progress + 1) \in Nat
    BY <1>1 DEF Lesser, Entries
  <2> QED
    BY <2>1 DEF Credited, Entries
<1>5. [e EXCEPT !.deed = TRUE] \in Entries
  BY DEF Entries
<1> QED
  BY <1>2, <1>3, <1>4, <1>5

\* No entry ever holds more progress than its quest asks for.
LEMMA ProgressIsCapped ==
    ASSUME TypeOK, NEW q \in Catalog, NEW e \in Entries, IsDeedOnly(q) \/ e.progress <= Kills[q]
    PROVE  /\ IsDeedOnly(q) \/ Accepted(q, e).progress <= Kills[q]
           /\ IsDeedOnly(q) \/ TurnedIn(q, e).progress <= Kills[q]
           /\ \A f \in Factions : IsDeedOnly(q) \/ Credited(q, e, f).progress <= Kills[q]
<1>1. Kills[q] \in Nat /\ e.progress \in Nat
  BY QuestsAssumption DEF Entries
<1>2. IsDeedOnly(q) \/ Accepted(q, e).progress <= Kills[q]
  BY <1>1 DEF Accepted, NoEntry, Entries
<1>3. IsDeedOnly(q) \/ TurnedIn(q, e).progress <= Kills[q]
  BY <1>1 DEF TurnedIn, Entries
<1>4. ASSUME NEW f \in Factions PROVE IsDeedOnly(q) \/ Credited(q, e, f).progress <= Kills[q]
  BY <1>1 DEF Credited, Lesser, Entries
<1> QED
  BY <1>2, <1>3, <1>4

\* The log, the part of TypeOK that most steps change.
LogOK ==
    /\ log \in [Players -> [Catalog -> Entries]]
    /\ \A p \in Players, q \in Catalog : IsDeedOnly(q) \/ log[p][q].progress <= Kills[q]

LEMMA LogKeepsTypes ==
    ASSUME TypeOK, [Next]_vars
    PROVE  LogOK'
<1> USE DEF LogOK
<1>0. LogOK
  BY DEF TypeOK
<1>1. ASSUME NEW p \in Players, NEW q \in Catalog, NEW e \in Entries,
             IsDeedOnly(q) \/ e.progress <= Kills[q],
             log' = [log EXCEPT ![p][q] = e]
      PROVE  LogOK'
  BY <1>0, <1>1 DEF IsDeedOnly
<1>2. ASSUME NEW p \in Players, NEW q \in Catalog, Accept(p, q) PROVE LogOK'
  <2>1. log[p][q] \in Entries
    BY <1>0
  <2>2. log' = [log EXCEPT ![p][q] = Accepted(q, log[p][q])]
    BY <1>0, <1>2 DEF Accept
  <2> QED
    BY <1>0, <1>1, <2>1, <2>2, HelpersKeepTypes, ProgressIsCapped
<1>3. ASSUME NEW p \in Players, NEW q \in Catalog, Deed(p, q) PROVE LogOK'
  <2>1. log[p][q] \in Entries
    BY <1>0
  <2>2. log' = [log EXCEPT ![p][q] = [log[p][q] EXCEPT !.deed = TRUE]]
    BY <1>0, <1>3 DEF Deed
  <2>3. [log[p][q] EXCEPT !.deed = TRUE].progress = log[p][q].progress
    BY <2>1 DEF Entries
  <2> QED
    BY <1>0, <1>1, <2>1, <2>2, <2>3, HelpersKeepTypes
<1>4. ASSUME NEW p \in Players, NEW q \in Catalog, NEW n \in 1 .. 5, Turn(p, q, n) PROVE LogOK'
  <2>1. CASE n >= 5
    <3>1. log[p][q] \in Entries
      BY <1>0
    <3>2. log' = [log EXCEPT ![p][q] = TurnedIn(q, log[p][q])]
      BY <1>0, <1>4, <2>1 DEF Turn, Writes
    <3> QED
      BY <1>0, <1>1, <3>1, <3>2, HelpersKeepTypes, ProgressIsCapped
  <2>2. CASE ~(n >= 5)
    BY <1>0, <1>4, <2>2 DEF Turn, Writes, IsDeedOnly
  <2> QED
    BY <2>1, <2>2
<1>5. ASSUME NEW p \in Players, NEW f \in Factions, Kill(p, f) PROVE LogOK'
  <2>1. log' = [log EXCEPT ![p] = [q \in Catalog |-> Credited(q, log[p][q], f)]]
    BY <1>0, <1>5 DEF Kill
  <2>2. \A q \in Catalog : Credited(q, log[p][q], f) \in Entries
    BY <1>0, HelpersKeepTypes
  <2>3. \A q \in Catalog : IsDeedOnly(q) \/ Credited(q, log[p][q], f).progress <= Kills[q]
    <3> TAKE q \in Catalog
    <3>1. log[p][q] \in Entries /\ (IsDeedOnly(q) \/ log[p][q].progress <= Kills[q])
      BY <1>0
    <3> QED
      BY <3>1, ProgressIsCapped
  <2> QED
    BY <1>0, <2>1, <2>2, <2>3 DEF IsDeedOnly
<1>6. CASE \/ \E p \in Players : Gather(p)
           \/ NewHunt \/ Pass \/ UNCHANGED vars
  BY <1>0, <1>6 DEF Gather, NewHunt, Pass, vars, IsDeedOnly
<1> QED
  BY <1>2, <1>3, <1>4, <1>5, <1>6, StepKinds
-----------------------------------------------------------------------------
(* One entry *)

LEMMA TurnMovesAnEntry ==
    ASSUME TypeOK, NEW r \in Players, NEW s \in Catalog, NEW n \in 1 .. 5, Turn(r, s, n),
           NEW p \in Players, NEW q \in Catalog
    PROVE  EntryStep(p, q)
<1>1. /\ log \in [Players -> [Catalog -> Entries]]
      /\ paid \in [Players -> [Catalog -> Nat]] /\ lastPaid \in [Players -> [Catalog -> Nat]]
  BY DEF TypeOK
<1>2. CASE p # r \/ q # s
  <2>1. log'[p][q] = log[p][q] /\ paid'[p][q] = paid[p][q] /\ lastPaid'[p][q] = lastPaid[p][q]
    BY <1>1, <1>2 DEF Turn, Writes
  <2> QED
    BY <2>1 DEF EntryStep, Rests, SameEntry, SamePay
<1>3. CASE p = r /\ q = s /\ n = 5
  <2>1. /\ log'[p][q] = TurnedIn(q, log[p][q]) /\ paid'[p][q] = paid[p][q] + 1
        /\ lastPaid'[p][q] = now
    BY <1>1, <1>3 DEF Turn, Writes
  <2> QED
    BY <1>3, <2>1 DEF Turn, EntryStep, IsTurnedIn
<1>4. CASE p = r /\ q = s /\ n # 5
  <2>1. log'[p][q] = log[p][q] /\ paid'[p][q] \in {paid[p][q], paid[p][q] + 1}
    BY <1>1, <1>4 DEF Turn, Writes
  <2> QED
    BY <1>4, <2>1 DEF Turn, EntryStep, IsCut
<1> QED
  BY <1>2, <1>3, <1>4

LEMMA EveryStepMovesEntries ==
    ASSUME TypeOK, [Next]_vars, NEW p \in Players, NEW q \in Catalog
    PROVE  EntryStep(p, q)
<1>1. log \in [Players -> [Catalog -> Entries]] /\ slain \in [Players -> [Factions -> Nat]]
  BY DEF TypeOK
<1>2. ASSUME NEW r \in Players, NEW s \in Catalog, Accept(r, s) PROVE EntryStep(p, q)
  <2>1. SamePay(p, q)
    BY <1>2 DEF Accept, history, SamePay
  <2>2. CASE p = r /\ q = s
    <3>1. log'[p][q] = Accepted(q, log[p][q])
      BY <1>1, <1>2, <2>2 DEF Accept
    <3> QED
      BY <1>2, <2>1, <2>2, <3>1 DEF Accept, EntryStep, IsTaken
  <2>3. CASE p # r \/ q # s
    <3>1. log'[p][q] = log[p][q]
      BY <1>1, <1>2, <2>3 DEF Accept
    <3> QED
      BY <2>1, <3>1 DEF EntryStep, Rests, SameEntry
  <2> QED
    BY <2>2, <2>3
<1>3. ASSUME NEW r \in Players, NEW s \in Catalog, Deed(r, s) PROVE EntryStep(p, q)
  <2>1. SamePay(p, q)
    BY <1>3 DEF Deed, history, SamePay
  <2>2. log' = [log EXCEPT ![r][s] = [log[r][s] EXCEPT !.deed = TRUE]]
    BY <1>1, <1>3 DEF Deed
  <2>3. SameEntry(p, q)
    <3>1. CASE p = r /\ q = s
      <4>1. log'[p][q] = [log[p][q] EXCEPT !.deed = TRUE] /\ log[p][q] \in Entries
        BY <1>1, <2>2, <3>1
      <4> QED
        BY <4>1 DEF SameEntry, Entries
    <3>2. CASE p # r \/ q # s
      <4>1. log'[p][q] = log[p][q]
        BY <1>1, <2>2, <3>2
      <4> QED
        BY <4>1 DEF SameEntry
    <3> QED
      BY <3>1, <3>2
  <2> QED
    BY <2>1, <2>3 DEF EntryStep, Rests
<1>4. ASSUME NEW r \in Players, NEW f \in Factions, Kill(r, f) PROVE EntryStep(p, q)
  <2>1. SamePay(p, q)
    BY <1>4 DEF Kill, history, SamePay
  <2>2. log' = [log EXCEPT ![r] = [s \in Catalog |-> Credited(s, log[r][s], f)]]
    BY <1>1, <1>4 DEF Kill
  <2>3. CASE p = r /\ log[p][q].state = "active" /\ Prey[q] = f
    <3>1. log'[p][q] = Credited(q, log[p][q], f)
      BY <1>1, <2>2, <2>3
    <3>2. slain'[p][f] = slain[p][f] + 1
      BY <1>1, <1>4, <2>3 DEF Kill
    <3> QED
      BY <2>1, <2>3, <3>1, <3>2 DEF EntryStep, IsCredited
  <2>4. CASE p # r \/ log[p][q].state # "active" \/ Prey[q] # f
    <3>1. log'[p][q] = log[p][q]
      BY <1>1, <2>2, <2>4 DEF Credited
    <3> QED
      BY <2>1, <3>1 DEF EntryStep, Rests, SameEntry
  <2> QED
    BY <2>3, <2>4
<1>5. CASE \/ \E r \in Players : Gather(r)
           \/ NewHunt \/ Pass \/ UNCHANGED vars
  <2>1. log' = log /\ UNCHANGED <<paid, lastPaid>>
    BY <1>5 DEF Gather, NewHunt, Pass, vars, history
  <2> QED
    BY <2>1 DEF EntryStep, Rests, SameEntry, SamePay
<1> QED
  BY <1>2, <1>3, <1>4, <1>5, StepKinds, TurnMovesAnEntry

LEMMA EveryStepIsOnward ==
    ASSUME TypeOK, [Next]_vars PROVE Onward
<1>1. now \in Nat /\ crashes \in Nat /\ slain \in [Players -> [Factions -> Nat]]
  BY DEF TypeOK
<1>2. ASSUME NEW p \in Players, NEW q \in Catalog, Accept(p, q) \/ Deed(p, q) PROVE Onward
  BY <1>1, <1>2 DEF Accept, Deed, Onward
<1>3. ASSUME NEW p \in Players, NEW q \in Catalog, NEW n \in 1 .. 5, Turn(p, q, n) PROVE Onward
  BY <1>1, <1>3 DEF Turn, Onward
<1>4. ASSUME NEW p \in Players, NEW f \in Factions, Kill(p, f) PROVE Onward
  BY <1>1, <1>4 DEF Kill, Onward
<1>5. CASE \/ \E p \in Players : Gather(p)
           \/ NewHunt \/ Pass \/ UNCHANGED vars
  BY <1>1, <1>5 DEF Gather, NewHunt, Pass, vars, Onward
<1> QED
  BY <1>2, <1>3, <1>4, <1>5, StepKinds

\* What the five things do to an entry and its payments, in numbers.
LEMMA EntryNumbers ==
    ASSUME TypeOK, NEW p \in Players, NEW q \in Catalog
    PROVE  /\ log[p][q].state \in {"none", "active", "complete"}
           /\ log[p][q].progress \in Nat /\ log[p][q].times \in Nat /\ log[p][q].cooldown \in Nat
           /\ paid[p][q] \in Nat /\ lastPaid[p][q] \in Nat
           /\ Kills[q] \in Nat /\ Prey[q] \in Factions
           /\ now \in Nat /\ crashes \in Nat
<1>1. log[p][q] \in Entries
  BY DEF TypeOK
<1> QED
  BY <1>1, QuestsAssumption DEF TypeOK, Entries

LEMMA TakenEntry ==
    ASSUME TypeOK, NEW p \in Players, NEW q \in Catalog, IsTaken(p, q)
    PROVE  /\ log'[p][q].state = "active" /\ log'[p][q].progress = 0
           /\ log'[p][q].times = log[p][q].times
BY DEF IsTaken, Accepted, NoEntry

LEMMA CreditedEntry ==
    ASSUME TypeOK, NEW p \in Players, NEW q \in Catalog, IsCredited(p, q)
    PROVE  /\ log'[p][q].state = log[p][q].state /\ log'[p][q].times = log[p][q].times
           /\ log'[p][q].cooldown = log[p][q].cooldown
           /\ log'[p][q].progress \in Nat /\ log'[p][q].progress <= log[p][q].progress + 1
<1>1. log[p][q] \in Entries
  BY DEF TypeOK
<1>2. log'[p][q] = [log[p][q] EXCEPT !.progress = Lesser(Kills[q], log[p][q].progress + 1)]
  BY DEF IsCredited, Credited
<1>3. /\ Lesser(Kills[q], log[p][q].progress + 1) \in Nat
      /\ Lesser(Kills[q], log[p][q].progress + 1) <= log[p][q].progress + 1
  BY EntryNumbers DEF Lesser
<1>4. /\ log'[p][q].state = log[p][q].state /\ log'[p][q].times = log[p][q].times
      /\ log'[p][q].cooldown = log[p][q].cooldown
      /\ log'[p][q].progress = Lesser(Kills[q], log[p][q].progress + 1)
  BY <1>1, <1>2 DEF Entries
<1> QED
  BY <1>3, <1>4

LEMMA TurnedInEntry ==
    ASSUME TypeOK, NEW p \in Players, NEW q \in Catalog, IsTurnedIn(p, q)
    PROVE  /\ log'[p][q].state = "complete" /\ log'[p][q].times = log[p][q].times + 1
           /\ log'[p][q].progress = log[p][q].progress
           /\ q \in Repeatable => log'[p][q].cooldown = now + Cooldown
<1>1. log[p][q] \in Entries
  BY DEF TypeOK
<1> QED
  BY <1>1 DEF IsTurnedIn, TurnedIn, Entries

\* Completions are never taken back.
LEMMA TimesGrow ==
    ASSUME TypeOK, [Next]_vars, NEW p \in Players, NEW q \in Catalog
    PROVE  log'[p][q].times \in Nat /\ log'[p][q].times >= log[p][q].times
<1>1. log[p][q].times \in Nat
  BY EntryNumbers
<1>2. EntryStep(p, q)
  BY EveryStepMovesEntries
<1>3. CASE Rests(p, q)
  BY <1>1, <1>3 DEF Rests, SameEntry
<1>4. CASE IsTaken(p, q)
  BY <1>1, <1>4, TakenEntry
<1>5. CASE IsCredited(p, q)
  BY <1>1, <1>5, CreditedEntry
<1>6. CASE IsTurnedIn(p, q)
  BY <1>1, <1>6, TurnedInEntry
<1>7. CASE IsCut(p, q)
  BY <1>1, <1>7 DEF IsCut
<1> QED
  BY <1>2, <1>3, <1>4, <1>5, <1>6, <1>7 DEF EntryStep

-----------------------------------------------------------------------------
(* The invariants of an entry *)

LEMMA PaymentsKept ==
    ASSUME TypeOK, PaidForWhatIsDone, [Next]_vars PROVE PaidForWhatIsDone'
<1> SUFFICES ASSUME NEW p \in Players, NEW q \in Catalog
             PROVE  log'[p][q].times <= paid'[p][q] /\ paid'[p][q] <= log'[p][q].times + crashes'
  BY DEF PaidForWhatIsDone
<1>1. log[p][q].times <= paid[p][q] /\ paid[p][q] <= log[p][q].times + crashes
  BY DEF PaidForWhatIsDone
<1>2. log[p][q].times \in Nat /\ paid[p][q] \in Nat /\ crashes \in Nat
  BY EntryNumbers
<1>3. crashes' \in Nat /\ crashes' >= crashes
  BY EveryStepIsOnward DEF Onward
<1>4. CASE Rests(p, q)
  BY <1>1, <1>2, <1>3, <1>4 DEF Rests, SameEntry, SamePay
<1>5. CASE IsTaken(p, q)
  BY <1>1, <1>2, <1>3, <1>5, TakenEntry DEF IsTaken, SamePay
<1>6. CASE IsCredited(p, q)
  BY <1>1, <1>2, <1>3, <1>6, CreditedEntry DEF IsCredited, SamePay
<1>7. CASE IsTurnedIn(p, q)
  BY <1>1, <1>2, <1>7, TurnedInEntry DEF IsTurnedIn
<1>8. CASE IsCut(p, q)
  BY <1>1, <1>2, <1>8 DEF IsCut
<1> QED
  BY <1>4, <1>5, <1>6, <1>7, <1>8, EveryStepMovesEntries DEF EntryStep

LEMMA CountsKept ==
    ASSUME TypeOK, CompleteIsCounted, [Next]_vars PROVE CompleteIsCounted'
<1> SUFFICES ASSUME NEW p \in Players, NEW q \in Catalog
             PROVE  /\ log'[p][q].state = "complete" => log'[p][q].times > 0
                    /\ log'[p][q].state = "none" => log'[p][q].times = 0
  BY DEF CompleteIsCounted
<1>1. /\ log[p][q].state = "complete" => log[p][q].times > 0
      /\ log[p][q].state = "none" => log[p][q].times = 0
  BY DEF CompleteIsCounted
<1>2. log[p][q].times \in Nat
  BY EntryNumbers
<1>3. CASE Rests(p, q)
  BY <1>1, <1>3 DEF Rests, SameEntry
<1>4. CASE IsTaken(p, q)
  BY <1>4, TakenEntry
<1>5. CASE IsCredited(p, q)
  BY <1>1, <1>5, CreditedEntry
<1>6. CASE IsTurnedIn(p, q)
  BY <1>2, <1>6, TurnedInEntry
<1>7. CASE IsCut(p, q)
  BY <1>1, <1>7 DEF IsCut
<1> QED
  BY <1>3, <1>4, <1>5, <1>6, <1>7, EveryStepMovesEntries DEF EntryStep

LEMMA StoriesKept ==
    ASSUME TypeOK, CompleteIsCounted, StoryIsDoneOnce, [Next]_vars PROVE StoryIsDoneOnce'
<1> SUFFICES ASSUME NEW p \in Players, NEW q \in Catalog \ Repeatable
             PROVE  /\ log'[p][q].times <= 1
                    /\ log'[p][q].times > 0 => log'[p][q].state = "complete"
  BY DEF StoryIsDoneOnce
<1>1. log[p][q].times <= 1 /\ (log[p][q].times > 0 => log[p][q].state = "complete")
  BY DEF StoryIsDoneOnce
<1>2. log[p][q].times \in Nat
  BY EntryNumbers
<1>3. CASE Rests(p, q)
  BY <1>1, <1>3 DEF Rests, SameEntry
<1>4. CASE IsTaken(p, q)
  <2>1. log[p][q].times = 0
    BY <1>4 DEF IsTaken, IsAvailable, CompleteIsCounted
  <2> QED
    BY <1>4, <2>1, TakenEntry
<1>5. CASE IsCredited(p, q)
  BY <1>1, <1>5, CreditedEntry
<1>6. CASE IsTurnedIn(p, q)
  <2>1. log[p][q].times = 0
    BY <1>1, <1>2, <1>6 DEF IsTurnedIn, CanTurnIn
  <2> QED
    BY <1>6, <2>1, TurnedInEntry
<1>7. CASE IsCut(p, q)
  BY <1>1, <1>7 DEF IsCut
<1> QED
  BY <1>3, <1>4, <1>5, <1>6, <1>7, EveryStepMovesEntries DEF EntryStep

LEMMA OrderKept ==
    ASSUME TypeOK, CompleteIsCounted, ChainInOrder, [Next]_vars PROVE ChainInOrder'
<1> SUFFICES ASSUME NEW p \in Players, NEW q \in Catalog, log'[p][q].state # "none", NEW r \in Prior[q]
             PROVE  log'[p][r].times > 0
  BY DEF ChainInOrder
<1>0. r \in Catalog
  BY QuestsAssumption
<1>1. log[p][r].times \in Nat /\ log'[p][r].times \in Nat /\ log'[p][r].times >= log[p][r].times
  BY <1>0, EntryNumbers, TimesGrow
<1>2. SUFFICES log[p][r].times > 0
  BY <1>1
<1>3. CASE log[p][q].state # "none"
  BY <1>3 DEF ChainInOrder
<1>4. CASE log[p][q].state = "none"
  <2>1. ~Rests(p, q) /\ ~IsCredited(p, q) /\ ~IsTurnedIn(p, q) /\ ~IsCut(p, q)
    BY <1>4 DEF Rests, SameEntry, IsCredited, IsTurnedIn, IsCut, CanTurnIn
  <2>2. IsTaken(p, q)
    BY <2>1, EveryStepMovesEntries DEF EntryStep
  <2> QED
    BY <1>0, <2>2 DEF IsTaken, IsAvailable, PrereqsMet, CompleteIsCounted
<1> QED
  BY <1>3, <1>4

LEMMA CooldownsKept ==
    ASSUME TypeOK, CompleteIsCounted, CooldownIsArmed, [Next]_vars PROVE CooldownIsArmed'
<1> SUFFICES ASSUME crashes' = 0, NEW p \in Players, NEW q \in Repeatable, log'[p][q].times > 0
             PROVE  /\ log'[p][q].state = "complete" => log'[p][q].cooldown = lastPaid'[p][q] + Cooldown
                    /\ log'[p][q].state = "active" => now' >= lastPaid'[p][q] + Cooldown
  BY DEF CooldownIsArmed
<1>0. q \in Catalog /\ Cooldown \in Nat
  BY QuestsAssumption
<1>1. /\ now \in Nat /\ lastPaid[p][q] \in Nat /\ log[p][q].times \in Nat /\ crashes \in Nat
      /\ log[p][q].cooldown \in Nat
  BY <1>0, EntryNumbers
<1>2. now' \in Nat /\ now' >= now /\ crashes' >= crashes
  BY EveryStepIsOnward DEF Onward
<1>3. crashes = 0
  BY <1>1, <1>2
<1>4. log[p][q].times > 0 =>
        /\ log[p][q].state = "complete" => log[p][q].cooldown = lastPaid[p][q] + Cooldown
        /\ log[p][q].state = "active" => now >= lastPaid[p][q] + Cooldown
  BY <1>3 DEF CooldownIsArmed
<1>5. CASE Rests(p, q)
  BY <1>0, <1>1, <1>2, <1>4, <1>5 DEF Rests, SameEntry, SamePay
<1>6. CASE IsTaken(p, q)
  <2>1. log[p][q].times > 0 /\ log'[p][q].state = "active" /\ lastPaid'[p][q] = lastPaid[p][q]
    BY <1>0, <1>6, TakenEntry DEF IsTaken, SamePay
  <2>2. log[p][q].state = "complete" /\ now >= log[p][q].cooldown
    BY <1>0, <1>6, <2>1, <1>1 DEF IsTaken, IsAvailable, CompleteIsCounted
  <2> QED
    BY <1>0, <1>1, <1>2, <1>4, <2>1, <2>2
<1>7. CASE IsCredited(p, q)
  BY <1>0, <1>1, <1>2, <1>4, <1>7, CreditedEntry DEF IsCredited, SamePay
<1>8. CASE IsTurnedIn(p, q)
  BY <1>0, <1>8, TurnedInEntry DEF IsTurnedIn
<1>9. CASE IsCut(p, q)
  BY <1>1, <1>3, <1>9 DEF IsCut
<1> QED
  BY <1>0, <1>5, <1>6, <1>7, <1>8, <1>9, EveryStepMovesEntries DEF EntryStep

LEMMA OneMore ==
    ASSUME NEW t \in Nat, NEW k \in Nat
    PROVE  t * k \in Nat /\ (t + 1) * k = t * k + k
OBVIOUS

LEMMA KillsKept ==
    ASSUME TypeOK, KillsBackCompletions, [Next]_vars PROVE KillsBackCompletions'
<1> DEFINE Done(p, q) == log[p][q].times * Kills[q]
<1> SUFFICES ASSUME NEW p \in Players, NEW q \in Catalog
             PROVE  Done(p, q)' + (IF log'[p][q].state = "active" THEN log'[p][q].progress ELSE 0)
                        <= slain'[p][Prey[q]]
  BY DEF KillsBackCompletions
<1>1. Done(p, q) + (IF log[p][q].state = "active" THEN log[p][q].progress ELSE 0) <= slain[p][Prey[q]]
  BY DEF KillsBackCompletions
<1>2. /\ log[p][q].times \in Nat /\ log[p][q].progress \in Nat /\ Kills[q] \in Nat
      /\ slain[p][Prey[q]] \in Nat
  <2>1. Prey[q] \in Factions
    BY QuestsAssumption
  <2> QED
    BY <2>1, EntryNumbers DEF TypeOK
<1>3. Done(p, q) \in Nat /\ (log[p][q].times + 1) * Kills[q] = Done(p, q) + Kills[q]
  BY <1>2, OneMore
<1>4. slain'[p][Prey[q]] \in Nat /\ slain'[p][Prey[q]] >= slain[p][Prey[q]]
  BY EveryStepIsOnward, EntryNumbers DEF Onward
<1>5. CASE Rests(p, q)
  <2>1. Done(p, q)' = Done(p, q)
    BY <1>5 DEF Rests, SameEntry
  <2> HIDE DEF Done
  <2> QED
    BY <1>1, <1>2, <1>3, <1>4, <1>5, <2>1 DEF Rests, SameEntry
<1>6. CASE IsTaken(p, q)
  <2>1. Done(p, q)' = Done(p, q) /\ log'[p][q].progress = 0
    BY <1>6, TakenEntry
  <2> HIDE DEF Done
  <2> QED
    BY <1>1, <1>2, <1>3, <1>4, <2>1
<1>7. CASE IsCredited(p, q)
  <2>1. Done(p, q)' = Done(p, q)
    BY <1>7, CreditedEntry
  <2> HIDE DEF Done
  <2> QED
    BY <1>1, <1>2, <1>3, <1>7, <2>1, CreditedEntry DEF IsCredited
<1>8. CASE IsTurnedIn(p, q)
  <2>1. Done(p, q)' = Done(p, q) + Kills[q] /\ log'[p][q].state = "complete"
    BY <1>3, <1>8, TurnedInEntry
  <2>2. log[p][q].state = "active" /\ log[p][q].progress >= Kills[q]
    BY <1>8 DEF IsTurnedIn, CanTurnIn, StepsMet
  <2> HIDE DEF Done
  <2> QED
    BY <1>1, <1>2, <1>3, <1>4, <2>1, <2>2
<1>9. CASE IsCut(p, q)
  <2>1. Done(p, q)' = Done(p, q)
    BY <1>9 DEF IsCut
  <2> HIDE DEF Done
  <2> QED
    BY <1>1, <1>2, <1>3, <1>4, <1>9, <2>1 DEF IsCut
<1> QED
  BY <1>5, <1>6, <1>7, <1>8, <1>9, EveryStepMovesEntries DEF EntryStep

-----------------------------------------------------------------------------
(* The rest of TypeOK *)

LEMMA TypesKept ==
    ASSUME TypeOK, [Next]_vars PROVE TypeOK'
<1> DEFINE RestOK ==
        /\ spied \in [Players -> SUBSET AidsCult]
        /\ now \in Nat /\ hunts \in Nat \ {0} /\ crashes \in Nat
        /\ Plot!HuntTypeOK
        /\ paid \in [Players -> [Catalog -> Nat]] /\ lastPaid \in [Players -> [Catalog -> Nat]]
        /\ slain \in [Players -> [Factions -> Nat]]
        /\ sprung \in [Players -> Nat] /\ unsprung \subseteq Players
        /\ after \in Pursuits
<1>0. RestOK
  BY DEF TypeOK
<1>1. SUFFICES RestOK'
  BY LogKeepsTypes DEF TypeOK, LogOK
<1>2. ASSUME NEW p \in Players, NEW q \in Catalog, Accept(p, q) \/ Deed(p, q) PROVE RestOK'
  BY <1>0, <1>2 DEF Accept, Deed, plot, history, Plot!HuntTypeOK
<1>3. ASSUME NEW p \in Players, NEW q \in Catalog, NEW n \in 1 .. 5, Turn(p, q, n) PROVE RestOK'
  <2>1. spied' \in [Players -> SUBSET AidsCult]
    BY <1>0, <1>3 DEF Turn, Writes
  <2>2. paid' \in [Players -> [Catalog -> Nat]] /\ lastPaid' \in [Players -> [Catalog -> Nat]]
    BY <1>0, <1>3 DEF Turn, Writes
  <2>3. sprung' \in [Players -> Nat] /\ unsprung' \subseteq Players
    BY <1>0, <1>3 DEF Turn, Writes
  <2>4. Plot!HuntTypeOK'
    <3>1. exposed' \in BOOLEAN
      BY <1>0, <1>3, Zenon DEF Turn, Writes, Plot!HuntTypeOK
    <3> QED
      BY <1>0, <1>3, <3>1 DEF Turn, Plot!HuntTypeOK
  <2>5. now' = now /\ hunts' = hunts /\ crashes' \in Nat /\ slain' = slain /\ after' = after
    BY <1>0, <1>3 DEF Turn
  <2> QED
    BY <1>0, <2>1, <2>2, <2>3, <2>4, <2>5
<1>4. ASSUME NEW p \in Players, NEW f \in Factions, Kill(p, f) PROVE RestOK'
  BY <1>0, <1>4 DEF Kill, plot, history, Plot!HuntTypeOK
<1>5. ASSUME NEW p \in Players, Gather(p) PROVE RestOK'
  BY <1>0, <1>5 DEF Gather, history, Plot!Gather, Plot!HuntTypeOK
<1>6. CASE NewHunt
  <2>1. exposed' \in BOOLEAN
    BY <1>6, Zenon DEF NewHunt, Plot!NewHunt
  <2>2. ready' = ready /\ heard' = heard
    BY <1>6, Zenon DEF NewHunt, Plot!NewHunt
  <2> QED
    BY <1>0, <1>6, <2>1, <2>2 DEF NewHunt, history, Plot!HuntTypeOK
<1>7. CASE Pass \/ UNCHANGED vars
  BY <1>0, <1>7 DEF Pass, vars, plot, history, Plot!HuntTypeOK
<1> QED
  BY <1>2, <1>3, <1>4, <1>5, <1>6, <1>7, StepKinds

-----------------------------------------------------------------------------
(* The ambush *)

LEMMA ChainsAreFinite ==
    ASSUME NEW S \in SUBSET AidsCult PROVE IsFiniteSet(S) /\ Cardinality(S) \in Nat
BY QuestsAssumption, FS_Subset, FS_CardinalityType

LEMMA AmbushKept ==
    ASSUME TypeOK, AmbushOnce, [Next]_vars PROVE AmbushOnce'
<1>0. /\ spied \in [Players -> SUBSET AidsCult] /\ sprung \in [Players -> Nat]
      /\ ToAmbush \in Nat \ {0}
  BY QuestsAssumption DEF TypeOK
<1>1. ASSUME UNCHANGED <<spied, sprung, unsprung>> PROVE AmbushOnce'
  BY <1>1 DEF AmbushOnce
<1>2. ASSUME NEW r \in Players, NEW q \in Catalog, NEW n \in 1 .. 5, Turn(r, q, n) PROVE AmbushOnce'
  <2> SUFFICES ASSUME NEW p \in Players
               PROVE  /\ sprung'[p] <= 1
                      /\ sprung'[p] = 1 => Cardinality(spied'[p]) >= ToAmbush
                      /\ Cardinality(spied'[p]) >= ToAmbush => sprung'[p] = 1 \/ p \in unsprung'
    BY DEF AmbushOnce
  <2>1. /\ sprung[p] <= 1 /\ sprung[p] \in Nat
        /\ sprung[p] = 1 => Cardinality(spied[p]) >= ToAmbush
        /\ Cardinality(spied[p]) >= ToAmbush => sprung[p] = 1 \/ p \in unsprung
    BY <1>0 DEF AmbushOnce
  <2>2. IsFiniteSet(spied[p]) /\ Cardinality(spied[p]) \in Nat
    BY <1>0, ChainsAreFinite
  <2>3. /\ unsprung \subseteq unsprung'
        /\ p = r /\ n = 3 /\ Springs(p, q) => p \in unsprung'
    BY <1>2 DEF Turn, Writes
  <2>4. CASE p # r \/ n < 3 \/ q \notin AidsCult \ spied[p]
    <3>1. spied'[p] = spied[p]
      BY <1>0, <1>2, <2>4 DEF Turn, Writes
    <3>2. sprung'[p] = sprung[p]
      BY <1>0, <1>2, <2>4 DEF Turn, Writes, Springs
    <3> QED
      BY <2>1, <2>3, <3>1, <3>2
  <2>5. CASE p = r /\ n >= 3 /\ q \in AidsCult \ spied[p]
    <3>1. spied'[p] = spied[p] \cup {q}
      BY <1>0, <1>2, <2>5 DEF Turn, Writes
    <3>2. Cardinality(spied'[p]) = Cardinality(spied[p]) + 1
      BY <2>2, <2>5, <3>1, FS_AddElement
    <3>3. CASE n >= 4 /\ Springs(p, q)
      <4>1. sprung'[p] = sprung[p] + 1
        BY <1>0, <1>2, <2>5, <3>3 DEF Turn, Writes
      <4>2. Cardinality(spied[p]) < ToAmbush /\ Cardinality(spied[p]) + 1 >= ToAmbush
        BY <3>3 DEF Springs
      <4> QED
        BY <1>0, <2>1, <2>2, <3>2, <4>1, <4>2
    <3>4. CASE ~(n >= 4 /\ Springs(p, q))
      <4>1. sprung'[p] = sprung[p]
        BY <1>0, <1>2, <2>5, <3>4 DEF Turn, Writes
      <4>2. p \notin unsprung' /\ Cardinality(spied[p]) + 1 >= ToAmbush => Cardinality(spied[p]) >= ToAmbush
        BY <1>0, <2>2, <2>3, <2>5, <3>4 DEF Springs
      <4> QED
        BY <1>0, <2>1, <2>2, <2>3, <3>2, <4>1, <4>2
    <3> QED
      BY <3>3, <3>4
  <2> QED
    BY <2>4, <2>5
<1>3. ASSUME NEW p \in Players, NEW q \in Catalog, Accept(p, q) \/ Deed(p, q) PROVE AmbushOnce'
  BY <1>1, <1>3 DEF Accept, Deed, history
<1>4. ASSUME NEW p \in Players, NEW f \in Factions, Kill(p, f) PROVE AmbushOnce'
  BY <1>1, <1>4 DEF Kill, history
<1>5. CASE \/ \E p \in Players : Gather(p)
           \/ NewHunt \/ Pass \/ UNCHANGED vars
  BY <1>1, <1>5 DEF Gather, NewHunt, Pass, vars, history
<1> QED
  BY <1>2, <1>3, <1>4, <1>5, StepKinds

-----------------------------------------------------------------------------
(* The heroes *)

LEMMA HeroesKept ==
    ASSUME TypeOK, HeroesFinite, HeroesOfPastHunts, [Next]_vars
    PROVE  HeroesFinite' /\ HeroesOfPastHunts'
<1>0. /\ crashes \in Nat /\ hunts \in Nat \ {0} /\ exposed \in BOOLEAN
      /\ paid \in [Players -> [Catalog -> Nat]]
  BY DEF TypeOK, Plot!HuntTypeOK
<1>1. Cardinality(Heroes) \in Nat
  BY FS_CardinalityType DEF HeroesFinite
<1>2. ASSUME UNCHANGED <<paid, crashes, hunts, exposed>> PROVE HeroesFinite' /\ HeroesOfPastHunts'
  BY <1>2 DEF HeroesFinite, HeroesOfPastHunts, Heroes
<1>3. ASSUME NEW p \in Players, NEW q \in Catalog, NEW n \in 1 .. 5, Turn(p, q, n)
      PROVE  HeroesFinite' /\ HeroesOfPastHunts'
  <2>1. CASE Heroes' = Heroes
    <3>1. crashes' = 0 => crashes = 0 /\ (exposed => exposed')
      BY <1>0, <1>3 DEF Turn, Writes
    <3>2. hunts' = hunts
      BY <1>3 DEF Turn
    <3>3. HeroesFinite'
      BY <2>1 DEF HeroesFinite
    <3>4. crashes' = 0 => Cardinality(Heroes) + (IF exposed' THEN 0 ELSE 1)
                            <= Cardinality(Heroes) + (IF exposed THEN 0 ELSE 1)
      BY <1>1, <3>1
    <3> QED
      BY <1>0, <1>1, <2>1, <3>1, <3>2, <3>3, <3>4 DEF HeroesOfPastHunts
  <2>2. CASE Heroes' # Heroes
    <3>1. n >= 2 /\ q \in Exposing /\ Heroes' = Heroes \cup {<<p, q>>}
      BY <1>0, <1>3, <2>2, QuestsAssumption DEF Turn, Writes, Heroes
    <3>2. HeroesFinite' /\ Cardinality(Heroes') <= Cardinality(Heroes) + 1
      <4>1. <<p, q>> \notin Heroes
        BY <2>2, <3>1
      <4>2. IsFiniteSet(Heroes \cup {<<p, q>>}) /\ Cardinality(Heroes \cup {<<p, q>>}) = Cardinality(Heroes) + 1
        BY <4>1, FS_AddElement DEF HeroesFinite
      <4>3. IsFiniteSet(Heroes') /\ Cardinality(Heroes') <= Cardinality(Heroes) + 1
        BY <1>1, <3>1, <4>2
      <4> QED
        BY <4>3 DEF HeroesFinite
    <3>3. n >= 1
      BY <3>1
    <3>4. ~exposed /\ exposed' /\ hunts' = hunts
      BY <1>3, <3>1, <3>3, Zenon DEF Turn, CanTurnIn, Plot!Accepted, Writes, Exposes
    <3>5. crashes' = 0 => crashes = 0
      BY <1>0, <1>3 DEF Turn
    <3>6. Cardinality(Heroes') \in Nat
      BY <3>2, FS_CardinalityType DEF HeroesFinite
    <3> QED
      BY <1>0, <1>1, <3>2, <3>4, <3>5, <3>6 DEF HeroesOfPastHunts
  <2> QED
    BY <2>1, <2>2
<1>4. ASSUME NEW p \in Players, NEW q \in Catalog, Accept(p, q) \/ Deed(p, q)
      PROVE  HeroesFinite' /\ HeroesOfPastHunts'
  BY <1>2, <1>4 DEF Accept, Deed, history, plot
<1>5. ASSUME NEW p \in Players, NEW f \in Factions, Kill(p, f)
      PROVE  HeroesFinite' /\ HeroesOfPastHunts'
  BY <1>2, <1>5 DEF Kill, history, plot
<1>6. CASE NewHunt
  <2>1. Heroes' = Heroes /\ crashes' = crashes /\ hunts' = hunts + 1
    BY <1>6 DEF NewHunt, history, Heroes
  <2>2. ~exposed'
    BY <1>6, Zenon DEF NewHunt, Plot!NewHunt
  <2>3. HeroesFinite'
    BY <2>1 DEF HeroesFinite
  <2> QED
    BY <1>0, <1>1, <2>1, <2>2, <2>3 DEF HeroesOfPastHunts
<1>7. ASSUME NEW p \in Players, Gather(p) PROVE HeroesFinite' /\ HeroesOfPastHunts'
  BY <1>2, <1>7 DEF Gather, Plot!Gather, history
<1>8. CASE Pass \/ UNCHANGED vars
  BY <1>2, <1>8 DEF Pass, vars, history, plot
<1> QED
  BY <1>3, <1>4, <1>5, <1>6, <1>7, <1>8, StepKinds

-----------------------------------------------------------------------------
(* The theorems *)

LEMMA InitInv == Init => IInv
<1> SUFFICES ASSUME Init PROVE IInv
  OBVIOUS
<1> USE DEF Init
<1>0. Kills \in [Catalog -> Nat] /\ Prey \in [Catalog -> Factions] /\ ToAmbush \in Nat \ {0}
  BY QuestsAssumption
<1>1. TypeOK
  <2>1. NoEntry \in Entries
    BY DEF NoEntry, Entries
  <2>2. Plot!HuntTypeOK
    <3>1. exposed \in BOOLEAN
      BY Zenon DEF Plot!HuntInit
    <3> QED
      BY <3>1 DEF Plot!HuntInit, Plot!HuntTypeOK
  <2>3. \A p \in Players, q \in Catalog : log[p][q].progress = 0
    BY DEF NoEntry
  <2>4. \A p \in Players, q \in Catalog : IsDeedOnly(q) \/ log[p][q].progress <= Kills[q]
    BY <1>0, <2>3
  <2> QED
    BY <2>1, <2>2, <2>4 DEF TypeOK
<1>2. \A p \in Players, q \in Catalog : log[p][q].times = 0 /\ log[p][q].state = "none" /\ paid[p][q] = 0
  BY DEF NoEntry
<1>3. PaidForWhatIsDone
  BY <1>2 DEF PaidForWhatIsDone
<1>4. KillsBackCompletions
  <2>1. \A q \in Catalog : Kills[q] \in Nat /\ Prey[q] \in Factions
    BY <1>0
  <2>2. \A p \in Players, q \in Catalog : log[p][q].times * Kills[q] = 0
    BY <1>2, <2>1
  <2> QED
    BY <1>2, <2>1, <2>2 DEF KillsBackCompletions
<1>5. CompleteIsCounted /\ StoryIsDoneOnce /\ ChainInOrder
  BY <1>2 DEF CompleteIsCounted, StoryIsDoneOnce, ChainInOrder
<1>6. AmbushOnce
  BY <1>0, FS_EmptySet DEF AmbushOnce
<1>7. CooldownIsArmed
  BY <1>2, QuestsAssumption DEF CooldownIsArmed
<1>8. Heroes = {}
  BY QuestsAssumption DEF Heroes
<1>9. HeroesFinite /\ HeroesOfPastHunts
  BY <1>8, FS_EmptySet DEF HeroesFinite, HeroesOfPastHunts
<1> QED
  BY <1>1, <1>3, <1>4, <1>5, <1>6, <1>7, <1>9 DEF IInv

LEMMA NextInv == IInv /\ [Next]_vars => IInv'
BY TypesKept, PaymentsKept, KillsKept, CountsKept, StoriesKept, OrderKept, AmbushKept, CooldownsKept,
   HeroesKept, Zenon DEF IInv

\* Entries, payments, kills and hunts stay in agreement through every step and every
\* turn-in that is cut short.
THEOREM Inductive == Spec => []IInv
<1> QED
  BY InitInv, NextInv, PTL DEF Spec

\* Every variable keeps its type, and no entry holds more progress than it needs.
THEOREM TypeCorrect == Spec => []TypeOK
<1>1. IInv => TypeOK
  BY DEF IInv
<1> QED
  BY <1>1, Inductive, PTL

\* No completion goes unpaid, and nothing is paid beyond the completions but by
\* turn-ins that were cut short, however the writes of CmdTurnin interleave.
THEOREM CompletionsArePaid == Spec => []PaidForWhatIsDone
<1>1. IInv => PaidForWhatIsDone
  BY DEF IInv
<1> QED
  BY <1>1, Inductive, PTL

\* A story quest is paid once in a character's life, and once more for each turn-in
\* that was cut short at most.
THEOREM StoriesPayOnce == Spec => []StoryPaysOnce
<1>1. IInv => StoryPaysOnce
  <2> SUFFICES ASSUME IInv, NEW p \in Players, NEW q \in Catalog \ Repeatable
               PROVE  paid[p][q] <= 1 + crashes
    BY DEF StoryPaysOnce
  <2>1. paid[p][q] <= log[p][q].times + crashes /\ log[p][q].times <= 1
    BY DEF IInv, PaidForWhatIsDone, StoryIsDoneOnce
  <2>2. paid[p][q] \in Nat /\ log[p][q].times \in Nat /\ crashes \in Nat
    BY EntryNumbers DEF IInv
  <2> QED
    BY <2>1, <2>2
<1> QED
  BY <1>1, Inductive, PTL

\* A bounty taken again starts from nothing: every completion is backed by kills of
\* its own.
THEOREM KillsBack == Spec => []KillsBackCompletions
<1>1. IInv => KillsBackCompletions
  BY DEF IInv
<1> QED
  BY <1>1, Inductive, PTL

\* No quest is in the log before those it depends on have been done.
THEOREM ChainsInOrder == Spec => []ChainInOrder
<1>1. IInv => ChainInOrder
  BY DEF IInv
<1> QED
  BY <1>1, Inductive, PTL

\* The cult's ambush springs at most once on a character.
THEOREM AmbushesOnce == Spec => []AmbushOnce
<1>1. IInv => AmbushOnce
  BY DEF IInv
<1> QED
  BY <1>1, Inductive, PTL

\* While no turn-in is cut short there are at most as many heroes as hunts.
THEOREM OneHero == Spec => []OneHeroAHunt
<1>1. IInv => OneHeroAHunt
  <2> SUFFICES ASSUME IInv, crashes = 0 PROVE Cardinality(Heroes) <= hunts
    BY DEF OneHeroAHunt
  <2>1. Cardinality(Heroes) + (IF exposed THEN 0 ELSE 1) <= hunts
    BY DEF IInv, HeroesOfPastHunts
  <2>2. Cardinality(Heroes) \in Nat /\ hunts \in Nat
    BY FS_CardinalityType DEF IInv, HeroesFinite, TypeOK
  <2> QED
    BY <2>1, <2>2
<1> QED
  BY <1>1, Inductive, PTL

\* While no turn-in is cut short a bounty does not pay twice within its cooldown.
THEOREM BountiesRest == Spec => BountyRests
<1>1. ASSUME IInv, [Next]_vars
      PROVE  \A p \in Players, q \in Repeatable :
                paid'[p][q] # paid[p][q] /\ paid[p][q] > 0 /\ crashes = 0 => now - lastPaid[p][q] >= Cooldown
  <2> SUFFICES ASSUME NEW p \in Players, NEW q \in Repeatable,
                      paid'[p][q] # paid[p][q], paid[p][q] > 0, crashes = 0
               PROVE  now - lastPaid[p][q] >= Cooldown
    OBVIOUS
  <2>0. TypeOK /\ q \in Catalog /\ Cooldown \in Nat
    BY <1>1, QuestsAssumption DEF IInv
  <2>1. now \in Nat /\ lastPaid[p][q] \in Nat /\ log[p][q].times \in Nat /\ paid[p][q] \in Nat
    BY <2>0, EntryNumbers
  <2>2. EntryStep(p, q)
    BY <1>1, <2>0, EveryStepMovesEntries
  <2>3. log[p][q].state = "active"
    BY <2>2 DEF EntryStep, Rests, IsTaken, IsCredited, SamePay, IsTurnedIn, IsCut, CanTurnIn
  <2>4. log[p][q].times > 0
    <3>1. paid[p][q] <= log[p][q].times + crashes
      BY <1>1, <2>0 DEF IInv, PaidForWhatIsDone
    <3> QED
      BY <2>1, <3>1
  <2>5. now >= lastPaid[p][q] + Cooldown
    BY <1>1, <2>3, <2>4 DEF IInv, CooldownIsArmed
  <2> QED
    BY <2>0, <2>1, <2>5
<1> QED
  BY <1>1, Inductive, PTL DEF Spec, BountyRests

\* The quests do to the priest plot what Hunt allows and nothing else: whatever Hunt
\* promises holds in their company.
THEOREM ImplementsHunt == Spec => KeepsTheHunt
<1>1. Init => Plot!HuntInit
  BY DEF Init
<1>2. ASSUME [Next]_vars PROVE [Plot!HuntNext]_(Plot!huntVars)
  <2>1. ASSUME NEW p \in Players, NEW q \in Catalog, NEW n \in 1 .. 5, Turn(p, q, n)
        PROVE  Plot!Expose(p) \/ UNCHANGED plot
    <3>1. ready' = ready /\ heard' = heard
      BY <2>1 DEF Turn
    <3>2. CASE n >= 1 /\ Exposes(q)
      <4>1. exposed' = TRUE
        BY <2>1, <3>2, Zenon DEF Turn, Writes
      <4>2. Plot!Accepted(p)
        BY <2>1, <3>2 DEF Turn, CanTurnIn, Exposes
      <4> QED
        BY <3>1, <4>1, <4>2, Zenon DEF Plot!Expose
    <3>3. CASE ~(n >= 1 /\ Exposes(q))
      BY <2>1, <3>1, <3>3, Zenon DEF Turn, Writes, plot
    <3> QED
      BY <3>2, <3>3
  <2>2. ASSUME NEW p \in Players, NEW q \in Catalog, Accept(p, q) \/ Deed(p, q) PROVE UNCHANGED plot
    BY <2>2, Zenon DEF Accept, Deed
  <2>3. ASSUME NEW p \in Players, NEW f \in Factions, Kill(p, f) PROVE UNCHANGED plot
    BY <2>3, Zenon DEF Kill
  <2>4. ASSUME NEW p \in Players, Gather(p) PROVE Plot!Gather(p)
    BY <2>4 DEF Gather
  <2>5. CASE NewHunt
    BY <2>5 DEF NewHunt, Plot!HuntNext
  <2>6. CASE Pass \/ UNCHANGED vars
    BY <2>6, Zenon DEF Pass, vars, plot, Plot!huntVars
  <2> QED
    BY <1>2, <2>1, <2>2, <2>3, <2>4, <2>5, <2>6, StepKinds, Zenon DEF Plot!HuntNext, plot, Plot!huntVars
<1> QED
  BY <1>1, <1>2, PTL DEF Spec, KeepsTheHunt, Plot!HuntSpec
=============================================================================
