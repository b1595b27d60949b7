---------------------------- MODULE FanoutProofs -----------------------------
(***************************************************************************)
(* Theorems about the fan-out for every manifest, number of slots, stall   *)
(* limit and number of tasks, whatever fails and however often.            *)
(***************************************************************************)
EXTENDS Fanout, FiniteSetTheorems, TLAPS

-----------------------------------------------------------------------------
(* Sequences without repetition                                            *)

\* What appending a new element does to a sequence without repetition.
LEMMA Appending ==
    ASSUME NEW S, NEW s \in Seq(S), NEW e \in S, IsInjective(s), e \notin ToSet(s)
    PROVE  /\ Append(s, e) \in Seq(S)
           /\ Len(Append(s, e)) = Len(s) + 1
           /\ ToSet(Append(s, e)) = ToSet(s) \cup {e}
           /\ IsInjective(Append(s, e))
BY DEF ToSet, IsInjective

\* What taking the head off does to one.
LEMMA Heading ==
    ASSUME NEW S, NEW s \in Seq(S), IsInjective(s), s # << >>
    PROVE  /\ Head(s) \in S /\ Head(s) \in ToSet(s)
           /\ Tail(s) \in Seq(S)
           /\ Len(Tail(s)) = Len(s) - 1
           /\ ToSet(Tail(s)) = ToSet(s) \ {Head(s)}
           /\ IsInjective(Tail(s))
<1>1. /\ Head(s) = s[1] /\ Head(s) \in S /\ 1 \in DOMAIN s
      /\ Tail(s) \in Seq(S) /\ Len(Tail(s)) = Len(s) - 1
      /\ \A i \in DOMAIN Tail(s) : i + 1 \in DOMAIN s /\ Tail(s)[i] = s[i + 1]
  OBVIOUS
<1>2. \A i \in DOMAIN s : i # 1 => i - 1 \in DOMAIN Tail(s) /\ Tail(s)[i - 1] = s[i]
  BY <1>1
<1>3. ToSet(Tail(s)) \subseteq ToSet(s) \ {Head(s)}
  BY <1>1 DEF ToSet, IsInjective
<1>4. ToSet(s) \ {Head(s)} \subseteq ToSet(Tail(s))
  <2> SUFFICES ASSUME NEW x \in ToSet(s), x # Head(s) PROVE x \in ToSet(Tail(s))
    OBVIOUS
  <2>1. PICK i \in DOMAIN s : s[i] = x
    BY DEF ToSet
  <2> QED
    BY <1>1, <1>2, <2>1 DEF ToSet
<1>5. IsInjective(Tail(s))
  BY <1>1 DEF IsInjective
<1> QED
  BY <1>1, <1>3, <1>4, <1>5 DEF ToSet

LEMMA Nothing == ToSet(<< >>) = {} /\ IsInjective(<< >>) /\ Len(<< >>) = 0
BY DEF ToSet, IsInjective

\* A sequence holds no more elements than it is long.
LEMMA NoMoreThanLong ==
    ASSUME NEW S, NEW s \in Seq(S)
    PROVE  /\ IsFiniteSet(ToSet(s)) /\ Cardinality(ToSet(s)) \in Nat
           /\ Cardinality(ToSet(s)) <= Len(s)
<1>1. s \in Surjection(1 .. Len(s), ToSet(s))
  BY DEF Surjection, ToSet
<1>2. IsFiniteSet(1 .. Len(s)) /\ Cardinality(1 .. Len(s)) = Len(s)
  <2>1. 1 \in Int /\ Len(s) \in Int /\ Len(s) \in Nat
    OBVIOUS
  <2> QED
    BY <2>1, FS_Interval
<1> QED
  BY <1>1, <1>2, FS_Surjection, FS_CardinalityType

LEMMA Least ==
    ASSUME NEW a \in Nat, NEW b \in Nat
    PROVE  Min({a, b}) = IF a <= b THEN a ELSE b
BY DEF Min

\* The last entries of a record that gets one more and is cut to a length.
LEMMA Trimming ==
    ASSUME NEW r \in Seq(BOOLEAN), NEW b \in BOOLEAN, NEW m \in Nat \ {0}
    PROVE  LET more == Append(r, b)
               last == SubSeq(more, Len(more) - Min({Len(more), m}) + 1, Len(more))
           IN  /\ last \in Seq(BOOLEAN)
               /\ Len(last) = Min({Len(more), m})
               /\ \A i \in 1 .. Len(last) :
                     last[i] = more[i + (Len(more) - Len(last))]
<1> DEFINE more == Append(r, b)
<1> DEFINE k == Min({Len(more), m})
<1>1. more \in Seq(BOOLEAN) /\ Len(more) \in Nat /\ Len(more) = Len(r) + 1
  OBVIOUS
<1>2. k \in 1 .. Len(more)
  BY <1>1, Least
<1> HIDE DEF more, k
<1> DEFINE last == SubSeq(more, Len(more) - k + 1, Len(more))
<1>3. /\ last \in Seq(BOOLEAN) /\ Len(last) = k
      /\ \A i \in 1 .. Len(last) : last[i] = more[Len(more) - k + 1 + i - 1]
  BY <1>1, <1>2
<1> HIDE DEF last
<1>4. \A i \in 1 .. Len(last) : last[i] = more[i + (Len(more) - Len(last))]
  <2> SUFFICES ASSUME NEW i \in 1 .. Len(last)
               PROVE  last[i] = more[i + (Len(more) - Len(last))]
    OBVIOUS
  <2>1. Len(more) - k + 1 + i - 1 = i + (Len(more) - Len(last))
    BY <1>1, <1>2, <1>3
  <2>2. last[i] = more[Len(more) - k + 1 + i - 1]
    BY <1>3
  <2> QED
    BY <2>1, <2>2
<1> QED
  BY <1>3, <1>4 DEF more, k, last

-----------------------------------------------------------------------------
(* Types                                                                   *)

LEMMA Numbers ==
    /\ Concurrency \in Nat /\ Concurrency > 0
    /\ MaxStalls \in Nat /\ MaxStalls > 0 /\ Tasks \in Nat /\ Tasks > 0
    /\ MaxMishaps \in Nat
BY FanoutAssumption

LEMMA NoTribes == << >> \in Seq(Tribes) /\ << >> \in Seq(BOOLEAN)
OBVIOUS

\* The tribe under the scheduler's eye.
LEMMA NowIsATribe ==
    ASSUME PoolTypes, polling # << >>
    PROVE  Now \in Tribes /\ Tail(polling) \in Seq(Tribes)
BY DEF PoolTypes, Now

LEMMA InitHolds == Init => IInv
<1> SUFFICES ASSUME Init PROVE IInv
  OBVIOUS
<1> USE Numbers, FanoutAssumption
<1>1. TypeOK
  BY DEF Init, TypeOK, PoolTypes, LoopTypes, Texts
<1>2. RoundIsWhole
  BY Nothing DEF Init, RoundIsWhole, Decided
<1>3. GateIsFinal
  BY DEF Init, GateIsFinal, ReviewIsOfFinishedWork
<1>4. StallsAreTurns
  BY DEF Init, StallsAreTurns, IdleFor
<1> QED
  BY <1>1, <1>2, <1>3, <1>4 DEF IInv

\* Freeing a slot keeps the types of the loop.
LEMMA GoneKeepsTypes ==
    ASSUME LoopTypes, record \in [Tribes -> Seq(BOOLEAN)],
           NEW t \in Tribes, NEW state \in {"none", "exited"}, Gone(t, state)
    PROVE  /\ box' \in [Tribes -> {"none", "running", "exited"}]
           /\ at' \in [Tribes -> {"top", "turn", "check"}]
           /\ before' \in [Tribes -> 0 .. Tasks]
           /\ stalls' \in [Tribes -> 0 .. MaxStalls]
           /\ record' \in [Tribes -> Seq(BOOLEAN)] /\ lapsed' \subseteq Tribes
<1>1. record' \in [Tribes -> Seq(BOOLEAN)]
  BY NoTribes DEF Gone
<1> QED
  BY <1>1, Numbers DEF LoopTypes, Gone

\* What a step of the scheduler does to the loops: it launches one, makes one
\* go, or leaves them.
LEMMA PoolMeetsLoops ==
    ASSUME PoolTypes, PoolStep
    PROVE  /\ UNCHANGED clone
           /\ Fails \/ Works
           /\ \/ /\ UNCHANGED process
                 /\ \/ UNCHANGED box
                    \/ launch /\ box' = [box EXCEPT ![Head(pending)] = "running"]
              \/ Now \in Tribes /\ FreeSlot
<1> USE NowIsATribe
<1>1. CASE launch
  BY <1>1 DEF launch
<1>2. CASE Poll \/ Polled \/ Look
  BY <1>2 DEF Poll, Polled, Look, Works
<1>3. CASE Kind \/ Inspect
  BY <1>3 DEF Kind, Inspect, Stall, Works, PoolTypes
<1>4. CASE Push \/ Request
  BY <1>4 DEF Push, Request, Stall, PoolTypes
<1> QED
  BY <1>1, <1>2, <1>3, <1>4 DEF PoolStep

LEMMA PoolKeepsLoopTypes ==
    ASSUME TypeOK, PoolStep
    PROVE  LoopTypes' /\ record' \in [Tribes -> Seq(BOOLEAN)]
<1>1. PoolTypes /\ LoopTypes /\ record \in [Tribes -> Seq(BOOLEAN)]
  BY DEF TypeOK
<1>2. mishaps' \in 0 .. MaxMishaps
  BY <1>1, PoolMeetsLoops, Numbers DEF LoopTypes, Fails, Works
<1>3. CASE UNCHANGED <<process, box>>
  BY <1>1, <1>2, <1>3, PoolMeetsLoops DEF LoopTypes, process, clone
<1>4. CASE UNCHANGED process /\ box' = [box EXCEPT ![Head(pending)] = "running"]
  BY <1>1, <1>2, <1>4, PoolMeetsLoops DEF LoopTypes, process, clone
<1>5. CASE Now \in Tribes /\ FreeSlot
  BY <1>1, <1>2, <1>5, PoolMeetsLoops, GoneKeepsTypes DEF LoopTypes, clone, FreeSlot
<1> QED
  BY <1>1, <1>3, <1>4, <1>5, PoolMeetsLoops

\* The scheduler's own types survive every step of it.
LEMMA PoolKeepsPoolTypes ==
    ASSUME TypeOK, PoolStep
    PROVE  PoolTypes'
<1> USE NowIsATribe DEF TypeOK, PoolTypes
<1>1. CASE launch
  BY <1>1 DEF launch
<1>2. CASE Poll
  BY <1>2, NoTribes DEF Poll
<1>3. CASE Polled
  BY <1>3, NoTribes DEF Polled
<1>4. CASE Look
  BY <1>4 DEF Look
<1>5. CASE Kind
  BY <1>5 DEF Kind, Stall, FreeSlot
<1>6. CASE Inspect
  <2>1. CASE box[Now] = "running"
    <3>1. Append(kept, Now) \in Seq(Tribes)
      BY <1>6 DEF Inspect
    <3> QED
      BY <1>6, <2>1, <3>1 DEF Inspect
  <2>2. CASE box[Now] # "running"
    BY <1>6, <2>2 DEF Inspect, Stall, FreeSlot
  <2> QED
    BY <2>1, <2>2
<1>7. CASE Push
  BY <1>7 DEF Push, Stall, FreeSlot, LoopTypes
<1>8. CASE Request
  BY <1>8 DEF Request, Stall, FreeSlot
<1> QED
  BY <1>1, <1>2, <1>3, <1>4, <1>5, <1>6, <1>7, <1>8 DEF PoolStep

\* What a turn is recorded as.
LEMMA RecordedTypes ==
    ASSUME TypeOK, NEW t \in Tribes
    PROVE  Recorded(t) \in [Tribes -> Seq(BOOLEAN)]
<1>1. /\ record[t] \in Seq(BOOLEAN) /\ Committed(t) \in BOOLEAN
      /\ MaxStalls \in Nat \ {0} /\ record \in [Tribes -> Seq(BOOLEAN)]
  BY Numbers DEF TypeOK, Committed
<1> DEFINE more == Append(record[t], Committed(t))
<1> DEFINE last == SubSeq(more, Len(more) - Min({Len(more), MaxStalls}) + 1, Len(more))
<1>2. Recorded(t) = [record EXCEPT ![t] = last]
  BY DEF Recorded
<1>3. last \in Seq(BOOLEAN)
  BY <1>1, Trimming
<1> HIDE DEF last
<1> QED
  BY <1>1, <1>2, <1>3

\* Types survive every step of a tribe, which leaves the scheduler's alone.
LEMMA LoopKeepsTypes ==
    ASSUME TypeOK, NEW t \in Tribes, LoopStep(t) \/ Die(t)
    PROVE  TypeOK'
<1>1. LoopTypes /\ record \in [Tribes -> Seq(BOOLEAN)]
  BY DEF TypeOK
<1>2. UNCHANGED poolVars
  BY DEF LoopStep, run_turn, Commit, Write, EndTurn, Pause, Stop, Progress, NoProgress, Die
<1>3. PoolTypes'
  BY <1>2 DEF TypeOK, PoolTypes, poolVars
<1>4. LoopTypes' /\ record' \in [Tribes -> Seq(BOOLEAN)]
  <2> USE <1>1, Numbers DEF process, clone, Fails, In
  <2>1. CASE run_turn(t)
    BY <2>1 DEF run_turn, LoopTypes
  <2>2. CASE Commit(t)
    BY <2>2 DEF Commit, LoopTypes
  <2>3. CASE Write(t)
    BY <2>3 DEF Write, Texts, LoopTypes
  <2>4. CASE EndTurn(t)
    BY <2>4, RecordedTypes DEF EndTurn, LoopTypes, TypeOK
  <2>5. CASE Pause(t)
    <3>1. record' \in [Tribes -> Seq(BOOLEAN)] /\ lapsed' \subseteq Tribes
      BY <2>5, RecordedTypes DEF Pause, LoopTypes
    <3> QED
      BY <2>5, <3>1 DEF Pause, LoopTypes
  <2>6. CASE Stop(t)
    BY <2>6, GoneKeepsTypes DEF Stop, LoopTypes
  <2>7. CASE Progress(t)
    BY <2>7 DEF Progress, Again, LoopTypes
  <2>8. CASE NoProgress(t)
    <3>1. CASE stalls[t] + 1 >= MaxStalls
      BY <2>8, <3>1, GoneKeepsTypes DEF NoProgress, LoopTypes, Texts
    <3>2. CASE ~(stalls[t] + 1 >= MaxStalls)
      <4>1. stalls[t] \in 0 .. MaxStalls /\ stalls[t] + 1 \in 0 .. MaxStalls
        BY <3>2 DEF LoopTypes
      <4>2. stalls' = [stalls EXCEPT ![t] = stalls[t] + 1] /\ Again(t)
        BY <2>8, <3>2 DEF NoProgress
      <4>3. UNCHANGED <<before, record, lapsed, status, mishaps, head, start>>
        BY <2>8, <3>2 DEF NoProgress
      <4> QED
        BY <4>1, <4>2, <4>3 DEF Again, LoopTypes
    <3> QED
      BY <3>1, <3>2
  <2>9. CASE Die(t)
    <3>1. mishaps' \in 0 .. MaxMishaps
      BY <2>9 DEF Die, LoopTypes
    <3>2. Gone(t, "exited") /\ UNCHANGED <<status, start, head>>
      BY <2>9 DEF Die
    <3> QED
      BY <3>1, <3>2, GoneKeepsTypes DEF LoopTypes
  <2> QED
    BY <2>1, <2>2, <2>3, <2>4, <2>5, <2>6, <2>7, <2>8, <2>9 DEF LoopStep
<1> QED
  BY <1>3, <1>4 DEF TypeOK

-----------------------------------------------------------------------------
(* The gate                                                                *)

\* A gate once written stays, and is written over finished work only.
LEMMA GateStays ==
    ASSUME TypeOK, GateIsFinal, NEW t \in Tribes, LoopStep(t) \/ Die(t), NEW x \in Tribes
    PROVE  /\ start' = start
           /\ status[x] = "gate" => status'[x] = "gate"
           /\ status'[x] = "gate" => head'[x] = Tasks
           /\ status'[x] = "done" => start[x] = "done"
<1> USE Numbers DEF TypeOK, LoopTypes, GateIsFinal
<1>1. CASE Commit(t)
  BY <1>1 DEF Commit
<1>2. CASE Write(t)
  BY <1>2 DEF Write
<1>3. CASE NoProgress(t)
  BY <1>3 DEF NoProgress, HasNews
<1>4. CASE UNCHANGED clone
  BY <1>4 DEF clone
<1> QED
  BY <1>1, <1>2, <1>3, <1>4
     DEF LoopStep, run_turn, EndTurn, Pause, Stop, Progress, Die

LEMMA LoopKeepsGate ==
    ASSUME TypeOK, GateIsFinal, NEW t \in Tribes, LoopStep(t) \/ Die(t)
    PROVE  GateIsFinal'
<1>1. UNCHANGED poolVars
  BY DEF LoopStep, run_turn, Commit, Write, EndTurn, Pause, Stop, Progress, NoProgress, Die
<1>2. pool \in {"push", "request"} => Now \in Tribes
  BY NowIsATribe DEF TypeOK, PoolTypes
<1>3. review \subseteq Tribes
  BY DEF TypeOK, PoolTypes
<1> QED
  BY <1>1, <1>2, <1>3, GateStays
     DEF GateIsFinal, ReviewIsOfFinishedWork, poolVars, Now

LEMMA PoolKeepsGate ==
    ASSUME TypeOK, GateIsFinal, PoolStep
    PROVE  GateIsFinal'
<1>1. UNCHANGED <<head, status, start>>
  BY PoolMeetsLoops DEF TypeOK, clone
<1>2. pool \in {"push", "request"} => Now \in Tribes
  BY NowIsATribe DEF TypeOK, PoolTypes
<1> USE <1>1, <1>2 DEF GateIsFinal, ReviewIsOfFinishedWork
<1>3. CASE launch \/ Poll \/ Polled \/ Look \/ Inspect
  BY <1>3 DEF launch, Poll, Polled, Look, Inspect, Stall, FreeSlot
<1>4. CASE Kind
  <2>1. Now \in Tribes
    BY <1>4, NowIsATribe DEF Kind, TypeOK, PoolTypes
  <2> QED
    BY <1>4, <2>1 DEF Kind, SayComplete, Stall, FreeSlot, Now
<1>5. CASE Push
  <2>1. pushed \in [Tribes -> 0 .. Tasks] /\ review \subseteq Tribes
    BY DEF TypeOK, PoolTypes
  <2>2. CASE pool' = "request"
    <3>1. pushed' = [pushed EXCEPT ![Now] = head[Now]] /\ UNCHANGED <<review, polling>>
      BY <1>5, <2>2 DEF Push, Stall, FreeSlot
    <3> QED
      BY <1>5, <2>1, <3>1 DEF Push, Now
  <2>3. CASE pool' # "request"
    BY <1>5, <2>3 DEF Push, Stall, FreeSlot
  <2> QED
    BY <2>2, <2>3
<1>6. CASE Request
  BY <1>6 DEF Request, Stall, FreeSlot
<1> QED
  BY <1>3, <1>4, <1>5, <1>6 DEF PoolStep

-----------------------------------------------------------------------------
(* The stalls                                                              *)

\* The record of a turn that is over, and what it shows.
LEMMA TurnIsRecorded ==
    ASSUME TypeOK, StallsAreTurns, NEW t \in Tribes,
           In(t, "turn"), record' = Recorded(t), stalls' = stalls
    PROVE  /\ Len(record'[t]) <= MaxStalls /\ Len(record'[t]) \in Nat
           /\ ~Committed(t) /\ t \notin lapsed => IdleFor(t, stalls[t] + 1)'
<1> DEFINE b == Committed(t)
<1> DEFINE more == Append(record[t], b)
<1> DEFINE last == SubSeq(more, Len(more) - Min({Len(more), MaxStalls}) + 1, Len(more))
<1>1. /\ record[t] \in Seq(BOOLEAN) /\ b \in BOOLEAN /\ MaxStalls \in Nat \ {0}
      /\ stalls[t] \in Nat
  BY Numbers DEF TypeOK, LoopTypes, Committed
<1>2. record'[t] = last /\ stalls'[t] = stalls[t]
  BY DEF Recorded, TypeOK
<1>3. /\ more \in Seq(BOOLEAN) /\ Len(more) = Len(record[t]) + 1
      /\ more[Len(more)] = b
      /\ \A i \in 1 .. Len(record[t]) : more[i] = record[t][i]
      /\ Len(record[t]) \in Nat /\ Len(more) \in Nat
  BY <1>1
<1>4. /\ last \in Seq(BOOLEAN) /\ Len(last) = Min({Len(more), MaxStalls})
      /\ \A i \in 1 .. Len(last) : last[i] = more[i + (Len(more) - Len(last))]
  BY <1>1, Trimming
<1> HIDE DEF more, last
<1>5. Len(last) \in Nat /\ Len(last) = (IF Len(more) <= MaxStalls THEN Len(more) ELSE MaxStalls)
  <2>1. Len(more) \in Nat /\ MaxStalls \in Nat
    BY <1>1, <1>3
  <2> QED
    BY <1>4, <2>1, Least
<1>6. ASSUME ~Committed(t), t \notin lapsed PROVE IdleFor(t, stalls[t] + 1)'
  <2>1. /\ stalls[t] < MaxStalls /\ stalls[t] <= Len(record[t])
        /\ \A i \in 1 .. Len(record[t]) :
              i > Len(record[t]) - stalls[t] => record[t][i] = FALSE
    BY <1>6 DEF StallsAreTurns, In, IdleFor
  <2>2. \A i \in 1 .. Len(more) : i > Len(more) - (stalls[t] + 1) => more[i] = FALSE
    <3> SUFFICES ASSUME NEW i \in 1 .. Len(more), i > Len(more) - (stalls[t] + 1)
                 PROVE  more[i] = FALSE
      OBVIOUS
    <3>1. CASE i = Len(more)
      BY <1>3, <1>6, <3>1
    <3>2. CASE i # Len(more)
      <4>1. i \in 1 .. Len(record[t]) /\ i > Len(record[t]) - stalls[t]
        BY <1>1, <1>3, <3>2
      <4> QED
        BY <1>3, <2>1, <4>1
    <3> QED
      BY <3>1, <3>2
  <2>3. stalls[t] + 1 <= Len(last)
    BY <1>1, <1>3, <1>5, <2>1
  <2>4. ASSUME NEW i \in 1 .. Len(last), i > Len(last) - (stalls[t] + 1)
        PROVE  last[i] = FALSE
    <3>1. /\ i + (Len(more) - Len(last)) \in 1 .. Len(more)
          /\ i + (Len(more) - Len(last)) > Len(more) - (stalls[t] + 1)
      <4>1. /\ i \in Nat /\ i >= 1 /\ i <= Len(last)
            /\ i > Len(last) - (stalls[t] + 1)
        BY <1>5, <2>4
      <4>2. Len(last) <= Len(more)
        BY <1>1, <1>3, <1>5
      <4>3. Len(more) \in Nat /\ Len(last) \in Nat /\ stalls[t] \in Nat
        BY <1>1, <1>3, <1>5
      <4> QED
        BY <4>1, <4>2, <4>3
    <3> QED
      BY <1>4, <2>2, <3>1
  <2> QED
    BY <1>2, <2>3, <2>4 DEF IdleFor
<1> QED
  BY <1>1, <1>2, <1>5, <1>6

LEMMA LoopKeepsStalls ==
    ASSUME TypeOK, StallsAreTurns, NEW t \in Tribes, LoopStep(t) \/ Die(t)
    PROVE  StallsAreTurns'
<1> USE Numbers
<1>1. \A x \in Tribes : record[x] \in Seq(BOOLEAN) /\ Len(record[x]) \in Nat /\ stalls[x] \in Nat
  BY DEF TypeOK, LoopTypes
<1>2. SUFFICES ASSUME NEW x \in Tribes
               PROVE  (/\ stalls[x] < MaxStalls /\ Len(record[x]) <= MaxStalls
                       /\ x \notin lapsed =>
                             IF at[x] # "check" THEN IdleFor(x, stalls[x])
                             ELSE ~Committed(x) => IdleFor(x, stalls[x] + 1))'
  BY DEF StallsAreTurns
<1>3. CASE x # t
  <2>1. /\ stalls'[x] = stalls[x] /\ record'[x] = record[x] /\ at'[x] = at[x]
        /\ head'[x] = head[x] /\ before'[x] = before[x] /\ (x \in lapsed' <=> x \in lapsed)
    BY <1>3 DEF Recorded, TypeOK, LoopTypes, LoopStep, run_turn, Commit, Write, EndTurn, Pause, Stop,
                Progress, NoProgress, Die, Gone, Again, process, clone
  <2> QED
    BY <2>1 DEF StallsAreTurns, IdleFor, Committed
<1>4. CASE x = t
  <2> USE <1>4 DEF TypeOK, LoopTypes, process, clone, In
  <2>1. CASE Stop(t) \/ Die(t) \/ (NoProgress(t) /\ stalls[t] + 1 >= MaxStalls)
    <3>1. stalls'[x] = 0 /\ record'[x] = << >> /\ at'[x] = "top"
      BY <2>1 DEF Stop, Die, NoProgress, Gone
    <3> QED
      BY <3>1 DEF IdleFor
  <2>2. CASE EndTurn(t)
    <3>1. /\ stalls' = stalls /\ at'[x] = "check" /\ head' = head /\ before' = before
          /\ lapsed' = lapsed /\ record' = Recorded(t)
      BY <2>2 DEF EndTurn
    <3> QED
      BY <2>2, <3>1, TurnIsRecorded DEF EndTurn, StallsAreTurns, Committed
  <2>3. CASE Progress(t)
    <3>1. stalls'[x] = 0 /\ record' = record /\ at'[x] = "top"
      BY <2>3 DEF Progress, Again
    <3> QED
      BY <1>1, <3>1 DEF StallsAreTurns, IdleFor
  <2>4. CASE NoProgress(t) /\ ~(stalls[t] + 1 >= MaxStalls)
    <3>1. stalls'[x] = stalls[x] + 1 /\ record' = record /\ lapsed' = lapsed /\ at'[x] = "top"
      BY <2>4 DEF NoProgress, Again
    <3>2. at[x] = "check" /\ ~Committed(x)
      BY <2>4 DEF NoProgress
    <3> QED
      BY <1>1, <2>4, <3>1, <3>2 DEF StallsAreTurns, IdleFor
  <2>5. CASE run_turn(t) \/ Commit(t) \/ Write(t) \/ (Pause(t) /\ ~Committed(t))
    <3>1. /\ stalls' = stalls /\ record' = record /\ lapsed' = lapsed
          /\ at[x] # "check" /\ at'[x] # "check"
      BY <2>5 DEF run_turn, Commit, Write, Pause
    <3> QED
      BY <3>1 DEF StallsAreTurns, IdleFor
  <2>6. CASE Pause(t) /\ Committed(t)
    <3>1. /\ stalls' = stalls /\ at'[x] = "top" /\ record' = Recorded(t)
          /\ x \notin lapsed' => stalls[x] = 0
      BY <1>1, <2>6 DEF Pause
    <3>2. Len(record'[x]) <= MaxStalls /\ Len(record'[x]) \in Nat
      BY <2>6, <3>1, TurnIsRecorded DEF Pause
    <3> QED
      BY <3>1, <3>2 DEF StallsAreTurns, IdleFor
  <2> QED
    BY <2>1, <2>2, <2>3, <2>4, <2>5, <2>6 DEF LoopStep
<1> QED
  BY <1>3, <1>4

LEMMA PoolKeepsStalls ==
    ASSUME TypeOK, StallsAreTurns, PoolStep
    PROVE  StallsAreTurns'
<1>1. head' = head
  BY PoolMeetsLoops DEF TypeOK, clone
<1>2. CASE UNCHANGED process
  BY <1>1, <1>2 DEF StallsAreTurns, IdleFor, Committed, process
<1>3. CASE Now \in Tribes /\ FreeSlot
  <2>1. \A x \in Tribes :
          \/ x = Now /\ stalls'[x] = 0 /\ record'[x] = << >> /\ at'[x] = "top"
          \/ /\ stalls'[x] = stalls[x] /\ record'[x] = record[x] /\ at'[x] = at[x]
             /\ before'[x] = before[x] /\ (x \in lapsed' <=> x \in lapsed)
    BY <1>3 DEF FreeSlot, Gone, TypeOK, LoopTypes
  <2> QED
    BY <1>1, <2>1, Numbers DEF StallsAreTurns, IdleFor, Committed
<1> QED
  BY <1>2, <1>3, PoolMeetsLoops DEF TypeOK

-----------------------------------------------------------------------------
(* The slots                                                               *)

LEMMA LoopKeepsRound ==
    ASSUME TypeOK, RoundIsWhole, NEW t \in Tribes, LoopStep(t) \/ Die(t)
    PROVE  RoundIsWhole'
<1>1. UNCHANGED poolVars
  BY DEF LoopStep, run_turn, Commit, Write, EndTurn, Pause, Stop, Progress, NoProgress, Die
<1>2. \A x \in Tribes : box'[x] = "running" => box[x] = "running"
  BY DEF TypeOK, LoopTypes, LoopStep, run_turn, Commit, Write, EndTurn, Pause, Stop, Progress,
         NoProgress, Die, Gone, Again
<1> QED
  BY <1>1, <1>2 DEF RoundIsWhole, Decided, poolVars

\* Who gets a verdict leaves the round, the container before the slot.
LEMMA FreeingASlot ==
    ASSUME TypeOK, RoundIsWhole, pool \notin {"fill", "done"}, polling # << >>,
           FreeSlot, Decided' = Decided \cup {Now}, UNCHANGED <<pending, running, kept>>
    PROVE  RoundIsWhole'
<1>1. /\ polling \in Seq(Tribes) /\ pending \in Seq(Tribes) /\ running \in Seq(Tribes)
      /\ kept \in Seq(Tribes)
  BY DEF TypeOK, PoolTypes
<1>2. IsInjective(polling)
  BY DEF RoundIsWhole
<1>3. /\ Now \in ToSet(polling) /\ ToSet(polling') = ToSet(polling) \ {Now}
      /\ IsInjective(polling') /\ Len(polling') = Len(polling) - 1
  BY <1>1, <1>2, Heading DEF FreeSlot, Now
<1>4. \A x \in Tribes : box'[x] = "running" => x # Now /\ box[x] = "running"
  BY DEF TypeOK, LoopTypes, FreeSlot, Gone
<1>5. pool' = "poll"
  BY DEF FreeSlot
<1>6. Len(kept) + Len(polling') <= Len(running)
  <2>1. Len(kept) + Len(polling) <= Len(running)
    BY DEF RoundIsWhole
  <2>2. Len(kept) \in Nat /\ Len(polling) \in Nat /\ Len(running) \in Nat
    BY <1>1
  <2> QED
    BY <1>3, <2>1, <2>2
<1>7. \A s \in {pending', running', polling', kept'} : IsInjective(s)
  BY <1>3 DEF RoundIsWhole
<1>8. /\ ToSet(pending) \cap (ToSet(running) \cup Decided') = {}
      /\ ToSet(polling') \cup ToSet(kept) \subseteq ToSet(running) \ Decided'
      /\ ToSet(polling') \cap ToSet(kept) = {}
      /\ ToSet(running) \subseteq ToSet(polling') \cup ToSet(kept) \cup Decided'
  BY <1>3 DEF RoundIsWhole
<1>9. \A x \in Tribes : box'[x] = "running" => x \in ToSet(running) \ Decided'
  BY <1>4 DEF RoundIsWhole
<1> QED
  BY <1>5, <1>6, <1>7, <1>8, <1>9 DEF RoundIsWhole

LEMMA PoolKeepsRound ==
    ASSUME TypeOK, RoundIsWhole, PoolStep
    PROVE  RoundIsWhole'
<1>1. /\ polling \in Seq(Tribes) /\ pending \in Seq(Tribes) /\ running \in Seq(Tribes)
      /\ kept \in Seq(Tribes) /\ Concurrency \in Nat
      /\ pool \in {"kind", "inspect", "push", "request"} => polling # << >>
  BY Numbers DEF TypeOK, PoolTypes
<1>2. CASE launch
  <2> DEFINE t == Head(pending)
  <2>1. /\ pool = "fill" /\ pool' = "fill" /\ pending # << >> /\ Len(running) < Concurrency
        /\ running' = Append(running, t) /\ pending' = Tail(pending)
        /\ UNCHANGED <<polling, kept, gated, stalled>>
    BY <1>2 DEF launch
  <2>2. IsInjective(pending) /\ IsInjective(running)
    BY DEF RoundIsWhole
  <2>3. /\ t \in Tribes /\ t \in ToSet(pending) /\ ToSet(pending') = ToSet(pending) \ {t}
        /\ IsInjective(pending')
    BY <1>1, <2>1, <2>2, Heading
  <2>4. t \notin ToSet(running) /\ t \notin Decided
    BY <2>3 DEF RoundIsWhole
  <2>5. /\ ToSet(running') = ToSet(running) \cup {t} /\ IsInjective(running')
        /\ Len(running') = Len(running) + 1 /\ Len(running) \in Nat
    BY <1>1, <2>1, <2>2, <2>3, <2>4, Appending
  <2>6. \A x \in Tribes : box'[x] = "running" => x = t \/ box[x] = "running"
    BY <1>2 DEF launch, TypeOK, LoopTypes
  <2>7. Decided' = Decided
    BY <2>1 DEF Decided
  <2>8. polling = << >> /\ kept = << >> /\ ToSet(running) \cap Decided = {}
    BY <2>1 DEF RoundIsWhole
  <2>9. /\ Len(running') <= Concurrency
        /\ Len(kept) + Len(polling) <= Len(running')
    BY <1>1, <2>1, <2>5, <2>8
  <2>10. \A s \in {pending', running', polling', kept'} : IsInjective(s)
    BY <2>1, <2>3, <2>5 DEF RoundIsWhole
  <2>11. \A x \in Tribes : box'[x] = "running" => x \in ToSet(running') \ Decided'
    BY <2>4, <2>5, <2>6, <2>7 DEF RoundIsWhole
  <2>12. /\ ToSet(pending') \cap (ToSet(running') \cup Decided') = {}
         /\ ToSet(running') \cap Decided' = {}
         /\ ToSet(polling) \cup ToSet(kept) = {}
    BY <2>3, <2>4, <2>5, <2>7, <2>8, Nothing DEF RoundIsWhole
  <2> QED
    BY <2>1, <2>8, <2>9, <2>10, <2>11, <2>12 DEF RoundIsWhole
<1>3. CASE Poll
  <2>1. /\ pool = "fill" /\ UNCHANGED <<pending, running, box>> /\ Decided' = Decided
        /\ \/ pool' = "done" /\ UNCHANGED <<polling, kept>>
           \/ pool' = "poll" /\ polling' = running /\ kept' = << >>
    BY <1>3 DEF Poll, Decided
  <2>2. CASE pool' = "done"
    BY <2>1, <2>2 DEF RoundIsWhole
  <2>3. CASE pool' = "poll"
    <3>1. polling' = running /\ kept' = << >> /\ Len(running) \in Nat
      BY <1>1, <2>1, <2>3
    <3>2. Len(kept') + Len(polling') <= Len(running)
      BY <3>1
    <3> QED
      BY <2>1, <2>3, <3>1, <3>2, Nothing DEF RoundIsWhole
  <2> QED
    BY <2>1, <2>2, <2>3
<1>4. CASE Polled
  <2>1. /\ pool = "poll" /\ polling = << >> /\ running' = kept /\ kept' = << >> /\ pool' = "fill"
        /\ UNCHANGED <<pending, polling, box>> /\ Decided' = Decided
    BY <1>4 DEF Polled, Decided
  <2>2. Len(kept) <= Len(running) /\ Len(running) <= Concurrency /\ Len(kept) \in Nat
        /\ Len(running) \in Nat
    BY <1>1, <2>1 DEF RoundIsWhole
  <2>3. Len(running') <= Concurrency /\ Len(kept') + Len(polling') <= Len(running')
    BY <1>1, <2>1, <2>2
  <2> QED
    BY <2>1, <2>3, Nothing DEF RoundIsWhole
<1>5. CASE Look
  BY <1>5 DEF Look, RoundIsWhole, Decided
<1>6. CASE Inspect /\ box[Now] = "running"
  <2>1. /\ kept' = Append(kept, Now) /\ polling' = Tail(polling) /\ pool = "inspect"
        /\ pool' = "poll" /\ UNCHANGED <<pending, running, box>> /\ Decided' = Decided
    BY <1>6 DEF Inspect, Decided
  <2>2. IsInjective(polling) /\ IsInjective(kept)
    BY DEF RoundIsWhole
  <2>3. /\ Now \in Tribes /\ Now \in ToSet(polling) /\ ToSet(polling') = ToSet(polling) \ {Now}
        /\ IsInjective(polling') /\ Len(polling') = Len(polling) - 1
    BY <1>1, <2>1, <2>2, Heading DEF Now
  <2>4. Now \notin ToSet(kept)
    BY <2>3 DEF RoundIsWhole
  <2>5. /\ ToSet(kept') = ToSet(kept) \cup {Now} /\ IsInjective(kept')
        /\ Len(kept') = Len(kept) + 1
    BY <1>1, <2>1, <2>2, <2>3, <2>4, Appending
  <2>6. Len(kept') + Len(polling') <= Len(running)
    <3>1. Len(kept) + Len(polling) <= Len(running)
      BY DEF RoundIsWhole
    <3>2. Len(kept) \in Nat /\ Len(polling) \in Nat /\ Len(running) \in Nat
      BY <1>1
    <3> QED
      BY <2>3, <2>5, <3>1, <3>2
  <2>7. \A s \in {pending', running', polling', kept'} : IsInjective(s)
    BY <2>1, <2>3, <2>5 DEF RoundIsWhole
  <2>8. /\ ToSet(polling') \cup ToSet(kept') \subseteq ToSet(running) \ Decided
        /\ ToSet(polling') \cap ToSet(kept') = {}
        /\ ToSet(running) \subseteq ToSet(polling') \cup ToSet(kept') \cup Decided
    BY <2>1, <2>3, <2>4, <2>5 DEF RoundIsWhole
  <2> QED
    BY <2>1, <2>6, <2>7, <2>8 DEF RoundIsWhole
<1>7. CASE (Kind /\ status[Now] \in SayComplete) \/ (Push /\ pool' = "request")
  <2>1. /\ pool \in {"kind", "push"} /\ pool' \in {"push", "request"} /\ Decided' = Decided
        /\ UNCHANGED <<pending, running, polling, kept, box>>
    BY <1>7 DEF Kind, Push, Stall, FreeSlot, Decided
  <2> QED
    BY <2>1 DEF RoundIsWhole
<1>8. CASE \/ (Kind /\ status[Now] \notin SayComplete) \/ (Inspect /\ box[Now] # "running")
           \/ (Push /\ pool' # "request") \/ Request
  <2>1. /\ pool \in {"kind", "inspect", "push", "request"}
        /\ FreeSlot /\ UNCHANGED <<pending, running, kept>> /\ Decided' = Decided \cup {Now}
    BY <1>8 DEF Kind, Inspect, Push, Request, Stall, Decided
  <2> QED
    BY <1>1, <2>1, FreeingASlot
<1>9. CASE Kind \/ Inspect \/ Push
  BY <1>6, <1>7, <1>8, <1>9
<1> QED
  BY <1>2, <1>3, <1>4, <1>5, <1>8, <1>9 DEF PoolStep

-----------------------------------------------------------------------------
(* The theorems                                                            *)

LEMMA Inductive == Spec => []IInv
<1>1. IInv /\ [Next]_vars => IInv'
  <2> SUFFICES ASSUME IInv, [Next]_vars PROVE IInv'
    OBVIOUS
  <2>1. TypeOK /\ RoundIsWhole /\ GateIsFinal /\ StallsAreTurns
    BY DEF IInv
  <2>2. CASE PoolStep
    <3>1. TypeOK'
      BY <2>1, <2>2, PoolKeepsPoolTypes, PoolKeepsLoopTypes DEF TypeOK
    <3> QED
      BY <2>1, <2>2, <3>1, PoolKeepsRound, PoolKeepsGate, PoolKeepsStalls DEF IInv
  <2>3. ASSUME NEW t \in Tribes, LoopStep(t) \/ Die(t) PROVE IInv'
    BY <2>1, <2>3, LoopKeepsTypes, LoopKeepsRound, LoopKeepsGate, LoopKeepsStalls DEF IInv
  <2>4. CASE UNCHANGED vars
    BY <2>1, <2>4 DEF IInv, TypeOK, PoolTypes, LoopTypes, RoundIsWhole, Decided, GateIsFinal,
       ReviewIsOfFinishedWork, StallsAreTurns, IdleFor, Committed, Now, vars, poolVars, process, clone
  <2> QED
    BY <2>2, <2>3, <2>4 DEF Next
<1> QED
  BY InitHolds, <1>1, PTL DEF Spec

\* The scheduler's lists hold tribes only, and it looks at a tribe whenever it is
\* in the middle of a poll (fanout.sh, the pool).
THEOREM Types == Spec => []TypeOK
BY Inductive, PTL DEF IInv

\* A container goes before its slot does (land_on_gate and the pool): there are
\* never more live loops than slots.
THEOREM LoopsHoldSlots == Spec => []LiveLoopsHoldSlots
<1>1. IInv => LiveLoopsHoldSlots
  <2> SUFFICES ASSUME IInv PROVE LiveLoopsHoldSlots
    OBVIOUS
  <2> DEFINE live == {t \in Tribes : box[t] = "running"}
  <2>1. live \subseteq ToSet(running) \ Decided /\ Len(running) <= Concurrency
    BY DEF IInv, RoundIsWhole
  <2>2. /\ IsFiniteSet(ToSet(running)) /\ Cardinality(ToSet(running)) \in Nat
        /\ Cardinality(ToSet(running)) <= Len(running) /\ Len(running) \in Nat
    BY NoMoreThanLong DEF IInv, TypeOK, PoolTypes
  <2>3. Cardinality(live) \in Nat /\ Cardinality(live) <= Cardinality(ToSet(running))
    BY <2>1, <2>2, FS_Subset, FS_CardinalityType
  <2>4. Cardinality(live) <= Concurrency
    BY <2>1, <2>2, <2>3, Numbers
  <2> QED
    BY <2>1, <2>4 DEF LiveLoopsHoldSlots, Decided
<1> QED
  BY <1>1, Inductive, PTL

\* Only a gate reached is landed (land_on_gate), and between the scheduler's looks
\* at STATUS.md the loop does nothing that takes it back.
THEOREM ReviewsAreFinished == Spec => []ReviewIsOfFinishedWork
<1>1. IInv => ReviewIsOfFinishedWork
  BY DEF IInv, GateIsFinal
<1> QED
  BY <1>1, Inductive, PTL

\* Until a limit meets a turn that has committed, the loop's count of stalls is the
\* number of fruitless turns at the end of its log (ralph.sh, the no-progress halt and
\* the pause before it).
THEOREM HaltsAreEarned == Spec => HaltIsEarned
<1>1. IInv /\ [Next]_vars =>
        [\A t \in Tribes \ lapsed : Halts(t) => record[t] = Fruitless]_vars
  <2> SUFFICES ASSUME IInv, [Next]_vars, NEW t \in Tribes, t \notin lapsed,
                      status[t] # "halt", status'[t] = "halt"
               PROVE  record[t] = [i \in 1 .. MaxStalls |-> FALSE]
    BY DEF Halts, Fruitless
  <2>1. TypeOK /\ PoolTypes /\ LoopTypes /\ StallsAreTurns
    BY DEF IInv, TypeOK
  <2>2. ~PoolStep
    BY <2>1, PoolMeetsLoops DEF clone
  <2>3. PICK x \in Tribes : LoopStep(x) \/ Die(x)
    BY <2>2 DEF Next, vars, clone
  <2>4. x = t /\ NoProgress(t) /\ stalls[t] + 1 >= MaxStalls
    BY <2>1, <2>3 DEF LoopStep, run_turn, Commit, Write, EndTurn, Pause, Stop, Progress, NoProgress,
                      Die, clone, LoopTypes
  <2>5. record[t] \in Seq(BOOLEAN) /\ Len(record[t]) \in Nat /\ stalls[t] \in Nat
    BY <2>1 DEF TypeOK, LoopTypes, Numbers
  <2>6. IdleFor(t, stalls[t] + 1) /\ Len(record[t]) <= MaxStalls
    BY <2>1, <2>4 DEF StallsAreTurns, NoProgress, In
  <2>7. Len(record[t]) = MaxStalls /\ \A i \in 1 .. MaxStalls : record[t][i] = FALSE
    <3>1. /\ stalls[t] + 1 <= Len(record[t])
          /\ \A i \in 1 .. Len(record[t]) :
                i > Len(record[t]) - (stalls[t] + 1) => record[t][i] = FALSE
      BY <2>6 DEF IdleFor
    <3>2. Len(record[t]) = MaxStalls /\ stalls[t] + 1 = MaxStalls
      <4>1. MaxStalls \in Nat /\ stalls[t] + 1 >= MaxStalls /\ Len(record[t]) <= MaxStalls
        BY <2>4, <2>6, Numbers
      <4> QED
        BY <2>5, <3>1, <4>1
    <3>3. \A i \in 1 .. MaxStalls : i > MaxStalls - MaxStalls
      BY Numbers
    <3> QED
      BY <3>1, <3>2, <3>3
  <2>8. record[t] = [i \in 1 .. Len(record[t]) |-> record[t][i]]
    BY <2>5
  <2> QED
    BY <2>7, <2>8
<1> QED
  BY <1>1, Inductive, PTL DEF Spec, HaltIsEarned

-----------------------------------------------------------------------------
(* Verdicts                                                                *)

\* No tribe is in review and given up on, and when the pool comes to its end every
\* tribe of the manifest is one or the other.
OneVerdict ==
    /\ gated \cap stalled = {}
    /\ pool = "done" => Decided = Tribes

\* What makes it inductive: a tribe not decided yet waits or holds a slot, and the pool
\* ends with nobody waiting and no slot held.
NobodyIsLost ==
    /\ Tribes \subseteq ToSet(pending) \cup ToSet(running) \cup Decided
    /\ gated \cap stalled = {}
    /\ pool = "done" => pending = << >> /\ running = << >>

LEMMA PoolLosesNobody ==
    ASSUME TypeOK, RoundIsWhole, NobodyIsLost, PoolStep
    PROVE  NobodyIsLost'
<1>1. /\ polling \in Seq(Tribes) /\ pending \in Seq(Tribes) /\ running \in Seq(Tribes)
      /\ Concurrency \in Nat \ {0} /\ Len(running) \in Nat
      /\ pool \in {"kind", "inspect", "push", "request"} => polling # << >>
      /\ gated \subseteq Tribes /\ stalled \subseteq Tribes
  BY Numbers DEF TypeOK, PoolTypes
<1>2. CASE launch
  <2>1. /\ pool' # "done" /\ UNCHANGED <<gated, stalled>> /\ pending # << >>
        /\ running' = Append(running, Head(pending)) /\ pending' = Tail(pending)
    BY <1>2 DEF launch
  <2>2. /\ Head(pending) \in Tribes /\ Head(pending) \notin ToSet(running)
        /\ ToSet(pending') = ToSet(pending) \ {Head(pending)}
    BY <1>1, <2>1, Heading DEF RoundIsWhole
  <2>3. ToSet(running') = ToSet(running) \cup {Head(pending)}
    BY <1>1, <2>1, <2>2, Appending DEF RoundIsWhole
  <2> QED
    BY <2>1, <2>2, <2>3 DEF NobodyIsLost, Decided
<1>3. CASE Poll
  <2>1. UNCHANGED <<pending, running, gated, stalled>> /\ (pool' = "done" => running = << >>)
    BY <1>3 DEF Poll
  <2>2. running = << >> => pending = << >>
    <3>1. Len(running) >= Concurrency \/ pending = << >>
      BY <1>3 DEF Poll
    <3>2. running = << >> => Len(running) = 0
      OBVIOUS
    <3> QED
      BY <1>1, <3>1, <3>2
  <2> QED
    BY <2>1, <2>2 DEF NobodyIsLost, Decided
<1>4. CASE Polled
  <2>1. /\ pool = "poll" /\ polling = << >> /\ pool' = "fill" /\ running' = kept
        /\ UNCHANGED <<pending, gated, stalled>>
    BY <1>4 DEF Polled
  <2>2. ToSet(running) \subseteq ToSet(kept) \cup Decided
    BY <2>1, Nothing DEF RoundIsWhole
  <2> QED
    BY <2>1, <2>2 DEF NobodyIsLost, Decided
<1>5. CASE \/ Look \/ (Inspect /\ box[Now] = "running")
           \/ (Kind /\ status[Now] \in SayComplete) \/ (Push /\ pool' = "request")
  <2>1. pool' # "done" /\ UNCHANGED <<pending, running, gated, stalled>>
    BY <1>5 DEF Look, Kind, Inspect, Push, Stall, FreeSlot
  <2> QED
    BY <2>1 DEF NobodyIsLost, Decided
<1>6. CASE \/ (Kind /\ status[Now] \notin SayComplete) \/ (Inspect /\ box[Now] # "running")
           \/ (Push /\ pool' # "request") \/ Request
  <2>1. /\ pool \in {"kind", "inspect", "push", "request"} /\ pool' # "done"
        /\ UNCHANGED <<pending, running>>
        /\ \/ gated' = gated \cup {Now} /\ stalled' = stalled
           \/ stalled' = stalled \cup {Now} /\ gated' = gated
    BY <1>6 DEF Kind, Inspect, Push, Request, Stall, FreeSlot
  <2>2. Now \in ToSet(polling)
    BY <1>1, <2>1, Heading DEF Now, RoundIsWhole
  <2>3. Now \notin gated \cup stalled
    BY <2>2 DEF RoundIsWhole, Decided
  <2> QED
    BY <2>1, <2>3 DEF NobodyIsLost, Decided
<1> QED
  BY <1>2, <1>3, <1>4, <1>5, <1>6 DEF PoolStep, Kind, Inspect, Push

\* Whatever fails on the way, launch, push or pull request, a tribe leaves its slot with
\* one verdict and no tribe leaves the lists without (fanout.sh, the pool and land_on_gate):
\* the summary at the end names every tribe once.
THEOREM VerdictsAreWhole == Spec => []OneVerdict
<1>1. Init => NobodyIsLost
  BY DEF Init, NobodyIsLost, Tribes
<1>2. IInv /\ NobodyIsLost /\ [Next]_vars => NobodyIsLost'
  <2> SUFFICES ASSUME IInv, NobodyIsLost, [Next]_vars PROVE NobodyIsLost'
    OBVIOUS
  <2>1. CASE PoolStep
    BY <2>1, PoolLosesNobody DEF IInv
  <2>2. ASSUME NEW t \in Tribes, LoopStep(t) \/ Die(t) PROVE NobodyIsLost'
    <3>1. UNCHANGED poolVars
      BY <2>2 DEF LoopStep, run_turn, Commit, Write, EndTurn, Pause, Stop, Progress, NoProgress, Die
    <3> QED
      BY <3>1 DEF poolVars, NobodyIsLost, Decided
  <2>3. CASE UNCHANGED vars
    BY <2>3 DEF vars, poolVars, NobodyIsLost, Decided
  <2> QED
    BY <2>1, <2>2, <2>3 DEF Next
<1>3. IInv /\ NobodyIsLost => OneVerdict
  <2> SUFFICES ASSUME IInv, NobodyIsLost PROVE OneVerdict
    OBVIOUS
  <2>1. Decided \subseteq Tribes
    BY DEF IInv, TypeOK, PoolTypes, Decided
  <2> QED
    BY <2>1, Nothing DEF NobodyIsLost, OneVerdict
<1> QED
  BY <1>1, <1>2, <1>3, Inductive, PTL DEF Spec
=============================================================================
