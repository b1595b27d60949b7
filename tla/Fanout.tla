------------------------------- MODULE Fanout -------------------------------
(***************************************************************************)
(* The fan-out of the agent loop: the pool scheduler on the host and one   *)
(* loop per tribe in a container over its own clone.                       *)
(*                                                                         *)
(* The two sides share nothing but files and the state of the container:   *)
(* the scheduler reads a clone's STATUS.md twice, then may inspect the     *)
(* container, while the loop and its agent go on.  What the agent does in  *)
(* a turn (commit, write STATUS.md) happens in steps of its own between    *)
(* the turn's start and its end.                                           *)
(*                                                                         *)
(* A tribe has a number of tasks, one commit each; the agent writes the    *)
(* gate when all are done.  The merging of the pull requests is left out.  *)
(***************************************************************************)
EXTENDS Integers, Sequences, SequencesExt, FiniteSets

CONSTANTS
    Manifest,    \* the tribes, in the order of the manifest
    Concurrency, \* FANOUT_CONCURRENCY: slots of the pool
    MaxStalls,   \* RALPH_MAX_STALLS: turns without a commit before a halt
    Tasks,       \* tasks of a tribe
    Crumbs,      \* what STATUS.md may hold when the repository is cloned
    MaxMishaps   \* bound: usage limits hit, and launches, pushes, pull requests
                 \* and containers that fail

Tribes == ToSet(Manifest)

\* blank; a breadcrumb left by a person, or one that says of something that it is
\* complete; the agent's gate, which says so of the work; another reason of the
\* agent's to stop; the loop's halt.
Texts == {"blank", "crumb", "done", "gate", "reason", "halt"}

SayComplete == {"gate", "done"}

ASSUME FanoutAssumption ==
    /\ Concurrency \in Nat \ {0} /\ MaxStalls \in Nat \ {0} /\ Tasks \in Nat \ {0}
    /\ Crumbs \subseteq {"blank", "crumb", "done"}
    /\ MaxMishaps \in Nat
    /\ Manifest \in Seq(Tribes) /\ IsInjective(Manifest)

VARIABLES
    pending,  \* tribes not launched yet, in order
    running,  \* tribes that hold a slot, in order
    polling,  \* those of them this round has still to look at
    kept,     \* new_running: those it leaves in their slots
    pool,     \* fill, poll, kind, inspect, push, request or done
    gated,    \* summary_gated: tribes in review
    stalled,  \* summary_stalled: tribes left to a person
    box,      \* tribe -> its container: none, running or exited
    status,   \* tribe -> what STATUS.md of its clone holds
    start,    \* tribe -> what it held when the clone was made
    head,     \* tribe -> commits in the clone
    pushed,   \* tribe -> commits on the branch of the remote
    review,   \* tribes with a pull request
    at,       \* tribe -> the loop: top, turn or check
    before,   \* tribe -> head when the turn began
    stalls,   \* tribe -> turns in a row without a commit
    record,   \* history: tribe -> whether each of its last MaxStalls turns
              \* committed, but for those a limit stopped before they did
    lapsed,   \* history: tribes with a stall counted whose next turn committed
              \* and then ran into a limit
    mishaps   \* limits and failures so far

poolVars == <<pending, running, polling, kept, pool, gated, stalled, pushed, review>>
process == <<at, before, stalls, record, lapsed>>          \* what a loop holds in memory
clone == <<head, status, start>>   \* and what it leaves on disk
vars == <<poolVars, process, clone, box, mishaps>>

-----------------------------------------------------------------------------
(* The scheduler.                                                          *)

Now == Head(polling)

Fails == mishaps < MaxMishaps /\ mishaps' = mishaps + 1
Works == UNCHANGED mishaps

\* The loop's process is there no more.
Gone(t, state) ==
    /\ box' = [box EXCEPT ![t] = state]
    /\ at' = [at EXCEPT ![t] = "top"]
    /\ before' = [before EXCEPT ![t] = 0]
    /\ stalls' = [stalls EXCEPT ![t] = 0]
    /\ record' = [record EXCEPT ![t] = << >>]
    /\ lapsed' = lapsed \ {t}

\* A slot is filled; podman may refuse, which nobody notices yet.
launch ==
    /\ pool = "fill"
    /\ Len(running) < Concurrency
    /\ pending # << >>
    /\ LET t == Head(pending)
       IN  /\ running' = Append(running, t)
           /\ pending' = Tail(pending)
           /\ \/ Works /\ box' = [box EXCEPT ![t] = "running"]
              \/ Fails /\ UNCHANGED box
    /\ UNCHANGED <<polling, kept, pool, gated, stalled, pushed, review, process, clone>>

\* Every slot is filled, or nothing is left to launch: sleep, then poll.
Poll ==
    /\ pool = "fill"
    /\ Len(running) >= Concurrency \/ pending = << >>
    /\ IF running = << >> THEN pool' = "done" /\ UNCHANGED <<polling, kept>>
                          ELSE /\ pool' = "poll"
                               /\ polling' = running
                               /\ kept' = << >>
    /\ UNCHANGED <<pending, running, gated, stalled, pushed, review, process, clone,
                   box, mishaps>>

\* A round ends: who was kept keeps the slot.
Polled ==
    /\ pool = "poll" /\ polling = << >>
    /\ running' = kept
    /\ kept' = << >>
    /\ pool' = "fill"
    /\ UNCHANGED <<pending, polling, gated, stalled, pushed, review, process, clone,
                   box, mishaps>>

\* The first grep: has STATUS.md content?
Look ==
    /\ pool = "poll" /\ polling # << >>
    /\ pool' = IF status[Now] = "blank" THEN "inspect" ELSE "kind"
    /\ UNCHANGED <<pending, running, polling, kept, gated, stalled, pushed, review,
                   process, clone, box, mishaps>>

\* podman rm -f, and the slot is free.
FreeSlot ==
    /\ Gone(Now, "none")
    /\ polling' = Tail(polling)
    /\ pool' = "poll"

Stall == stalled' = stalled \cup {Now} /\ FreeSlot

\* The second grep: is the word complete in it?
Kind ==
    /\ pool = "kind"
    /\ IF status[Now] \in SayComplete
       THEN pool' = "push" /\ UNCHANGED <<stalled, box, process, polling>>
       ELSE Stall
    /\ UNCHANGED <<pending, running, kept, gated, pushed, review, clone, mishaps>>

\* Mutant: a container that has exited well is taken for finished work.
InspectExit ==
    /\ pool = "inspect"
    /\ CASE box[Now] = "running" -> /\ kept' = Append(kept, Now)
                                    /\ polling' = Tail(polling)
                                    /\ pool' = "poll"
                                    /\ UNCHANGED <<stalled, box, process>>
         [] box[Now] = "exited" -> /\ pool' = "push"
                                   /\ UNCHANGED <<kept, polling, stalled, box, process>>
         [] OTHER -> Stall /\ UNCHANGED kept
    /\ UNCHANGED <<pending, running, gated, pushed, review, clone, mishaps>>

\* Mutant: a silent container keeps its slot, alive or not.
InspectKeeping ==
    /\ pool = "inspect"
    /\ kept' = Append(kept, Now)
    /\ polling' = Tail(polling)
    /\ pool' = "poll"
    /\ UNCHANGED <<pending, running, gated, stalled, box, pushed, review, process,
                   clone, mishaps>>

\* Mutant: the next tribe is inspected before its STATUS.md is read.
InspectStaying ==
    /\ pool = "inspect"
    /\ IF box[Now] = "running"
       THEN /\ kept' = Append(kept, Now)
            /\ polling' = Tail(polling)
            /\ UNCHANGED <<pool, stalled, box, process>>
       ELSE Stall /\ UNCHANGED kept
    /\ UNCHANGED <<pending, running, gated, pushed, review, clone, mishaps>>

\* Nothing in STATUS.md: still at work, or gone without a word?
Inspect ==
    /\ pool = "inspect"
    /\ IF box[Now] = "running"
       THEN /\ kept' = Append(kept, Now)
            /\ polling' = Tail(polling)
            /\ pool' = "poll"
            /\ UNCHANGED <<stalled, box, process>>
       ELSE Stall /\ UNCHANGED kept
    /\ UNCHANGED <<pending, running, gated, pushed, review, clone, mishaps>>

\* land_on_gate, its first half: the branch goes to the remote.
Push ==
    /\ pool = "push"
    /\ \/ /\ Works
          /\ pushed' = [pushed EXCEPT ![Now] = head[Now]]
          /\ pool' = "request"
          /\ UNCHANGED <<stalled, box, process, polling>>
       \/ /\ Fails
          /\ Stall
          /\ UNCHANGED pushed
    /\ UNCHANGED <<pending, running, kept, gated, review, clone>>

\* Mutant: the container of a tribe in review is left alone.
RequestLeavingBox ==
    /\ pool = "request"
    /\ \/ /\ Works
          /\ pushed[Now] > 0
          /\ review' = review \cup {Now}
          /\ gated' = gated \cup {Now}
          /\ polling' = Tail(polling)
          /\ pool' = "poll"
          /\ UNCHANGED <<stalled, box, process>>
       \/ /\ Fails \/ (pushed[Now] = 0 /\ Works)
          /\ Stall
          /\ UNCHANGED <<review, gated>>
    /\ UNCHANGED <<pending, running, kept, pushed, clone>>

\* Its second half: the pull request, which GitHub refuses for a branch without
\* a commit; the request for a review may fail unnoticed.
Request ==
    /\ pool = "request"
    /\ \/ /\ Works
          /\ pushed[Now] > 0
          /\ review' = review \cup {Now}
          /\ gated' = gated \cup {Now}
          /\ FreeSlot
          /\ UNCHANGED stalled
       \/ /\ Fails \/ (pushed[Now] = 0 /\ Works)
          /\ Stall
          /\ UNCHANGED <<review, gated>>
    /\ UNCHANGED <<pending, running, kept, pushed, clone>>

PoolStep == launch \/ Poll \/ Polled \/ Look \/ Kind \/ Inspect \/ Push \/ Request

-----------------------------------------------------------------------------
(* The loop of a tribe, in its container.                                  *)

In(t, place) == box[t] = "running" /\ at[t] = place

run_turn(t) ==
    /\ In(t, "top")
    /\ at' = [at EXCEPT ![t] = "turn"]
    /\ before' = [before EXCEPT ![t] = head[t]]
    /\ UNCHANGED <<poolVars, clone, box, mishaps, stalls, record, lapsed>>

\* The agent completes a task.
Commit(t) ==
    /\ In(t, "turn")
    /\ head[t] < Tasks
    /\ head[t] = before[t]
    /\ head' = [head EXCEPT ![t] = @ + 1]
    /\ UNCHANGED <<poolVars, process, box, mishaps, status, start>>

\* The agent writes a reason to stop, the gate only after the last task.
Write(t) ==
    /\ In(t, "turn")
    /\ \E text \in {"gate", "reason"} :
          /\ text = "gate" => head[t] = Tasks
          /\ status[t] \notin {"gate", text}
          /\ status' = [status EXCEPT ![t] = text]
    /\ UNCHANGED <<poolVars, process, box, mishaps, head, start>>

Committed(t) == head[t] # before[t]

\* The turn goes on record.
Recorded(t) ==
    LET turns == Append(record[t], Committed(t))
    IN  [record EXCEPT ![t] =
           SubSeq(turns, Len(turns) - Min({Len(turns), MaxStalls}) + 1, Len(turns))]

\* The agent ends or is timed out.
EndTurn(t) ==
    /\ In(t, "turn")
    /\ at' = [at EXCEPT ![t] = "check"]
    /\ record' = Recorded(t)
    /\ UNCHANGED <<poolVars, clone, box, mishaps, before, stalls, lapsed>>

\* It runs into a usage limit, whatever it has done before: the loop waits and
\* plays the turn again, past the look at STATUS.md and the count of stalls.
Pause(t) ==
    /\ In(t, "turn")
    /\ Fails
    /\ at' = [at EXCEPT ![t] = "top"]
    /\ record' = IF Committed(t) THEN Recorded(t) ELSE record
    /\ lapsed' = IF Committed(t) /\ stalls[t] > 0 THEN lapsed \cup {t} ELSE lapsed
    /\ UNCHANGED <<poolVars, clone, box, before, stalls>>

Again(t) == at' = [at EXCEPT ![t] = "top"] /\ UNCHANGED box

HasNews(t) == status[t] # "blank" /\ status[t] # start[t]

\* A stop reason written since the start.
Stop(t) ==
    /\ In(t, "check")
    /\ HasNews(t)
    /\ Gone(t, "exited")
    /\ UNCHANGED <<poolVars, clone, mishaps>>

\* Mutant: turns without a commit add up over the commits in between.
ProgressKeepingStalls(t) ==
    /\ In(t, "check")
    /\ ~HasNews(t)
    /\ Committed(t)
    /\ Again(t)
    /\ UNCHANGED <<poolVars, clone, mishaps, before, stalls, record, lapsed>>

\* A commit wipes the stalls out.
Progress(t) ==
    /\ In(t, "check")
    /\ ~HasNews(t)
    /\ Committed(t)
    /\ stalls' = [stalls EXCEPT ![t] = 0]
    /\ lapsed' = lapsed \ {t}
    /\ Again(t)
    /\ UNCHANGED <<poolVars, clone, mishaps, before, record>>

\* Too many turns in a row without one: the loop halts itself.
NoProgress(t) ==
    /\ In(t, "check")
    /\ ~HasNews(t)
    /\ ~Committed(t)
    /\ IF stalls[t] + 1 >= MaxStalls
       THEN /\ Gone(t, "exited")
            /\ status' = [status EXCEPT ![t] = "halt"]
       ELSE /\ stalls' = [stalls EXCEPT ![t] = @ + 1]
            /\ Again(t)
            /\ UNCHANGED <<before, record, lapsed, status>>
    /\ UNCHANGED <<poolVars, mishaps, head, start>>

\* The container dies of something else.
Die(t) ==
    /\ box[t] = "running"
    /\ Fails
    /\ Gone(t, "exited")
    /\ UNCHANGED <<poolVars, clone>>

LoopStep(t) ==
    \/ run_turn(t) \/ Commit(t) \/ Write(t) \/ EndTurn(t)
    \/ Pause(t) \/ Stop(t) \/ Progress(t) \/ NoProgress(t)

-----------------------------------------------------------------------------
\* Every clone is prepared before the first launch.
Init ==
    /\ pending = Manifest
    /\ running = << >> /\ polling = << >> /\ kept = << >>
    /\ pool = "fill"
    /\ gated = {} /\ stalled = {} /\ review = {}
    /\ \E crumb \in Crumbs : start = [t \in Tribes |-> crumb]
    /\ status = start
    /\ box = [t \in Tribes |-> "none"]
    /\ at = [t \in Tribes |-> "top"]
    /\ record = [t \in Tribes |-> << >>] /\ lapsed = {}
    /\ head = [t \in Tribes |-> 0] /\ pushed = head /\ before = head
    /\ stalls = head
    /\ mishaps = 0

Next == PoolStep \/ \E t \in Tribes : LoopStep(t) \/ Die(t)

\* The scheduler goes on, and so does every loop: its turns are timed out.
Fairness == WF_vars(PoolStep) /\ \A t \in Tribes : WF_vars(LoopStep(t))

Spec == Init /\ [][Next]_vars /\ Fairness

-----------------------------------------------------------------------------
(* Properties.                                                             *)

PoolTypes ==
    /\ pending \in Seq(Tribes) /\ running \in Seq(Tribes)
    /\ polling \in Seq(Tribes) /\ kept \in Seq(Tribes)
    /\ pool \in {"fill", "poll", "kind", "inspect", "push", "request", "done"}
    /\ pool \in {"kind", "inspect", "push", "request"} => polling # << >>
    /\ gated \subseteq Tribes /\ stalled \subseteq Tribes /\ review \subseteq Tribes
    /\ pushed \in [Tribes -> 0 .. Tasks]

LoopTypes ==
    /\ box \in [Tribes -> {"none", "running", "exited"}]
    /\ status \in [Tribes -> Texts] /\ start \in [Tribes -> Texts]
    /\ at \in [Tribes -> {"top", "turn", "check"}]
    /\ head \in [Tribes -> 0 .. Tasks] /\ before \in [Tribes -> 0 .. Tasks]
    /\ stalls \in [Tribes -> 0 .. MaxStalls] /\ lapsed \subseteq Tribes
    /\ mishaps \in 0 .. MaxMishaps

TypeOK == PoolTypes /\ LoopTypes /\ record \in [Tribes -> Seq(BOOLEAN)]

\* However a tribe ends, in review, stalled, dead or failed on the way to the
\* remote, its container goes before its slot does: no more than Concurrency
\* loops ever run, each for a tribe that holds a slot and has no verdict yet.
LiveLoopsHoldSlots ==
    LET live == {t \in Tribes : box[t] = "running"}
    IN  /\ Cardinality(live) <= Concurrency
        /\ live \subseteq ToSet(running) \ (gated \cup stalled)

\* A stalled tribe is never put up for review: whatever the loop does between
\* the scheduler's looks, a pull request carries every task of its tribe, and
\* the gate was reached.  That holds of clones whose breadcrumb does not itself
\* say that something is complete; one that does is taken for the gate.
ReviewIsOfFinishedWork ==
    \A t \in review :
       start[t] # "done" => pushed[t] = Tasks /\ status[t] = "gate"

Fruitless == [i \in 1 .. MaxStalls |-> FALSE]

Halts(t) == status[t] # "halt" /\ status'[t] = "halt"

\* The loop halts itself only when as many turns in a row as it allows committed
\* nothing; turns a limit stopped before they committed do not count, and those
\* it stopped after they did end the row.  The exception is a loop that had a
\* stall on its count when a limit met a turn that had committed.
HaltIsEarned == [][\A t \in Tribes \ lapsed : Halts(t) => record[t] = Fruitless]_vars

\* Every tribe of the manifest gets one verdict and the pool comes to its end,
\* though launches, pushes and containers fail and loops die without a word.
EveryTribeIsSettled ==
    <>[](/\ pool = "done"
         /\ gated \cup stalled = Tribes
         /\ gated \cap stalled = {})
-----------------------------------------------------------------------------
(* The strengthening the proofs use.                                       *)

Decided == gated \cup stalled

\* The tribes of a round: looked at later, kept, or decided.
RoundIsWhole ==
    /\ \A s \in {pending, running, polling, kept} : IsInjective(s)
    /\ Len(running) <= Concurrency
    /\ Len(kept) + Len(polling) <= Len(running)
    /\ ToSet(pending) \cap (ToSet(running) \cup Decided) = {}
    /\ ToSet(polling) \cup ToSet(kept) \subseteq ToSet(running) \ Decided
    /\ ToSet(polling) \cap ToSet(kept) = {}
    /\ IF pool \in {"fill", "done"}
       THEN polling = << >> /\ kept = << >> /\ ToSet(running) \cap Decided = {}
       ELSE ToSet(running) \subseteq ToSet(polling) \cup ToSet(kept) \cup Decided
    /\ \A t \in Tribes : box[t] = "running" => t \in ToSet(running) \ Decided

\* What the scheduler has read still holds when it acts on it.
GateIsFinal ==
    /\ \A t \in Tribes : start[t] \in {"blank", "crumb", "done"}
    /\ \A t \in Tribes : status[t] = "done" => start[t] = "done"
    /\ \A t \in Tribes : status[t] = "gate" => head[t] = Tasks
    /\ pool \in {"push", "request"} /\ start[Now] # "done" => status[Now] = "gate"
    /\ pool = "request" /\ start[Now] # "done" => pushed[Now] = Tasks
    /\ ReviewIsOfFinishedWork

\* The last n turns committed nothing.
IdleFor(t, n) ==
    /\ n <= Len(record[t])
    /\ \A i \in 1 .. Len(record[t]) : i > Len(record[t]) - n => record[t][i] = FALSE

StallsAreTurns ==
    \A t \in Tribes :
       /\ stalls[t] < MaxStalls /\ Len(record[t]) <= MaxStalls
       /\ t \notin lapsed =>
             IF at[t] # "check" THEN IdleFor(t, stalls[t])
             ELSE ~Committed(t) => IdleFor(t, stalls[t] + 1)

IInv == TypeOK /\ RoundIsWhole /\ GateIsFinal /\ StallsAreTurns
=============================================================================
