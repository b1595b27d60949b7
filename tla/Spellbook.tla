------------------------------ MODULE Spellbook ------------------------------
(***************************************************************************)
(* What casting promises a caster (combat.md section 5): a rest prepares   *)
(* his slots, a declared spell keeps its slot, and a slot is lost for one  *)
(* thing only: one effect, one disruption, or death, which takes them all. *)
(* Nobody gains a slot but by resting.                                     *)
(*                                                                         *)
(* The promise is not made to who has gone astray: struck by a spell of    *)
(* his own, or taken out of the fight in the middle of one.  To him it is  *)
(* only that he gains nothing, until he rests with no spell pending.       *)
(***************************************************************************)
EXTENDS Naturals

CONSTANTS Casters, Spells, Slots

VARIABLES
    held,     \* how often each spell is prepared
    pledged,  \* the spell a caster has declared, if any
    astray

bookVars == <<held, pledged, astray>>

BookTypeOK ==
    /\ held \in [Casters -> [Spells -> Nat]]
    /\ pledged \in [Casters -> SUBSET Spells]
    /\ astray \subseteq Casters

BookInit ==
    /\ held = [c \in Casters |-> [s \in Spells |-> 0]]
    /\ pledged = [c \in Casters |-> {}]
    /\ astray = {}

-----------------------------------------------------------------------------
(* One caster *)

Prepare(c) == held'[c] = Slots[c] /\ pledged'[c] = pledged[c]

Pledge(c) ==
    /\ pledged[c] = {}
    /\ \E s \in Spells : held[c][s] > 0 /\ pledged'[c] = {s}
    /\ held'[c] = held[c]

\* One slot is lost, of the declared spell if there is one.
Spend(c) ==
    /\ \E s \in Spells : /\ pledged[c] \subseteq {s} /\ held[c][s] > 0
                         /\ held'[c] = [held[c] EXCEPT ![s] = @ - 1]
    /\ pledged'[c] = {}

\* A declared spell found no target, and costs nothing.
Withdraw(c) == held'[c] = held[c] /\ pledged'[c] = {}

Forget(c) == held'[c] = [s \in Spells |-> 0] /\ pledged'[c] = {}

Keeps(c) == held'[c] = held[c] /\ pledged'[c] = pledged[c]

GainsNothing(c) == \A s \in Spells : held'[c][s] <= held[c][s]

Moves(c) ==
    \/ /\ {c} \cap (astray \cup astray') = {}
       /\ Prepare(c) \/ Pledge(c) \/ Spend(c) \/ Withdraw(c) \/ Forget(c) \/ Keeps(c)
    \/ /\ c \in astray'
       /\ held'[c] = Slots[c] \/ GainsNothing(c)
    \/ /\ c \in astray \ astray'
       /\ held'[c] = Slots[c] /\ pledged'[c] = {}

\* A blow or a spell may move the books of several casters at once.
BookNext == BookTypeOK' /\ \A c \in Casters : Moves(c)

BookSpec == BookInit /\ [][BookNext]_bookVars
=============================================================================
