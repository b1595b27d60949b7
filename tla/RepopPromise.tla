---------------------------- MODULE RepopPromise ----------------------------
(***************************************************************************)
(* What the repop manager promises the players (docs/specs/repop.md 2, 3   *)
(* and 6), without timers, ticks or objects: mobs fall and return; a tribe *)
(* whose two leaders are down together is broken and nothing of it returns *)
(* until it mends; leaders who fell together return together; a new season *)
(* raises everyone.                                                        *)
(***************************************************************************)
EXTENDS FiniteSets

CONSTANTS Points, TribeOf, Role

VARIABLES
    standing,  \* the points whose mob is alive
    broken     \* the tribes under a leadership halt

promiseVars == <<standing, broken>>

Commands(p) == Role[p] # "none"

Counterparts(p) ==
    {q \in Points : TribeOf[q] = TribeOf[p] /\ Commands(q) /\ Role[q] # Role[p]}

PromiseInit == standing = Points /\ broken = {}

\* p falls; it breaks its tribe exactly when it leads and its counterpart is down.
Fall(p) ==
    /\ p \in standing
    /\ standing' = standing \ {p}
    /\ broken' = IF Commands(p) /\ Counterparts(p) \ standing # {}
                 THEN broken \cup {TribeOf[p]} ELSE broken

Mend(T) ==
    /\ broken' = broken \ T
    /\ UNCHANGED standing

\* Some of the fallen return: none of a broken tribe, and no leader without its
\* fallen counterpart.
Return(S) ==
    /\ \A p \in S : TribeOf[p] \notin broken
    /\ \A p \in S : Commands(p) => Counterparts(p) \ standing \subseteq S
    /\ standing' = standing \cup S
    /\ UNCHANGED broken

NewSeason == standing' = Points /\ broken' = {}

PromiseNext ==
    \/ \E p \in Points : Fall(p)
    \/ \E T \in SUBSET broken : Mend(T)
    \/ \E S \in SUBSET (Points \ standing) : Return(S)
    \/ NewSeason

PromiseSafety == PromiseInit /\ [][PromiseNext]_promiseVars

\* Whoever falls comes back, for a broken tribe mends in time.
PromiseSpec ==
    /\ PromiseSafety
    /\ \A p \in Points : p \notin standing ~> p \in standing
=============================================================================
