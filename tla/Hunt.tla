-------------------------------- MODULE Hunt --------------------------------
(***************************************************************************)
(* What the priest plot promises the rest of the game (disguised-priest.md *)
(* sections 1, 3 and 5): a player gathers evidence and keeps it; one report *)
(* on good evidence exposes the spy for everyone; a new hunt hides him.     *)
(***************************************************************************)
CONSTANT Players

VARIABLES
    exposed,  \* the spy has been unmasked this season
    ready,    \* players whose evidence is report-grade
    heard     \* players the Curate confides in

huntVars == <<exposed, ready, heard>>

HuntTypeOK == exposed \in BOOLEAN /\ ready \subseteq Players /\ heard \subseteq Players

HuntInit == exposed = FALSE /\ ready = {} /\ heard = {}

Gather(p) ==
    /\ ready' \in {ready, ready \cup {p}}
    /\ heard' \in {heard, heard \cup {p}}
    /\ UNCHANGED exposed

\* The one report that counts.
Accepted(p) == p \in ready /\ ~exposed

Expose(p) ==
    /\ Accepted(p)
    /\ exposed' = TRUE
    /\ UNCHANGED <<ready, heard>>

NewHunt ==
    /\ exposed' = FALSE
    /\ UNCHANGED <<ready, heard>>

HuntNext == NewHunt \/ \E p \in Players : Gather(p) \/ Expose(p)

HuntSpec == HuntInit /\ [][HuntNext]_huntVars
=============================================================================
