------------------------------ MODULE MCPurse -------------------------------
(* Two adventurers, one of them with a single life. *)
EXTENDS Purse

CONSTANTS rogue, paladin, sword, ruby, footman, grave

MCVendors == [i \in {sword} |-> {"market"}]
MCValue == [i \in {sword, ruby} |-> 2]
MCLevelStart == [c \in {rogue, paladin} |-> 0]
MCCap == [c \in {rogue, paladin} |-> 1]
MCHireFee == [h \in {footman} |-> 1]
=============================================================================
