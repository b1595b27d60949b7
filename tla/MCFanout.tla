------------------------------ MODULE MCFanout ------------------------------
(* Three tribes of the manifest. *)
EXTENDS Fanout

MCManifest == <<"orc", "goblin", "gnoll">>
=============================================================================
