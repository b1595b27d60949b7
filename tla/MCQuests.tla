------------------------------ MODULE MCQuests -------------------------------
(* An excerpt of the catalog: two bounties, a story quest that asks for one of  *)
(* them, the report, the Curate's doubt, and the cult's chain of three.          *)
EXTENDS Quests, TLC

CONSTANTS ana, bo, kobold_cull, expose_priest, suspicions, sp_package, sp_reagent, sp_minister,
          into_the_maze, cleanse_the_shrine, kobold, beast

MCPlayers == {ana, bo}
MCCatalog == {kobold_cull, into_the_maze, cleanse_the_shrine, expose_priest, suspicions,
              sp_package, sp_reagent, sp_minister}
MCFactions == {kobold, beast}
MCKills == [q \in MCCatalog |-> IF q = kobold_cull THEN 2 ELSE IF q = into_the_maze THEN 1 ELSE 0]
MCPrey == [q \in MCCatalog |-> IF q = into_the_maze THEN beast ELSE kobold]
MCRepeatable == {kobold_cull, into_the_maze}
MCPrior == [q \in MCCatalog |-> IF q = sp_reagent THEN {sp_package}
                                ELSE IF q = sp_minister THEN {sp_reagent}
                                ELSE IF q = cleanse_the_shrine THEN {into_the_maze} ELSE {}]
MCNeedsReport == {expose_priest}
MCNeedsCurate == {suspicions}
MCExposing == {expose_priest}
MCAidsCult == {sp_package, sp_reagent, sp_minister}
MCMinLevel == [q \in MCCatalog |-> IF q = kobold_cull THEN 2 ELSE 1]
MCLevel == (ana :> 2) @@ (bo :> 1)

\* A hunter of kobolds beside one who may not, the road to the Shrine, two accusers,
\* a dupe of the cult.
MCPursuits ==
    { (ana :> {kobold_cull, sp_package}) @@ (bo :> {kobold_cull}),
      (ana :> {into_the_maze, cleanse_the_shrine}) @@ (bo :> {}),
      (ana :> {expose_priest, suspicions}) @@ (bo :> {expose_priest}),
      (ana :> {sp_package, sp_reagent, sp_minister}) @@ (bo :> {}) }
=============================================================================
