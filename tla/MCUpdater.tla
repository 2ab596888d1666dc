------------------------------ MODULE MCUpdater ------------------------------
(* Four releases: the second crashes and migrates nothing, the third brings a *)
(* migration and does not load the settings that the others do, the fourth   *)
(* brings another migration.                                                 *)
EXTENDS Updater

MCSchema == <<1, 1, 2, 3>>
MCLoads  == <<{"old", "new"}, {"old", "new"}, {"new"}, {"old", "new"}>>

\* The second release migrates, and none crashes.
CutSchema == <<1, 2, 2, 2>>
=============================================================================
