------------------------------ MODULE MCUpdater ------------------------------
(* An instance of Updater: three releases that all hold the executables    *)
(* and the manifest.                                                       *)
EXTENDS Updater, TLC

CONSTANTS exe, upd, man

MCFiles == {exe, upd, man}
MCGuess == MCFiles \ {man}
MCManifest == [v \in Versions |-> MCFiles]
=============================================================================
