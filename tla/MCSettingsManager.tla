------------------------ MODULE MCSettingsManager ------------------------
(***************************************************************************)
(* Instances of SettingsManager for TLC.                                   *)
(***************************************************************************)
EXTENDS SettingsManager, TLC

CONSTANTS d1, d2, half, folder

TwoDocs == {d1, d2}
HalfWritten == {half}
NotAFile == {folder}

DocSymmetry == Permutations(TwoDocs)
===========================================================================
