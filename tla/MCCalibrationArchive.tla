------------------------ MODULE MCCalibrationArchive ------------------------
(* Small instances of CalibrationArchive for TLC. *)
EXTENDS CalibrationArchive, TLC

Symmetry == Permutations(Handle)
=============================================================================
