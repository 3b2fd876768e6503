--------------------------- MODULE MCStage21BStore ---------------------------
(* Model-checking instances of Stage21BStore.                              *)
EXTENDS Stage21BStore, TLC

CONSTANT unlimited

OnlyUnlimited == {unlimited}
OneOrUnlimited == {1, unlimited}
=============================================================================
