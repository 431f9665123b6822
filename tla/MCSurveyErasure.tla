--------------------------- MODULE MCSurveyErasure ---------------------------
(* Interchangeable surveys and processes.                                   *)
EXTENDS SurveyErasure, TLC
ErasureSymmetry == Permutations(Surveys) \cup Permutations(Processes)
=============================================================================
