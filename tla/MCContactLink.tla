--------------------------- MODULE MCContactLink ----------------------------
(* The job of one inbox case, two interchangeable workers.                  *)
EXTENDS ContactLink, TLC
WorkerSymmetry == Permutations(Workers)
=============================================================================
