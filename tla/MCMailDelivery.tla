--------------------------- MODULE MCMailDelivery ---------------------------
(* One invoice mail and one other mail, two interchangeable workers.        *)
EXTENDS MailDelivery, TLC
WorkerSymmetry == Permutations(Workers)
=============================================================================
