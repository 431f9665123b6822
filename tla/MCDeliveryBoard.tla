-------------------------- MODULE MCDeliveryBoard --------------------------
(* Model values for DeliveryBoard: requests are interchangeable.           *)
EXTENDS DeliveryBoard, TLC

RequestSymmetry == Permutations(Requests)
=============================================================================
