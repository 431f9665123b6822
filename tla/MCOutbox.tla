------------------------------ MODULE MCOutbox ------------------------------
(* TLC instance of Outbox: the jobs are told apart by how they may end.    *)
EXTENDS Outbox, TLC
=============================================================================
