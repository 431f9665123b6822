---------------------------- MODULE MCOrderLocks ----------------------------
(* TLC instance of OrderLocks: each order is the only one in its window.   *)
EXTENDS OrderLocks, TLC

BookedWindows == <<1, 2>>
Closers == <<2, 1>>
CallSymmetry == Permutations(Calls)
=============================================================================
