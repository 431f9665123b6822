---------------------------- MODULE MCSettlement ----------------------------
(***************************************************************************)
(* A part payment and a second call under the same key (a1, a2), which may *)
(* repeat it or ask for something else; beside them a call that pays the   *)
(* total or reverses (b) and one that reverses or cancels (c).             *)
(***************************************************************************)
EXTENDS Settlement, TLC
CONSTANTS a1, a2, b, c, k1, k2, k3
CallKeys == a1 :> k1 @@ a2 :> k1 @@ b :> k2 @@ c :> k3
Pay(x) == [kind |-> "pay", amount |-> x, entry |-> NoCall]
Reversals == {[kind |-> "reverse", amount |-> 0, entry |-> p] : p \in Calls}
CallCommands == a1 :> {Pay(1)}
                @@ a2 :> {Pay(1), Pay(2)}
                @@ b :> {Pay(2)} \cup Reversals
                @@ c :> {[kind |-> "cancel", amount |-> 0, entry |-> NoCall]} \cup Reversals
=============================================================================
