----------------------------- MODULE MCSessions -----------------------------
EXTENDS Sessions, TLC

Symmetry == Permutations(Users \ Holders) \cup Permutations(Addresses)
              \cup Permutations(Slots) \cup Permutations(Calls)
=============================================================================
