--------------------------- MODULE MCFaucetBudget ---------------------------
(* Symmetry for the runs of FaucetBudget.                                  *)
EXTENDS FaucetBudget, TLC

Symmetric == Permutations(Quotes) \cup Permutations(Clients) \cup Permutations(Networks)
==============================================================================
