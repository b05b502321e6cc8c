----------------------------- MODULE MCOrderDelivery -----------------------------
(* Values and symmetry for the run of OrderDelivery.                       *)
EXTENDS OrderDelivery, TLC

Symmetric == Permutations(Orders) \cup Permutations(Caps) \cup Permutations(Proofs)

MCSkews == {-3, -1, 0, 1}

MCCatalog == [item \in {"coffee"} |-> [price |-> 1, label |-> 3]]
==================================================================================
