----------------------------- MODULE MeltEscrow -----------------------------
(***************************************************************************)
(* What a melt promises, whatever RPCs, polls and timeouts carry it out:   *)
(* the wallet's proofs are in escrow for as long as the mint's payment may *)
(* still take money, they are burned only for a payment that settled and   *)
(* returned only when nothing is outstanding.  FiberMelt implements this.  *)
(***************************************************************************)
CONSTANT Invoices

VARIABLES
  proofs,   (* where the proofs put up for the invoice are                 *)
  tlc       (* what the mint's node owes for the invoice                   *)

escrow == <<proofs, tlc>>

Init ==
  /\ proofs = [i \in Invoices |-> "wallet"]
  /\ tlc = [i \in Invoices |-> "idle"]

Move(i, from, to) ==
  proofs[i] = from /\ proofs' = [proofs EXCEPT ![i] = to] /\ UNCHANGED tlc

Owe(i, from, to) ==
  tlc[i] = from /\ tlc' = [tlc EXCEPT ![i] = to] /\ UNCHANGED proofs

Hold(i) == Move(i, "wallet", "held")

Release(i) == tlc[i] = "idle" /\ Move(i, "held", "wallet")

Burn(i) == tlc[i] = "settled" /\ Move(i, "held", "burned")

Dispatch(i) ==
  proofs[i] = "held" /\ \E to \in {"live", "settled"} : Owe(i, "idle", to)

Fail(i) == Owe(i, "live", "idle")

Settle(i) == Owe(i, "live", "settled")

Next ==
  \E i \in Invoices :
    Hold(i) \/ Release(i) \/ Burn(i) \/ Dispatch(i) \/ Fail(i) \/ Settle(i)

Spec == Init /\ [][Next]_escrow

(* No payment is outstanding or settled against proofs the wallet can      *)
(* still spend, and no proof is burned for a payment that did not settle.  *)
Solvent ==
  \A i \in Invoices :
    /\ tlc[i] # "idle" => proofs[i] # "wallet"
    /\ proofs[i] = "burned" => tlc[i] = "settled"
==============================================================================
