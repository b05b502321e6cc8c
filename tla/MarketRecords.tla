---------------------------- MODULE MarketRecords ----------------------------
(***************************************************************************)
(* What market/src/domain/storage.ts accepts.  The same normalisers run    *)
(* when a snapshot is loaded and, before it is written, on every commit: a *)
(* record that is not normal makes the commit throw, and what the commit   *)
(* was about (a swap the mint has made, say) is then in no record.         *)
(*                                                                         *)
(* A record is here its state and the set of the optional fields it has.   *)
(* That a required field has its type is not said again.                   *)
(***************************************************************************)

AddStates == {"awaiting_payment", "payment_observed", "issuing", "settled", "expired",
              "recoverable", "failed"}
PaymentStates == {"preparing", "ready_to_deliver", "delivering", "delivered", "unspent",
                  "pending", "spent", "recoverable"}
OrderStates == {"registering", "awaiting_payment", "cancelling", "payload_received",
                "validating", "swapping", "settled", "cancelled", "expired", "rejected",
                "recoverable"}
CashOutStates == {"dispatching", "pending", "paid", "failed", "unknown"}

(* normalizeAdd: a faucet's add names the key its quote is locked to.      *)
AddIsNormal(state, has) ==
  /\ state \in AddStates
  /\ "fundingSource" \in has => "quotePubkey" \in has

(* normalizePayment                                                        *)
PaymentIsNormal(state, has) ==
  LET bearer == {"token", "payloadJson", "swap", "request", "deliveryUrl"}
      complete == {"token", "payloadJson", "deliveryUrl"} \subseteq has
  IN
  /\ state \in PaymentStates
  /\ state = "preparing" => {"swap", "request", "deliveryUrl"} \subseteq has
  /\ state \in {"ready_to_deliver", "delivering", "delivered", "unspent", "pending"} => complete
  /\ state = "recoverable" => "swap" \in has \/ complete
  /\ state = "spent" => has \cap bearer = {}
  /\ "notRetryable" \in has => state = "recoverable"
  /\ "deliveredAt" \in has => complete \/ state = "spent"

(* normalizeOrder                                                          *)
OrderIsNormal(state, has) ==
  LET keys == {"privateKey", "publicKey"}
      registration == keys \cup {"request", "requestDigest", "deliveryUrl",
                                 "readCapability", "writeCapability"}
  IN
  /\ state \in OrderStates
  /\ state \in {"registering", "awaiting_payment", "cancelling"} => registration \subseteq has
  /\ state \in {"payload_received", "validating"} => keys \cup {"incomingToken"} \subseteq has
  /\ state = "swapping" => keys \cup {"incomingSwap"} \subseteq has
  /\ state \in {"settled", "cancelled", "expired"} =>
       has \cap {"privateKey", "incomingToken", "incomingSwap", "request", "deliveryUrl",
                 "writeCapability"} = {}

(* normalizeCashOut; a recovery swap needs inputs, which are the proofs    *)
(* reserved.                                                               *)
CashOutIsNormal(state, has) ==
  /\ state \in CashOutStates
  /\ "recoverySwap" \in has => "reservedProofs" \in has

(* assertSpendableProofsAreNotReserved, and the duplicates proofs() finds: *)
(* what a swap or an issue will add is not there already.                  *)
ProofsAreNormal(spendable, reserved, awaited) == spendable \cap (reserved \cup awaited) = {}
==============================================================================
