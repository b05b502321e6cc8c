-------------------------------- MODULE Vault --------------------------------
(***************************************************************************)
(* What a wallet promises of its value, whatever answers are lost and      *)
(* whatever tab or page goes away: each proof the mint signed for it is    *)
(* spendable, or set aside in a record that can bring it back, or spent,   *)
(* and one of these.  What is spendable is set aside before it is spent,   *)
(* what is set aside is never dropped, what the mint signs is received or  *)
(* awaited by a record, and what is spent does not come back.              *)
(***************************************************************************)
VARIABLES
  made,        (* the proofs the mint has signed for the wallet            *)
  spendable,   (* the balance                                              *)
  aside,       (* value in records: tokens, reserved proofs, outputs that  *)
               (* were signed and not yet received                         *)
  spent        (* what is spent                                            *)

vault == <<made, spendable, aside, spent>>

Init ==
  /\ made = spendable
  /\ aside = {}
  /\ spent = {}

(* A token is made, or proofs are reserved.                                *)
SetAside ==
  \E S \in SUBSET spendable :
    /\ spendable' = spendable \ S
    /\ aside' = aside \cup S
    /\ UNCHANGED <<made, spent>>

(* A record gives back what it can.                                        *)
Credit ==
  \E S \in SUBSET aside :
    /\ spendable' = spendable \cup S
    /\ aside' = aside \ S
    /\ UNCHANGED <<made, spent>>

(* The mint spends what was set aside, and signs new proofs, of which some *)
(* are received at once and a record awaits the others.                    *)
Exchange ==
  \E used \in SUBSET aside :
    LET new == made' \ made
        received == spendable' \ spendable
    IN
    /\ made \subseteq made'
    /\ spent' = spent \cup used
    /\ received \subseteq new /\ spendable \subseteq spendable'
    /\ aside' = (aside \ used) \cup (new \ received)

Next == SetAside \/ Credit \/ Exchange

Spec == Init /\ [][Next]_vault
==============================================================================
