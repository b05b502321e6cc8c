------------------------------ MODULE FiberMelt ------------------------------
(***************************************************************************)
(* Outgoing payments of mint/cdk-fiber/src/lib.rs: get_payment_quote,      *)
(* make_payment with await_settlement, and check_outgoing_payment, between *)
(* a mint that holds the wallet's proofs and a Fiber node that keeps the   *)
(* payment session.  One step of this module ends at an await of the code. *)
(* The adapter keeps no state of its own between calls: session is the     *)
(* node's and melt is the mint's, both external.                           *)
(***************************************************************************)
EXTENDS Naturals

CONSTANTS
  Invoices,    (* invoices wallets ask the mint to pay, one melt quote each *)
  Calls,       (* handlers that may run at the same time                   *)
  Network,     (* FiberConfig.currency                                     *)
  Asset,       (* FiberConfig.udt_type_script                              *)
  Decoded,     (* what parse_invoice answers: network, asset and amount    *)
  NoAmount,    (* the amount of an invoice that names none                 *)
  MaxFaults    (* bound on RPC errors, lost answers and crashes            *)

ASSUME MeltAssumption ==
  /\ MaxFaults \in Nat
  /\ Invoices # {}
  /\ DOMAIN Decoded = Invoices

VARIABLES
  session,   (* the node's payment session of the invoice's hash           *)
  melt,      (* the mint's melt quote: unpaid returns the wallet's proofs  *)
  call,      (* the handlers: where each is, its invoice, what it saw last *)
  faults     (* faults that happened                                       *)

vars == <<session, melt, call, faults>>

Live == {"Created", "Inflight"}
Terminal == {"Success", "Failed"}
Sessions == {"none"} \cup Live \cup Terminal
Melts == {"none", "unpaid", "pending", "paid"}
Seen == {"none", "Unknown", "Error"} \cup Live \cup Terminal
Steps == {"idle", "lookup", "send", "poll", "check", "reply"}

Idle == [pc |-> "idle", inv |-> CHOOSE i \in Invoices : TRUE, seen |-> "none"]

Init ==
  /\ session = [i \in Invoices |-> "none"]
  /\ melt = [i \in Invoices |-> "none"]
  /\ call = [c \in Calls |-> Idle]
  /\ faults = 0

(* Seeded fault: the asset of the invoice is not compared.                 *)
ResolvesNetworkOnly(i) == Decoded[i].network = Network

(* resolve_invoice *)
Resolves(i) ==
  /\ Decoded[i].network = Network
  /\ Decoded[i].asset = Asset
  /\ Decoded[i].amount # NoAmount

At(c, pc) == call[c].pc = pc

Goto(c, pc, seen) ==
  call' = [call EXCEPT ![c] = [pc |-> pc, inv |-> @.inv, seen |-> seen]]

Fault == faults < MaxFaults /\ faults' = faults + 1

Busy(i) == \E c \in Calls : ~At(c, "idle") /\ call[c].inv = i
-----------------------------------------------------------------------------
(* get_payment_quote: the dry run leaves no session behind.                *)
Quote(i) ==
  /\ melt[i] = "none"
  /\ Resolves(i)
  /\ melt' = [melt EXCEPT ![i] = "unpaid"]
  /\ UNCHANGED <<session, call, faults>>

(* External: cdk-mintd runs at most one call for a quote at a time.        *)
Begin(c, i, pc, seen) ==
  /\ At(c, "idle")
  /\ ~Busy(i)
  /\ call' = [call EXCEPT ![c] = [pc |-> pc, inv |-> i, seen |-> seen]]
  /\ UNCHANGED session

(* The mint takes the proofs and calls make_payment, or calls it again for *)
(* a melt it still holds proofs for; the call decodes the invoice first.   *)
StartMake(c, i) ==
  /\ melt[i] \in {"unpaid", "pending"}
  /\ melt' = [melt EXCEPT ![i] = "pending"]
  /\ \/ /\ IF Resolves(i) THEN Begin(c, i, "lookup", "none")
                          ELSE Begin(c, i, "reply", "Error")
        /\ UNCHANGED faults
     \/ Begin(c, i, "reply", "Error") /\ Fault

StartCheck(c, i) ==
  /\ melt[i] = "pending"
  /\ Begin(c, i, "check", "none")
  /\ UNCHANGED <<melt, faults>>

(* rpc.get_payment: "none" is the node's "session not found", which a node *)
(* that lost sight of the session answers too.                             *)
Answers == Sessions \cup {"Error"}

GetPayment(c, answer) ==
  LET known == session[call[c].inv]
  IN  \/ answer = known /\ UNCHANGED faults
      \/ answer \in {"none", "Error"} \ {known} /\ Fault

(* Seeded faults: make_payment sends whatever the session is, and reports  *)
(* an existing session without reading its status.                         *)
SendAnyway(c) ==
  At(c, "lookup") /\ Goto(c, "send", "none") /\ UNCHANGED <<session, melt, faults>>

LookupUnread(c) ==
  /\ At(c, "lookup")
  /\ Goto(c, IF session[call[c].inv] \in {"none", "Failed"} THEN "send" ELSE "reply", "none")
  /\ UNCHANGED <<session, melt, faults>>

LookupMake(c) ==
  /\ At(c, "lookup")
  /\ \E answer \in Answers :
       /\ GetPayment(c, answer)
       /\ \/ answer \in {"none", "Failed"} /\ Goto(c, "send", "none")
          \/ answer \notin {"none", "Failed"} /\ Goto(c, "reply", answer)
  /\ UNCHANGED <<session, melt>>

LookupCheck(c) ==
  /\ At(c, "check")
  /\ \E answer \in Answers :
       /\ GetPayment(c, answer)
       /\ Goto(c, "reply", IF answer = "none" THEN "Unknown" ELSE answer)
  /\ UNCHANGED <<session, melt>>

(* The node's answer to send_payment, and what await_settlement does with  *)
(* it.  The node refuses a hash whose session is not Failed, or for which  *)
(* it finds no route; an answer can be lost after the dispatch.            *)
Dispatched(c, status) ==
  /\ session[call[c].inv] \in {"none", "Failed"}
  /\ session' = [session EXCEPT ![call[c].inv] = status]

SendMake(c) ==
  /\ At(c, "send")
  /\ \/ /\ \E status \in Live \cup Terminal :
             /\ Dispatched(c, status)
             /\ Goto(c, IF status \in Terminal THEN "reply" ELSE "poll", status)
        /\ UNCHANGED faults
     \/ /\ \E status \in Live \cup Terminal : Dispatched(c, status)
        /\ Goto(c, "reply", "Error")
        /\ Fault
     \/ /\ Goto(c, "reply", "Error")
        /\ UNCHANGED <<session, faults>>
  /\ UNCHANGED melt

(* One turn of the polling loop of await_settlement: a session that is     *)
(* gone ends it with the latest status, an error is tried again.           *)
PollMake(c) ==
  /\ At(c, "poll")
  /\ \E answer \in Answers :
       /\ GetPayment(c, answer)
       /\ \/ answer \in Terminal /\ Goto(c, "reply", answer)
          \/ answer \in Live /\ Goto(c, "poll", answer)
          \/ answer = "none" /\ Goto(c, "reply", call[c].seen)
          \/ answer = "Error" /\ UNCHANGED call
  /\ UNCHANGED <<session, melt>>

(* Seeded fault: the deadline moves with every poll.                       *)
DeadlineMoves(c) == At(c, "poll") /\ FALSE

(* The deadline passes: the latest status is the answer.                   *)
Deadline(c) ==
  /\ At(c, "poll")
  /\ Goto(c, "reply", call[c].seen)
  /\ UNCHANGED <<session, melt, faults>>

(* Seeded faults: a timeout is a failure, whatever did not fail is paid,   *)
(* and a payment without a preimage is never final.                        *)
FailedUnlessPaid(status) ==
  IF status = "Success" THEN "Paid"
  ELSE IF status \in Live \cup {"Failed"} THEN "Failed"
  ELSE status

PaidUnlessFailed(status) ==
  IF status = "Failed" THEN "Failed"
  ELSE IF status \in Live \cup {"Success"} THEN "Paid"
  ELSE status

PendingWithoutProof(status) ==
  IF status = "Failed" THEN "Failed"
  ELSE IF status \in Live \cup {"Success"} THEN "Pending"
  ELSE status

(* payment_response and what the mint does with each state of the answer:  *)
(* Paid burns the proofs, Failed returns them, and Pending, Unknown or an  *)
(* error leaves the melt pending, to be checked or made again.             *)
PaymentResponse(status) ==
  IF status = "Success" THEN "Paid"
  ELSE IF status = "Failed" THEN "Failed"
  ELSE IF status \in Live THEN "Pending"
  ELSE status

Reply(c) ==
  LET i == call[c].inv
      state == PaymentResponse(call[c].seen)
  IN  /\ At(c, "reply")
      /\ melt' = [melt EXCEPT ![i] = IF state = "Paid" THEN "paid"
                                     ELSE IF state = "Failed" THEN "unpaid"
                                     ELSE @]
      /\ call' = [call EXCEPT ![c] = Idle]
      /\ UNCHANGED <<session, faults>>

(* External: the node moves a live payment along.                          *)
NodeProgress(i) ==
  /\ \/ session[i] = "Created" /\ session' = [session EXCEPT ![i] = "Inflight"]
     \/ session[i] = "Inflight" /\ session' = [session EXCEPT ![i] = "Success"]
     \/ session[i] \in Live /\ session' = [session EXCEPT ![i] = "Failed"]
  /\ UNCHANGED <<melt, call, faults>>

(* The processor or the mint stops and starts: every call is gone.         *)
Crash ==
  /\ \E c \in Calls : ~At(c, "idle")
  /\ Fault
  /\ call' = [c \in Calls |-> Idle]
  /\ UNCHANGED <<session, melt>>

CallStep(c) ==
  LookupMake(c) \/ LookupCheck(c) \/ SendMake(c) \/ PollMake(c) \/ Reply(c)

Next ==
  \/ \E i \in Invoices : Quote(i) \/ NodeProgress(i)
  \/ \E c \in Calls, i \in Invoices : StartMake(c, i) \/ StartCheck(c, i)
  \/ \E c \in Calls : CallStep(c) \/ Deadline(c)
  \/ Crash

Spec == Init /\ [][Next]_vars

(* A running handler is scheduled and its timer fires; the mint checks a   *)
(* melt it holds proofs for again and again.                               *)
Fairness ==
  /\ \A c \in Calls : WF_vars(CallStep(c)) /\ WF_vars(Deadline(c))
  /\ \A i \in Invoices : SF_vars(\E c \in Calls : StartCheck(c, i))

FairSpec == Spec /\ Fairness
-----------------------------------------------------------------------------
TypeOK ==
  /\ session \in [Invoices -> Sessions]
  /\ melt \in [Invoices -> Melts]
  /\ call \in [Calls -> [pc : Steps, inv : Invoices, seen : Seen]]
  /\ faults \in 0 .. MaxFaults
  /\ \A c \in Calls : At(c, "reply") => call[c].seen # "none"

(* The melt path's central rule (lib.rs, "Settlement semantics"): while a  *)
(* payment may take money, or has taken it, the wallet does not have its   *)
(* proofs back, however calls time out, answers get lost or retries run.   *)
ProofsCoverPayment ==
  \A i \in Invoices :
    session[i] \in Live \cup {"Success"} => melt[i] \in {"pending", "paid"}

(* Proofs are burned only for a payment that settled.                      *)
PaidMeansSettled ==
  \A i \in Invoices : melt[i] = "paid" => session[i] = "Success"

(* make_payment looks before it sends: while the node answers truthfully,  *)
(* it never asks the node to pay a hash that is live or settled.           *)
NeverDispatchTwice ==
  faults = 0 =>
    \A c \in Calls :
      At(c, "send") => session[call[c].inv] \in {"none", "Failed"}

(* The node is only ever asked to pay in the configured asset, on the      *)
(* configured network, an amount the mint knows.                           *)
OnlyConfiguredAssetIsSpent ==
  \A i \in Invoices :
    session[i] # "none" => /\ Decoded[i].network = Network
                           /\ Decoded[i].asset = Asset
                           /\ Decoded[i].amount # NoAmount

(* The node is asked to pay what the mint may pay, and once.               *)
DispatchIsSound == NeverDispatchTwice /\ OnlyConfiguredAssetIsSpent

(* No handler hangs: a poll that sees nothing terminal ends at its         *)
(* deadline with the latest status it saw.                                 *)
EveryCallEnds == \A c \in Calls : ~At(c, "idle") ~> At(c, "idle")

(* A payment that settles after its call timed out, erred or crashed is    *)
(* still reported as paid.                                                 *)
SettledMeltIsReported ==
  \A i \in Invoices :
    session[i] = "Success" /\ melt[i] = "pending" ~> melt[i] = "paid"
-----------------------------------------------------------------------------
(* The escrow this module implements.                                      *)
proofs ==
  [i \in Invoices |-> IF melt[i] = "pending" THEN "held"
                      ELSE IF melt[i] = "paid" THEN "burned"
                      ELSE "wallet"]

tlc ==
  [i \in Invoices |-> IF session[i] \in Live THEN "live"
                      ELSE IF session[i] = "Success" THEN "settled"
                      ELSE "idle"]

Escrow == INSTANCE MeltEscrow

ImplementsEscrow == Escrow!Spec
==============================================================================
