----------------------------- MODULE MarketPayment -----------------------------
(***************************************************************************)
(* A payment at the market: a vendor's browser creates an order and        *)
(* registers a slot at the relay, attendees' browsers swap proofs into a   *)
(* token locked to the vendor and deliver it, and the vendor polls the     *)
(* relay and swaps the token at the mint.  The relay is RelaySlots; each   *)
(* browser has one tab, which may close at any await, and any request or   *)
(* answer may be lost.                                                     *)
(***************************************************************************)
EXTENDS Naturals, FiniteSets

CONSTANTS
  Payers,       (* attendees                                               *)
  MaxOrders,    (* bound on the vendor's orders                            *)
  Ttl,          (* 300: the seconds an order is open                       *)
  Retention,    (* the relay's retentionSeconds                            *)
  Period,       (* 60: the seconds between the relay's cleanups            *)
  MaxTime,      (* bound on the clock                                      *)
  MaxFaults,    (* bound on lost calls and closed tabs                     *)
  None

VARIABLES
  orders,    (* the vendor's records                                       *)
  till,      (* the vendor's spendable proofs                              *)
  vtask,     (* what runs in the vendor's tab, and where it waits          *)
  pay,       (* the attendees' records, by order                           *)
  purse,     (* their spendable proofs                                     *)
  ptask,     (* what runs in an attendee's tab                             *)
  signed,    (* the proofs the mint has signed                             *)
  spent,     (* those it has seen spent                                    *)
  slots, told, up, cleaned, now,   (* the relay, and the one clock         *)
  faults

vendor == <<orders, till, vtask>>
payers == <<pay, purse, ptask>>
mint == <<signed, spent>>
relay == <<slots, told, up, cleaned, now>>
vars == <<vendor, payers, mint, relay, faults>>

ASSUME PaymentAssumption ==
  /\ {MaxOrders, MaxTime, MaxFaults} \subseteq Nat
  /\ {Ttl, Retention, Period} \subseteq Nat \ {0}

Orders == 1 .. MaxOrders

(* Proofs by what they were drawn for.  A swap draws its outputs once, and *)
(* its record keeps them until they are proofs.                            *)
Seed(p) == <<"seed", p, 0>>
Token(p, o) == <<"token", p, o>>
Change(p, o) == <<"change", p, o>>
Fresh(o) == <<"fresh", None, o>>

(* What another wallet pays the order with: not locked to the vendor.      *)
Foreign(o) == <<"foreign", None, o>>

OwnTokens == {Token(p, o) : p \in Payers, o \in Orders}
Tokens == OwnTokens \cup {Foreign(o) : o \in Orders}
Proofs == {Seed(p) : p \in Payers} \cup OwnTokens \cup {Fresh(o) : o \in Orders}
            \cup {Change(p, o) : p \in Payers, o \in Orders}

Relay == INSTANCE RelaySlots WITH Caps <- Orders, Proofs <- Tokens, MaxTtl <- Ttl

(* None stands for what is absent, and is no token or payload.             *)
ASSUME NoneAssumption == None \notin Tokens \cup Relay!Payloads
Storage == INSTANCE MarketRecords

Payload(o, token) == [order |-> o, proofs |-> token]

OrderStates == {"none", "registering", "awaiting_payment", "cancelling",
                "payload_received", "validating", "swapping", "settled", "cancelled",
                "expired", "rejected", "recoverable"}
PaymentStates == {"none", "preparing", "delivering", "delivered", "unspent", "spent",
                  "recoverable"}

Idle == [at |-> "idle", op |-> 0]
NoTask == [at |-> "idle", op |-> 0, first |-> FALSE]

Init ==
  /\ orders = [o \in Orders |-> [state |-> "none", key |-> FALSE, cap |-> FALSE,
                                 registered |-> FALSE, acked |-> FALSE, token |-> None,
                                 swap |-> FALSE, expiresAt |-> 0]]
  /\ till = {}
  /\ vtask = Idle
  /\ pay = [p \in Payers |-> [o \in Orders |->
              [state |-> "none", swap |-> {}, token |-> FALSE, retry |-> "unset",
               delivered |-> FALSE]]]
  /\ purse = [p \in Payers |-> {Seed(p)}]
  /\ ptask = [p \in Payers |-> NoTask]
  /\ signed = {Seed(p) : p \in Payers}
  /\ spent = {}
  /\ Relay!Init
  /\ faults = 0
-----------------------------------------------------------------------------
(* Calls.  A request fails when the relay is down, or when it or its       *)
(* answer is lost.                                                         *)
Fault == faults < MaxFaults /\ faults' = faults + 1

Fails(Request) ==
  \/ Fault /\ (Request \/ UNCHANGED relay)
  \/ ~up /\ UNCHANGED <<relay, faults>>

MintSwap(inputs, outputs) ==
  /\ inputs \subseteq signed \ spent
  /\ signed' = signed \cup outputs
  /\ spent' = spent \cup inputs

(* The state of a slot as a request finds it.                              *)
Slot(o) == IF o \in DOMAIN slots THEN Relay!ExpireRow(slots[o], now).state ELSE "missing"

Expired(o) == orders[o].expiresAt <= now

(* The optional fields of a record.  What an order is registered with is   *)
(* forgotten together with its private key, and what a payment is made     *)
(* from when it is seen spent.                                             *)
Has(condition, fields) == IF condition THEN fields ELSE {}

OrderFields(order) ==
  {"publicKey"}
    \cup Has(order.key, {"privateKey", "request", "requestDigest", "deliveryUrl",
                         "writeCapability"})
    \cup Has(order.cap, {"readCapability"})
    \cup Has(order.token # None, {"incomingToken"}) \cup Has(order.swap, {"incomingSwap"})

PaymentFields(payment) ==
  Has(payment.state # "spent", {"request", "deliveryUrl"})
    \cup Has(payment.swap # {}, {"swap"}) \cup Has(payment.token, {"token", "payloadJson"})
    \cup Has(payment.retry = "no", {"notRetryable"})
    \cup Has(payment.delivered, {"deliveredAt"})

Store(o, record) == orders' = [orders EXCEPT ![o] = record]
Mark(o, state) == Store(o, [orders[o] EXCEPT !.state = state])
Wait(place, o) == vtask' = [at |-> place, op |-> o]
Rest == vtask' = Idle

(* Seeded fault: an order that ends keeps its private key.                 *)
ClosedWithKey(o, state) == Store(o, [orders[o] EXCEPT !.state = state, !.cap = FALSE])

(* What an order that ends without its payment forgets.                    *)
Closed(o, state) == Store(o, [orders[o] EXCEPT !.state = state, !.key = FALSE, !.cap = FALSE])
-----------------------------------------------------------------------------
(* createOrder: keys and capabilities are stored before the slot exists.   *)
CreateOrder(o) ==
  /\ vtask = Idle
  /\ orders[o].state = "none" /\ \A other \in 1 .. (o - 1) : orders[other].state # "none"
  /\ now < MaxTime
  /\ Store(o, [orders[o] EXCEPT !.state = "registering", !.key = TRUE, !.cap = TRUE,
                                !.expiresAt = now + Ttl])
  /\ Wait("registering", o)
  /\ UNCHANGED <<till, payers, mint, relay, faults>>

(* A slot is registered once; the same registration again changes nothing. *)
RegisterSlot(o) ==
  /\ up /\ ~Expired(o)
  /\ \/ Relay!Register(o, o, orders[o].expiresAt)
     \/ o \in DOMAIN slots /\ UNCHANGED relay

(* registerStoredOrder, and the end of createOrder.                        *)
Register(o) ==
  /\ vtask = [at |-> "registering", op |-> o]
  /\ \/ /\ RegisterSlot(o)
        /\ Store(o, [orders[o] EXCEPT !.state = "awaiting_payment", !.registered = TRUE])
        /\ UNCHANGED faults
     \/ /\ \/ Fails(RegisterSlot(o))
           \/ Expired(o) /\ UNCHANGED <<relay, faults>>
        /\ Mark(o, "recoverable")
  /\ Rest
  /\ UNCHANGED <<till, payers, mint>>

Unfinished(o) ==
  \/ orders[o].state \in {"registering", "awaiting_payment", "cancelling",
                          "payload_received", "validating", "swapping", "recoverable"}
  \/ orders[o].state = "settled" /\ ~orders[o].acked /\ orders[o].cap

(* The start of settleOrder, for an order as it is stored.                 *)
BeginSettlement(o, record) ==
  IF record.swap THEN Store(o, record) /\ Wait("swapping", o)
  ELSE Store(o, [record EXCEPT !.state = "validating"]) /\ Wait("validating", o)

(* pollOrder up to its first call.                                         *)
Poll(o) ==
  CASE orders[o].state = "settled" -> Wait("cleaning", o) /\ UNCHANGED orders
    [] orders[o].token # None \/ orders[o].swap -> BeginSettlement(o, orders[o])
    [] OTHER -> Wait("reading", o) /\ UNCHANGED orders

(* The hook's pollOrder: an order being cancelled is cancelled, one that   *)
(* was not registered is registered, and any other is polled.              *)
PollOrder(o) ==
  /\ vtask = Idle
  /\ Unfinished(o)
  /\ CASE orders[o].state = "cancelling" -> Wait("cancelling", o) /\ UNCHANGED orders
       [] ~orders[o].registered /\ orders[o].token = None /\ ~orders[o].swap ->
            Wait("registering", o) /\ UNCHANGED orders
       [] OTHER -> Poll(o)
  /\ UNCHANGED <<till, payers, mint, relay, faults>>

(* resume takes the newest order that is not finished.                     *)
Resume == \E o \in Orders : (\A later \in (o + 1) .. MaxOrders : ~Unfinished(later)) /\ PollOrder(o)

(* Seeded fault: the payload is acknowledged before it is stored.          *)
ReadAndDrop(o) ==
  /\ vtask = [at |-> "reading", op |-> o]
  /\ Slot(o) = "delivered" /\ Relay!Acknowledge(o)
  /\ Rest
  /\ UNCHANGED <<orders, till, payers, mint, faults>>

(* The read of pollOrder.  A payload is stored before it is acknowledged;  *)
(* the clock is looked at when the answer is used, which is a later step.  *)
Read(o) ==
  /\ vtask = [at |-> "reading", op |-> o]
  /\ \/ /\ Slot(o) = "delivered" /\ Relay!Read(o)
        /\ Store(o, [orders[o] EXCEPT !.state = "payload_received",
                                      !.token = slots[o].payload.proofs])
        /\ Wait("acknowledging", o)
        /\ UNCHANGED faults
     \/ /\ Slot(o) # "delivered"
        /\ \/ Relay!Read(o)
           \/ up /\ Slot(o) = "missing" /\ UNCHANGED relay
        /\ Wait(IF Slot(o) = "open" THEN "read open" ELSE "read closed", o)
        /\ UNCHANGED <<orders, faults>>
     \/ Fails(Relay!Read(o)) /\ Mark(o, "recoverable") /\ Rest
  /\ UNCHANGED <<till, payers, mint>>

(* What pollOrder does without a payload; expireOrder.                     *)
UseRead(o) ==
  /\ vtask.op = o /\ vtask.at \in {"read open", "read closed"}
  /\ CASE Expired(o) -> Closed(o, "expired")
       [] ~Expired(o) /\ vtask.at = "read open" -> UNCHANGED orders
       [] OTHER -> Mark(o, "recoverable")
  /\ Rest
  /\ UNCHANGED <<till, payers, mint, relay, faults>>

(* An acknowledgement is answered once the slot was delivered to.          *)
AcknowledgeSlot(o) == Slot(o) \in {"delivered", "acknowledged"} /\ Relay!Acknowledge(o)

NotAcknowledged(o) ==
  \/ Fails(Relay!Acknowledge(o))
  \/ /\ up /\ Slot(o) \notin {"delivered", "acknowledged"}
     /\ \/ Relay!Acknowledge(o)
        \/ Slot(o) = "missing" /\ UNCHANGED relay
     /\ UNCHANGED faults

Acknowledge(o) ==
  /\ vtask = [at |-> "acknowledging", op |-> o]
  /\ \/ /\ AcknowledgeSlot(o) /\ UNCHANGED faults
        /\ BeginSettlement(o, [orders[o] EXCEPT !.acked = TRUE])
     \/ NotAcknowledged(o) /\ BeginSettlement(o, [orders[o] EXCEPT !.acked = FALSE])
  /\ UNCHANGED <<till, payers, mint>>

(* acknowledgeSettledOrder                                                 *)
CleanUp(o) ==
  /\ vtask = [at |-> "cleaning", op |-> o]
  /\ \/ /\ AcknowledgeSlot(o) /\ UNCHANGED faults
        /\ Store(o, [orders[o] EXCEPT !.acked = TRUE, !.cap = FALSE])
     \/ NotAcknowledged(o) /\ UNCHANGED orders
  /\ Rest
  /\ UNCHANGED <<till, payers, mint>>

(* Seeded fault: the prepared swap is not stored before it is sent.        *)
ValidateOnly(o) ==
  /\ vtask = [at |-> "validating", op |-> o]
  /\ IF orders[o].token \in OwnTokens /\ orders[o].token \notin spent
     THEN Wait("swapping", o) /\ UNCHANGED orders
     ELSE Mark(o, "rejected") /\ Rest
  /\ UNCHANGED <<till, payers, mint, relay, faults>>

(* tokenIsLockedTo, inspectToken: a token that the market's own wallet made*)
(* for an order is locked to the vendor's key, and is of the amount.       *)
Matches(token) == token \in OwnTokens

(* settleOrder up to the swap: a token of another amount, mint or lock is  *)
(* rejected, as is one already spent; otherwise a swap is prepared and     *)
(* stored.                                                                 *)
Validate(o) ==
  LET token == orders[o].token
      Accepted == Matches(token) /\ token \notin spent
  IN
  /\ vtask = [at |-> "validating", op |-> o]
  /\ \/ ~Accepted /\ Mark(o, "rejected") /\ Rest /\ UNCHANGED faults
     \/ /\ Accepted
        /\ Store(o, [orders[o] EXCEPT !.state = "swapping", !.swap = TRUE])
        /\ Wait("swapping", o) /\ UNCHANGED faults
     \/ Matches(token) /\ Fault /\ Mark(o, "recoverable") /\ Rest
  /\ UNCHANGED <<till, payers, mint, relay>>

(* The commit of a settled order, which keeps only what is left to do.     *)
Settle(o) ==
  /\ Store(o, [orders[o] EXCEPT !.state = "settled", !.key = FALSE, !.cap = ~orders[o].acked,
                                !.token = None, !.swap = FALSE])
  /\ till' = till \cup {Fresh(o)}
  /\ Rest

(* completePreparedReceive; a refusal or a lost answer turns to the        *)
(* restoration of its outputs.                                             *)
Swap(o) ==
  LET Request == MintSwap({orders[o].token}, {Fresh(o)}) IN
  /\ vtask = [at |-> "swapping", op |-> o]
  /\ \/ Request /\ Settle(o) /\ UNCHANGED faults
     \/ /\ \/ orders[o].token \in spent /\ UNCHANGED <<mint, faults>>
           \/ Fault /\ (Request \/ UNCHANGED mint)
        /\ Wait("restoring", o) /\ UNCHANGED <<orders, till>>
  /\ UNCHANGED <<payers, relay>>

Restore(o) ==
  /\ vtask = [at |-> "restoring", op |-> o]
  /\ \/ Fresh(o) \in signed /\ Settle(o) /\ UNCHANGED faults
     \/ /\ \/ Fault
           \/ Fresh(o) \notin signed /\ UNCHANGED faults
        /\ Mark(o, "recoverable") /\ Rest /\ UNCHANGED till
  /\ UNCHANGED <<payers, mint, relay>>

(* cancelOrder, from the button of an order that awaits its payment.       *)
CancelOrder(o) ==
  /\ vtask = Idle
  /\ orders[o].state = "awaiting_payment"
  /\ Mark(o, "cancelling") /\ Wait("cancelling", o)
  /\ UNCHANGED <<till, payers, mint, relay, faults>>

(* Seeded fault: any answer of the relay is taken for a cancellation.      *)
CancelAnyway(o) ==
  /\ vtask = [at |-> "cancelling", op |-> o]
  /\ Relay!Cancel(o) /\ Closed(o, "cancelled") /\ Rest
  /\ UNCHANGED <<till, payers, mint, faults>>

(* The relay decides whether a delivery came first.                        *)
Cancel(o) ==
  /\ vtask = [at |-> "cancelling", op |-> o]
  /\ \/ /\ Slot(o) \in {"open", "cancelled"} /\ Relay!Cancel(o)
        /\ Closed(o, "cancelled") /\ Rest /\ UNCHANGED faults
     \/ /\ Slot(o) \notin {"open", "cancelled"} /\ Relay!Cancel(o)
        /\ Poll(o) /\ UNCHANGED faults
     \/ /\ \/ Fails(Relay!Cancel(o))
           \/ up /\ Slot(o) = "missing" /\ UNCHANGED <<relay, faults>>
        /\ Mark(o, "recoverable") /\ Rest
  /\ UNCHANGED <<till, payers, mint>>

(* The vendor's tab closes; what it was sending may or may not be sent.    *)
VendorRequest(o) ==
  \/ /\ \/ vtask.at = "registering" /\ RegisterSlot(o)
        \/ vtask.at = "reading" /\ Relay!Read(o)
        \/ vtask.at \in {"acknowledging", "cleaning"} /\ Relay!Acknowledge(o)
        \/ vtask.at = "cancelling" /\ Relay!Cancel(o)
     /\ UNCHANGED mint
  \/ vtask.at = "swapping" /\ MintSwap({orders[o].token}, {Fresh(o)}) /\ UNCHANGED relay

CloseVendor ==
  /\ vtask # Idle
  /\ Fault
  /\ VendorRequest(vtask.op) \/ UNCHANGED <<mint, relay>>
  /\ Rest
  /\ UNCHANGED <<orders, till, payers>>
-----------------------------------------------------------------------------
Record(p, o, record) == pay' = [pay EXCEPT ![p][o] = record]
At(p, place, o) == ptask[p].at = place /\ ptask[p].op = o
Begin(p, place, o, first) ==
  ptask' = [ptask EXCEPT ![p] = [at |-> place, op |-> o, first |-> first]]
Goto(p, place) == ptask' = [ptask EXCEPT ![p].at = place]
Stop(p) == ptask' = [ptask EXCEPT ![p] = NoTask]

(* reviewPayment and confirmPayment up to the swap: the code of an order   *)
(* that was shown, not expired and not paid from this browser, is paid     *)
(* from proofs that leave the balance at once.                             *)
ConfirmPayment(p, o, send) ==
  /\ ptask[p] = NoTask
  /\ orders[o].registered /\ ~Expired(o)
  /\ pay[p][o].state = "none"
  /\ send # {}
  /\ Record(p, o, [pay[p][o] EXCEPT !.state = "preparing", !.swap = send])
  /\ purse' = [purse EXCEPT ![p] = @ \ send]
  /\ Begin(p, "preparing", o, TRUE)
  /\ UNCHANGED <<vendor, mint, relay, faults>>

SendOutputs(p, o) == {Token(p, o), Change(p, o)}

(* Seeded fault: the swap is cleared in a commit before its token is kept. *)
ReadyWithoutToken(p, o) ==
  /\ Record(p, o, [pay[p][o] EXCEPT !.state = "delivering", !.swap = {}, !.retry = "yes"])
  /\ purse' = [purse EXCEPT ![p] = @ \cup {Change(p, o)}]
  /\ Goto(p, "delivering")

(* The end of finishPaymentPreparation and the commit before a delivery.   *)
Ready(p, o) ==
  /\ Record(p, o, [pay[p][o] EXCEPT !.state = "delivering", !.swap = {}, !.token = TRUE,
                                    !.retry = "yes"])
  /\ purse' = [purse EXCEPT ![p] = @ \cup {Change(p, o)}]
  /\ Goto(p, "delivering")

(* completePreparedSend                                                    *)
Prepare(p, o) ==
  LET Request == MintSwap(pay[p][o].swap, SendOutputs(p, o)) IN
  /\ At(p, "preparing", o)
  /\ \/ Request /\ Ready(p, o) /\ UNCHANGED faults
     \/ /\ \/ pay[p][o].swap \subseteq spent /\ UNCHANGED <<mint, faults>>
           \/ Fault /\ (Request \/ UNCHANGED mint)
        /\ Goto(p, "restoring") /\ UNCHANGED <<pay, purse>>
  /\ UNCHANGED <<vendor, relay>>

(* Its restoration.  Without it confirmPayment stores a recoverable        *)
(* payment, and deliverStoredPayment leaves the one there is.              *)
RestoreSend(p, o) ==
  /\ At(p, "restoring", o)
  /\ \/ SendOutputs(p, o) \subseteq signed /\ Ready(p, o) /\ UNCHANGED faults
     \/ /\ \/ Fault
           \/ ~(SendOutputs(p, o) \subseteq signed) /\ UNCHANGED faults
        /\ IF ptask[p].first THEN Record(p, o, [pay[p][o] EXCEPT !.state = "recoverable"])
                             ELSE UNCHANGED pay
        /\ Stop(p) /\ UNCHANGED purse
  /\ UNCHANGED <<vendor, mint, relay>>

(* What the relay accepts for a slot: the first payload, or the same.      *)
Accepts(o, token) ==
  /\ Slot(o) \notin {"missing", "expired", "cancelled"}
  /\ slots[o].digest \in {None, Payload(o, token)}

(* deliverStoredPayment: what was not answered is retried, a refusal is    *)
(* not.                                                                    *)
Deliver(p, o) ==
  LET Request == Relay!Deliver(o, Payload(o, Token(p, o)))
      outcome(state, retry) == [pay[p][o] EXCEPT !.state = state, !.retry = retry]
  IN
  /\ At(p, "delivering", o)
  /\ \/ /\ Request /\ UNCHANGED faults
        /\ Record(p, o, [outcome("delivered", "unset") EXCEPT !.delivered = TRUE])
     \/ /\ up /\ ~Accepts(o, Token(p, o)) /\ UNCHANGED <<relay, faults>>
        /\ Record(p, o, outcome("recoverable", "no"))
     \/ Fails(Request) /\ Record(p, o, outcome("recoverable", "yes"))
  /\ Stop(p)
  /\ UNCHANGED <<vendor, purse, mint>>

(* paymentCanRetry                                                         *)
CanRetry(payment) ==
  /\ payment.state \in {"preparing", "delivering", "recoverable"}
  /\ ~payment.delivered /\ payment.retry # "no"

(* Resume payment: a preparation whose request has expired throws.         *)
RetryDelivery(p, o) ==
  /\ ptask[p] = NoTask
  /\ CanRetry(pay[p][o])
  /\ \/ /\ pay[p][o].token
        /\ Record(p, o, [pay[p][o] EXCEPT !.state = "delivering", !.retry = "yes"])
        /\ Begin(p, "delivering", o, FALSE)
     \/ ~pay[p][o].token /\ ~Expired(o) /\ Begin(p, "preparing", o, FALSE) /\ UNCHANGED pay
  /\ UNCHANGED <<vendor, purse, mint, relay, faults>>

(* checkPayment, from the timer, or from the button shown when there is    *)
(* nothing to retry.                                                       *)
CheckPayment(p, o) ==
  LET payment == pay[p][o] IN
  /\ ptask[p] = NoTask
  /\ payment.token
  /\ \/ payment.state \in {"delivered", "unspent"}
     \/ payment.state = "recoverable" /\ ~CanRetry(payment)
  /\ \/ /\ Token(p, o) \in spent
        /\ Record(p, o, [payment EXCEPT !.state = "spent", !.token = FALSE, !.retry = "unset"])
        /\ UNCHANGED faults
     \/ /\ Token(p, o) \notin spent
        /\ payment.retry = "no" /\ ~payment.delivered /\ UNCHANGED <<pay, faults>>
     \/ /\ Token(p, o) \notin spent
        /\ payment.retry # "no" \/ payment.delivered
        /\ Record(p, o, [payment EXCEPT !.state = "unspent"])
        /\ UNCHANGED faults
     \/ Fault /\ Record(p, o, [payment EXCEPT !.state = "recoverable"])
  /\ UNCHANGED <<vendor, purse, ptask, mint, relay>>

PayerRequest(p, o) ==
  \/ /\ ptask[p].at = "preparing" /\ MintSwap(pay[p][o].swap, SendOutputs(p, o))
     /\ UNCHANGED relay
  \/ /\ ptask[p].at = "delivering" /\ Relay!Deliver(o, Payload(o, Token(p, o)))
     /\ UNCHANGED mint

ClosePayer(p) ==
  /\ ptask[p] # NoTask
  /\ Fault
  /\ PayerRequest(p, ptask[p].op) \/ UNCHANGED <<mint, relay>>
  /\ Stop(p)
  /\ UNCHANGED <<vendor, pay, purse>>

(* Another wallet pays the code, with proofs the vendor will not accept.   *)
PayElsewhere(o) ==
  /\ orders[o].registered
  /\ Relay!Deliver(o, Payload(o, Foreign(o)))
  /\ UNCHANGED <<vendor, payers, mint, faults>>

RelayStep ==
  /\ \/ Relay!Cleanup /\ UNCHANGED faults
     \/ Relay!Restart /\ UNCHANGED faults
     \/ Relay!Tick /\ UNCHANGED faults
     \/ Fault /\ Relay!Crash
  /\ UNCHANGED <<vendor, payers, mint>>
-----------------------------------------------------------------------------
VendorStep ==
  \E o \in Orders :
    \/ Register(o) \/ Read(o) \/ UseRead(o) \/ Acknowledge(o) \/ CleanUp(o)
    \/ Validate(o) \/ Swap(o) \/ Restore(o) \/ Cancel(o)

PayerStep(p) == \E o \in Orders : Prepare(p, o) \/ RestoreSend(p, o) \/ Deliver(p, o)

Next ==
  \/ \E o \in Orders : CreateOrder(o) \/ PollOrder(o) \/ CancelOrder(o) \/ PayElsewhere(o)
  \/ VendorStep \/ CloseVendor
  \/ \E p \in Payers, o \in Orders :
       \/ \E send \in SUBSET purse[p] : ConfirmPayment(p, o, send)
       \/ RetryDelivery(p, o) \/ CheckPayment(p, o)
  \/ \E p \in Payers : PayerStep(p) \/ ClosePayer(p)
  \/ RelayStep

(* Calls have an end, the vendor's timer fires when the tab is idle, and   *)
(* the relay is restarted.                                                 *)
Fairness ==
  /\ WF_vars(VendorStep)
  /\ SF_vars(Resume)
  /\ WF_vars(Relay!Restart /\ UNCHANGED <<vendor, payers, mint, faults>>)

Spec == Init /\ [][Next]_vars /\ Fairness
-----------------------------------------------------------------------------
(* A handler that awaits the mint's swap has stored what restores it.      *)
TypeOK ==
  /\ orders \in [Orders -> [state : OrderStates, key : BOOLEAN, cap : BOOLEAN,
                            registered : BOOLEAN, acked : BOOLEAN,
                            token : Tokens \cup {None}, swap : BOOLEAN, expiresAt : Nat]]
  /\ pay \in [Payers -> [Orders -> [state : PaymentStates, swap : SUBSET Proofs,
                                    token : BOOLEAN, retry : {"unset", "yes", "no"},
                                    delivered : BOOLEAN]]]
  /\ till \subseteq Proofs /\ purse \in [Payers -> SUBSET Proofs]
  /\ signed \subseteq Proofs /\ spent \subseteq Proofs
  /\ vtask.op \in 0 .. MaxOrders /\ \A p \in Payers : ptask[p].op \in 0 .. MaxOrders
  /\ vtask.at \in {"swapping", "restoring"} => orders[vtask.op].swap
  /\ faults \in 0 .. MaxFaults
  /\ Relay!TypeOK

(* Every commit is one the storage accepts, so that none throws after the  *)
(* mint or the relay has acted, and the next page that loads the snapshot  *)
(* can read it: a record has what its state promises and nothing of what   *)
(* it must forget, what it reserves is not spendable, and what it may yet  *)
(* restore has not been added already.                                     *)
StoredIsReadable ==
  /\ \A o \in Orders :
       orders[o].state # "none" => Storage!OrderIsNormal(orders[o].state, OrderFields(orders[o]))
  /\ Storage!ProofsAreNormal(till, {}, {Fresh(o) : o \in {o \in Orders : orders[o].swap}})
  /\ \A p \in Payers :
       LET preparing == {o \in Orders : pay[p][o].swap # {}} IN
       /\ \A o \in Orders :
            pay[p][o].state # "none" =>
              Storage!PaymentIsNormal(pay[p][o].state, PaymentFields(pay[p][o]))
       /\ Storage!ProofsAreNormal(purse[p], UNION {pay[p][o].swap : o \in preparing},
                                  {Change(p, o) : o \in preparing})

(* What the record of a payment can recover.                               *)
InPayment(p, o) ==
  pay[p][o].swap \cup Has(pay[p][o].swap # {}, SendOutputs(p, o))
                 \cup Has(pay[p][o].token, {Token(p, o)})

(* Where a live proof can be: spendable, or in what a record can recover.  *)
Recoverable ==
  till \cup (UNION {Has(orders[o].swap, {Fresh(o)}) : o \in Orders})
       \cup (UNION {purse[p] : p \in Payers})
       \cup (UNION {InPayment(p, o) : p \in Payers, o \in Orders})

(* No value is lost between the browsers: a live proof is spendable in one *)
(* of them or in a record that can recover it, and a spendable proof is    *)
(* live.                                                                   *)
ValueIsRecoverable ==
  /\ signed \ spent \subseteq Recoverable
  /\ till \cup (UNION {purse[p] : p \in Payers}) \subseteq signed \ spent

(* The browsers agree on how a payment ended, whatever was lost between    *)
(* them: nobody delivered to a cancelled order, an order is settled by the *)
(* token of exactly one attendee, a token that was spent went into its     *)
(* order, and an order is not rejected that an attendee of the market paid.*)
OutcomesAgree ==
  \A o \in Orders :
    LET spentTokens == {p \in Payers : Token(p, o) \in spent} IN
    /\ orders[o].state = "cancelled" =>
         spentTokens = {} /\ \A p \in Payers : ~pay[p][o].delivered
    /\ orders[o].state = "settled" => Cardinality(spentTokens) = 1 /\ Fresh(o) \in till
    /\ spentTokens # {} => orders[o].swap \/ orders[o].state = "settled"
    /\ orders[o].state = "rejected" => orders[o].token \notin OwnTokens

(* A payment that was delivered is settled, unless its order expired; and  *)
(* no order expires over a payload at the relay except with an answer read *)
(* before the expiry, and before the delivery, that was used after it.     *)
DeliveredIsSettled ==
  /\ \A p \in Payers, o \in Orders :
       pay[p][o].delivered ~> orders[o].state \in {"settled", "expired"}
  /\ [][\A o \in Orders :
          orders'[o].state = "expired" /\ Slot(o) = "delivered" =>
            orders[o].state = "expired" \/ vtask = [at |-> "read open", op |-> o]]_vars

(* The three browsers as one wallet: what they can spend, and what their   *)
(* records recover that the mint has signed and not seen spent.            *)
Spendable == till \cup UNION {purse[p] : p \in Payers}

SetAside ==
  (signed \ spent) \cap
    ((UNION {Has(orders[o].swap, {Fresh(o)}) : o \in Orders})
       \cup (UNION {InPayment(p, o) : p \in Payers, o \in Orders}))

Vault == INSTANCE Vault WITH made <- signed, spendable <- Spendable, aside <- SetAside

(* A payment moves value as a vault does: it leaves the attendee's balance *)
(* for a record, is swapped for a token in the records of a sale, and that *)
(* for the vendor's proofs; no lost answer or closed tab drops it in       *)
(* between or brings back what was spent (confirmPayment, settleOrder).    *)
ImplementsVault == Vault!Spec
==============================================================================
