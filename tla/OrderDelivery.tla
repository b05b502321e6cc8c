----------------------------- MODULE OrderDelivery -----------------------------
(***************************************************************************)
(* One sale over the relay of RelaySlots, with what every party checks on  *)
(* its way (EventRequest) and with the three clocks it is checked by: the  *)
(* vendor's and the attendee's browsers are ahead of or behind the relay.  *)
(* Another wallet may pay the same code.                                   *)
(***************************************************************************)
EXTENDS RelaySlots

CONSTANTS
  Catalog, Lifetime, Window, MemoLimit, MaxSafe,   (* see EventRequest      *)
  MaxQuantity,  (* 20: what the till lets an item's quantity grow to       *)
  Balance,      (* the attendee's                                          *)
  Skews,        (* bounds how far a browser's clock is from the relay's    *)
  Fees          (* what a mint may charge for spending a token             *)

Event == INSTANCE EventRequest WITH TtlLimit <- MaxTtl

ASSUME SaleAssumption ==
  /\ {Lifetime, Window, MemoLimit, MaxSafe, MaxQuantity, Balance} \subseteq Nat
  /\ Skews \subseteq Int /\ Fees \subseteq Nat
  /\ MaxTtl <= Window
  /\ None \notin Proofs
  /\ Event!CatalogAssumption

VARIABLES
  order,     (* the vendor's record                                        *)
  payment,   (* the attendee's record                                      *)
  skew,      (* the seconds each browser's clock is ahead of the relay's   *)
  fee        (* what the mint charges for spending a token                 *)

orderVars == <<vars, order, payment, skew, fee>>

VendorClock == now + skew.vendor
PayerClock == now + skew.payer

NoRecord == [state |-> "none"]

OrderInit ==
  /\ Init
  /\ order = NoRecord
  /\ payment = NoRecord
  /\ skew \in [vendor : Skews, payer : Skews]
  /\ fee \in Fees
-----------------------------------------------------------------------------
Sold == order.state # "none"
Paid == payment.state # "none"

(* The slot of a write capability, and its state as a request finds it.    *)
SlotOf(c) == {o \in Registered : slots[o].cap = c}
SlotState(c) ==
  IF SlotOf(c) = {} THEN "missing"
  ELSE ExpireRow(slots[CHOOSE o \in SlotOf(c) : TRUE], now).state

Lapses(request, clock) == request.expiresAt <= clock

Carts == UNION {[items -> 1 .. MaxQuantity] : items \in SUBSET DOMAIN Catalog}

(* createOrder up to its call: keys and capabilities are drawn.            *)
CreateOrder(o, c, cart) ==
  /\ ~Sold
  /\ Event!CartIsValid(cart)
  /\ o \notin Registered /\ SlotOf(c) = {}
  /\ order' = [request |-> Event!VendorRequest(o, c, cart, VendorClock),
               state |-> "registering", registered |-> FALSE, key |-> TRUE,
               heard |-> "nothing", token |-> None, acked |-> FALSE]
  /\ UNCHANGED <<vars, payment, skew, fee>>

Registration == Register(order.request.id, order.request.cap, order.request.expiresAt)

(* POST /v1/orders                                                         *)
RegisterSlot ==
  /\ up /\ Event!RegistrationIsValid(order.request, now)
  /\ \/ Registration
     \/ order.request.id \in Registered /\ UNCHANGED vars

(* The end of createOrder, and registerStoredOrder, which reviews what it  *)
(* stored first.  No answer, 429 and 500 are one outcome, as the closing   *)
(* of the tab is, which leaves the record as it was.                       *)
RegisterOrder ==
  LET Stored == order.state = "recoverable" =>
                  Event!ReviewAccepts(order.request, MaxSafe, VendorClock)
  IN
  /\ Sold /\ ~order.registered
  /\ \/ /\ Stored /\ RegisterSlot
        /\ order' = [order EXCEPT !.state = "awaiting_payment", !.registered = TRUE]
     \/ /\ (Stored /\ RegisterSlot) \/ UNCHANGED vars
        /\ order' \in {order, [order EXCEPT !.state = "recoverable"]}
  /\ UNCHANGED <<payment, skew, fee>>

Polled == Sold /\ order.registered /\ order.state \in {"awaiting_payment", "recoverable"}

(* The read of pollOrder.                                                  *)
ReadInbox ==
  LET c == order.request.cap IN
  /\ Polled /\ order.heard = "nothing"
  /\ \/ /\ SlotState(c) = "delivered" /\ Read(c)
        /\ \E o \in SlotOf(c) :
             order' = [order EXCEPT !.state = "payload_received",
                                    !.token = slots[o].payload.proofs]
     \/ /\ SlotState(c) # "delivered"
        /\ Read(c) \/ (up /\ SlotOf(c) = {} /\ UNCHANGED vars)
        /\ order' = [order EXCEPT !.heard = IF SlotState(c) = "open" THEN "open" ELSE "closed"]
     \/ UNCHANGED vars /\ order' = [order EXCEPT !.state = "recoverable"]
  /\ UNCHANGED <<payment, skew, fee>>

(* What pollOrder does without a payload, by the vendor's clock.           *)
UseInbox ==
  /\ Polled /\ order.heard # "nothing"
  /\ order' = [order EXCEPT
       !.heard = "nothing",
       !.key = ~Lapses(order.request, VendorClock),
       !.state = IF Lapses(order.request, VendorClock) THEN "expired"
                 ELSE IF order.heard = "open" THEN @ ELSE "recoverable"]
  /\ UNCHANGED <<vars, payment, skew, fee>>

(* The acknowledgement and settleOrder.  Another wallet's token is not     *)
(* locked to the vendor's key.                                             *)
SettleOrder ==
  LET accepted == /\ Paid /\ order.token = payment.token
                  /\ Event!VendorAccepts(order.request, payment.payload, fee)
      Settled(acked) == [order EXCEPT !.state = IF accepted THEN "settled" ELSE "rejected",
                                      !.key = ~accepted, !.acked = acked]
  IN
  /\ Sold /\ order.state = "payload_received"
  /\ \/ Acknowledge(order.request.cap) /\ order' = Settled(TRUE)
     \/ UNCHANGED vars /\ order' = Settled(FALSE)
  /\ UNCHANGED <<payment, skew, fee>>

(* acknowledgeSettledOrder                                                 *)
CleanUp ==
  /\ Sold /\ order.state = "settled" /\ ~order.acked
  /\ Acknowledge(order.request.cap)
  /\ order' = [order EXCEPT !.acked = TRUE]
  /\ UNCHANGED <<payment, skew, fee>>

(* cancelOrder, again when the tab closed in it: any other answer than a   *)
(* cancellation leaves the order to a poll.                                *)
CancelOrder ==
  LET c == order.request.cap IN
  /\ Sold /\ order.state \in {"awaiting_payment", "cancelling"} /\ order.heard = "nothing"
  /\ \/ /\ SlotState(c) \in {"open", "cancelled"} /\ Cancel(c)
        /\ order' = [order EXCEPT !.state = "cancelled", !.key = FALSE]
     \/ /\ Cancel(c) \/ UNCHANGED vars
        /\ order' \in {[order EXCEPT !.state = state] : state \in {"recoverable", "cancelling"}}
  /\ UNCHANGED <<payment, skew, fee>>
-----------------------------------------------------------------------------
(* What an attendee can scan: the order's code once it was shown, and what *)
(* the wallet application shows to be paid.                                *)
Circulating ==
  {Event!WalletRequest(o, 1, 1) : o \in Orders}
    \cup (IF Sold /\ order.registered THEN {order.request} ELSE {})

(* reviewPayment, and confirmPayment up to the swap.                       *)
ConfirmPayment(request) ==
  /\ ~Paid
  /\ Event!ReviewAccepts(request, Balance - fee, PayerClock)
  /\ payment' = [request |-> request, state |-> "preparing", token |-> None,
                 payload |-> None, status |-> 0]
  /\ UNCHANGED <<vars, order, skew, fee>>

Unused(p) ==
  /\ \A o \in Registered : slots[o].digest # None => slots[o].digest.proofs # p
  /\ Sold => order.token # p

(* finishPaymentPreparation: the request is reviewed again before the swap *)
(* locks the value, which includes what the vendor pays for spending it.   *)
PreparePayment(p) ==
  LET amount == payment.request.amount + fee IN
  /\ Paid /\ payment.state = "preparing"
  /\ Unused(p)
  /\ payment' =
       IF Event!ReviewAccepts(payment.request, MaxSafe, PayerClock)
       THEN [payment EXCEPT !.state = "delivering", !.token = p,
                            !.payload = Event!PayloadOf(payment.request, amount)]
       ELSE [payment EXCEPT !.state = "recoverable"]
  /\ UNCHANGED <<vars, order, skew, fee>>

RelayPayload == [order |-> payment.request.id, proofs |-> payment.token]

(* POST /v1/deliver: the status, in the order its checks are made.         *)
DeliveryStatus ==
  LET c == payment.request.cap
      digests == {slots[o].digest : o \in SlotOf(c)}
  IN  IF ~Event!PayloadIsValid(payment.payload) THEN 400
      ELSE IF SlotOf(c) = {} THEN 404
      ELSE IF SlotState(c) \in {"expired", "cancelled"} THEN 410
      ELSE IF digests = {RelayPayload} THEN 202
      ELSE IF digests # {None} THEN 409
      ELSE IF ~Event!PayloadMatches(order.request, payment.payload) THEN 422
      ELSE 202

(* deliverStoredPayment, and every retry of it: what was not answered, or  *)
(* answered with a status that can be retried, leaves the payment as it is.*)
DeliverPayment ==
  /\ Paid /\ payment.state = "delivering" /\ up
  /\ \/ /\ DeliveryStatus = 202 /\ Deliver(payment.request.cap, RelayPayload)
        /\ \/ payment' = [payment EXCEPT !.state = "delivered"]
           \/ UNCHANGED payment
     \/ /\ DeliveryStatus # 202 /\ ~Event!CanRetry(DeliveryStatus)
        /\ payment' = [payment EXCEPT !.state = "refused", !.status = DeliveryStatus]
        /\ UNCHANGED vars
  /\ UNCHANGED <<order, skew, fee>>
-----------------------------------------------------------------------------
(* Another wallet pays the code.                                           *)
PayElsewhere(p) ==
  /\ Sold /\ order.registered
  /\ Paid => payment.token # p
  /\ Deliver(order.request.cap, [order |-> order.request.id, proofs |-> p])
  /\ UNCHANGED <<order, payment, skew, fee>>

Service == (Cleanup \/ Crash \/ Restart \/ Tick) /\ UNCHANGED <<order, payment, skew, fee>>

OrderNext ==
  \/ \E o \in Orders, c \in Caps, cart \in Carts : CreateOrder(o, c, cart)
  \/ RegisterOrder \/ ReadInbox \/ UseInbox
  \/ SettleOrder \/ CleanUp \/ CancelOrder
  \/ \E request \in Circulating : ConfirmPayment(request)
  \/ \E p \in Proofs : PreparePayment(p) \/ PayElsewhere(p)
  \/ DeliverPayment \/ Service

OrderSpec == OrderInit /\ [][OrderNext]_orderVars
-----------------------------------------------------------------------------
(* What an attendee's review accepted, and the swap has locked to the      *)
(* vendor without a way back, neither the relay nor the vendor refuses for *)
(* what it is, unless the mint charges for spending: only a slot that was  *)
(* closed, taken or deleted refuses it.  AttendeePay.tsx: this version has *)
(* no attendee refund path.                                                *)
ReviewIsKept ==
  fee = 0 =>
    /\ Paid /\ payment.state = "refused" => payment.status \in {404, 409, 410}
    /\ Sold /\ Paid /\ order.state = "rejected" => order.token # payment.token

(* The three clocks: a browser whose clock is not behind the relay's locks *)
(* no value for a slot that has lapsed; one whose clock is right can pay   *)
(* as long as the slot is open; and the vendor does not forget the key of  *)
(* an open slot, unless its clock is ahead.                                *)
LifetimesAgree ==
  /\ [][Paid /\ payment.token = None /\ payment'.token # None /\ skew.payer >= 0 =>
          \E o \in SlotOf(payment.request.cap) : now < slots[o].expiresAt]_orderVars
  /\ [](Sold /\ order.registered /\ skew.payer = 0 /\ SlotState(order.request.cap) = "open" =>
          Event!ReviewAccepts(order.request, MaxSafe, PayerClock))
  /\ [][Sold /\ order.key /\ order'.state = "expired" /\ skew.vendor <= 0 =>
          SlotState(order.request.cap) # "open"]_orderVars
==============================================================================
