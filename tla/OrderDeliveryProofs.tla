-------------------------- MODULE OrderDeliveryProofs --------------------------
(***************************************************************************)
(* A sale takes no step on the relay that the relay's specification does   *)
(* not allow, whatever the browsers check and whatever their clocks say,   *)
(* so what RelaySlotsProofs proves of the relay holds in every sale.       *)
(***************************************************************************)
EXTENDS OrderDelivery, RelaySlotsProofs

(* A request the vendor made: what every party reads of it is as checked.  *)
Requested(request) ==
  /\ request.id \in Orders /\ request.cap \in Caps /\ request.expiresAt \in Int
  /\ request.amount \in 1 .. MaxSafe /\ request.description \in 0 .. MemoLimit
  /\ request.transport = "relay" /\ request.lock = "vendor key"

OrderFields == {"request", "state", "registered", "key", "heard", "token", "acked"}

OrderHolds ==
  Sold => /\ OrderFields \subseteq DOMAIN order
          /\ Requested(order.request)
          /\ order.state \in {"payload_received", "rejected"} => order.token \in Proofs
          /\ order.state = "expired" => ~order.key

(* The attendee pays the vendor's request, with a payload made from it.    *)
PaymentFields == {"request", "state", "token", "payload", "status"}

Prepared ==
  /\ payment.token \in Proofs
  /\ payment.payload = Event!PayloadOf(payment.request, payment.request.amount + fee)

PaymentHolds ==
  Paid => /\ PaymentFields \subseteq DOMAIN payment
          /\ Sold /\ order.registered /\ payment.request = order.request
          /\ payment.token = None \/ Prepared
          /\ payment.state = "delivering" => Prepared
          /\ fee = 0 /\ payment.state = "refused" => payment.status \in {404, 409, 410}

(* Of the attendee's own token the vendor thinks what the attendee did.    *)
JudgementHolds ==
  fee = 0 /\ Paid /\ order.state = "rejected" => order.token # payment.token

(* The relay has no slot but the order's, on the order's terms, and has it *)
(* from its registration to its end.                                       *)
SlotHolds ==
  /\ \A o \in Registered :
       /\ Sold /\ o = order.request.id
       /\ slots[o].cap = order.request.cap
       /\ slots[o].expiresAt = order.request.expiresAt
       /\ slots[o].expiresAt <= now + MaxTtl
  /\ Sold /\ order.registered /\ now < order.request.expiresAt => order.request.id \in Registered

ClocksHold == skew.vendor \in Int /\ skew.payer \in Int /\ fee \in Nat

SaleInv ==
  SInv /\ ClocksHold /\ OrderHolds /\ PaymentHolds /\ JudgementHolds /\ SlotHolds

LEMMA SaleNumbers ==
  /\ Lifetime \in Int /\ Skews \subseteq Int /\ Fees \subseteq Nat /\ None \notin Proofs
  /\ MemoLimit \in Nat /\ MaxSafe \in Nat /\ Window \in Nat /\ MaxTtl <= Window
BY SaleAssumption

LEMMA RequestedNumbers ==
  ASSUME NEW request, Requested(request)
  PROVE  /\ request.amount \in 1 .. MaxSafe /\ request.amount \in Nat /\ request.amount > 0
         /\ request.description <= MemoLimit
<1>1. request.amount \in 1 .. MaxSafe /\ request.description \in 0 .. MemoLimit
  BY Zenon DEF Requested
<1> QED
  BY <1>1, SaleNumbers
-----------------------------------------------------------------------------
(* What the relay keeps of its slots: whatever it does but register, they  *)
(* stay the same slots on the same terms until they lapse.                 *)
KeepsTerms(rows) ==
  /\ DOMAIN rows \subseteq Registered
  /\ \A o \in DOMAIN rows :
       rows[o].cap = slots[o].cap /\ rows[o].expiresAt = slots[o].expiresAt
  /\ \A o \in Registered : now < slots[o].expiresAt => o \in DOMAIN rows

SameTerms(row, old) == row.cap = old.cap /\ row.expiresAt = old.expiresAt

LEMMA ExpireRowTerms ==
  ASSUME NEW row \in Rows, NEW t PROVE ExpireRow(row, t) \in Rows /\ SameTerms(ExpireRow(row, t), row)
BY DEF ExpireRow, Rows, States, SameTerms

LEMMA PutTerms ==
  ASSUME SInv, NEW o \in Registered, NEW row, Put(o, row), SameTerms(row, slots[o])
  PROVE  KeepsTerms(slots')
BY DEF Put, KeepsTerms, SameTerms, Registered

LEMMA HandlerTerms ==
  ASSUME SInv, NEW c \in Caps,
         (\E p \in Payloads : Deliver(c, p)) \/ Read(c) \/ Acknowledge(c) \/ Cancel(c)
  PROVE  KeepsTerms(slots') /\ now' = now
<1>1. \A o \in Registered : slots[o] \in Rows
  BY DEF SInv, RowsHold, RowInv
<1>2. UNCHANGED slots => KeepsTerms(slots')
  BY DEF KeepsTerms, Registered
<1>3. ASSUME NEW o \in Registered, NEW row \in Rows, SameTerms(row, slots[o])
      PROVE  /\ SameTerms([row EXCEPT !.state = "cancelled"], slots[o])
             /\ SameTerms([row EXCEPT !.state = "acknowledged", !.payload = None], slots[o])
             /\ \A p \in Payloads : SameTerms(Delivered(row, p), slots[o])
  BY <1>3 DEF Delivered, Rows, SameTerms
<1>4. \A o \in Registered : SameTerms(slots[o], slots[o])
  BY DEF SameTerms
<1>5. ASSUME NEW p \in Payloads, Deliver(c, p) PROVE KeepsTerms(slots') /\ now' = now
  <2>1. PICK o \in Registered : (UNCHANGED slots \/ Put(o, Delivered(slots[o], p))) /\ UNCHANGED now
    BY <1>5 DEF Deliver
  <2> QED
    BY <1>1, <1>2, <1>3, <1>4, <2>1, PutTerms
<1>6. CASE Read(c)
  <2>1. PICK o \in Registered : Put(o, ExpireRow(slots[o], now)) /\ UNCHANGED now
    BY <1>6 DEF Read
  <2> QED
    BY <1>1, <2>1, ExpireRowTerms, PutTerms
<1>7. CASE Acknowledge(c)
  <2>1. PICK o \in Registered :
          /\ UNCHANGED now
          /\ \/ Put(o, [slots[o] EXCEPT !.state = "acknowledged", !.payload = None])
             \/ Put(o, ExpireRow(slots[o], now))
    BY <1>7 DEF Acknowledge
  <2> QED
    BY <1>1, <1>3, <1>4, <2>1, ExpireRowTerms, PutTerms
<1>8. CASE Cancel(c)
  <2>1. PICK o \in Registered :
          /\ UNCHANGED now
          /\ \/ Put(o, [ExpireRow(slots[o], now) EXCEPT !.state = "cancelled"])
             \/ UNCHANGED slots
             \/ Put(o, ExpireRow(slots[o], now))
    BY <1>8 DEF Cancel
  <2>2. ExpireRow(slots[o], now) \in Rows /\ SameTerms(ExpireRow(slots[o], now), slots[o])
    BY <1>1, ExpireRowTerms
  <2>3. SameTerms([ExpireRow(slots[o], now) EXCEPT !.state = "cancelled"], slots[o])
    BY <1>3, <2>2
  <2> QED
    BY <1>2, <2>1, <2>2, <2>3, PutTerms
<1> QED
  BY <1>5, <1>6, <1>7, <1>8

(* Each statement of cleanup, and so a crash between two of them.          *)
Typed(rows) == \A o \in DOMAIN rows : rows[o] \in Rows

LEMMA ExpireOpenTerms ==
  ASSUME NEW rows, Typed(rows), KeepsTerms(rows)
  PROVE  Typed(ExpireOpen(rows)) /\ KeepsTerms(ExpireOpen(rows))
<1>1. /\ DOMAIN ExpireOpen(rows) = DOMAIN rows
      /\ \A o \in DOMAIN rows : ExpireOpen(rows)[o] = ExpireRow(rows[o], now)
  BY DEF ExpireOpen
<1>2. \A o \in DOMAIN rows :
        ExpireOpen(rows)[o] \in Rows /\ SameTerms(ExpireOpen(rows)[o], rows[o])
  BY <1>1, ExpireRowTerms DEF Typed
<1> QED
  BY <1>1, <1>2 DEF Typed, KeepsTerms, SameTerms

LEMMA ExpireDeliveredTerms ==
  ASSUME NEW rows, Typed(rows), KeepsTerms(rows)
  PROVE  Typed(ExpireDelivered(rows)) /\ KeepsTerms(ExpireDelivered(rows))
<1> DEFINE gone(o) == [rows[o] EXCEPT !.state = "expired", !.payload = None]
<1>1. /\ DOMAIN ExpireDelivered(rows) = DOMAIN rows
      /\ \A o \in DOMAIN rows : ExpireDelivered(rows)[o] \in {gone(o), rows[o]}
  BY DEF ExpireDelivered
<1>2. \A o \in DOMAIN rows : gone(o) \in Rows /\ SameTerms(gone(o), rows[o])
  BY DEF Typed, Rows, States, SameTerms
<1>3. \A o \in DOMAIN rows :
        ExpireDelivered(rows)[o] \in Rows /\ SameTerms(ExpireDelivered(rows)[o], rows[o])
  BY <1>1, <1>2 DEF Typed, SameTerms
<1> QED
  BY <1>1, <1>3 DEF Typed, KeepsTerms, SameTerms

LEMMA DeleteClosedTerms ==
  ASSUME SInv, NEW rows, Typed(rows), KeepsTerms(rows)
  PROVE  KeepsTerms(DeleteClosed(rows))
<1>1. /\ DOMAIN DeleteClosed(rows) \subseteq DOMAIN rows
      /\ \A o \in DOMAIN DeleteClosed(rows) : DeleteClosed(rows)[o] = rows[o]
      /\ \A o \in DOMAIN rows : ~(rows[o].expiresAt <= now - Retention) => o \in DOMAIN DeleteClosed(rows)
  BY DEF DeleteClosed
<1>2. now \in Nat /\ Retention \in Nat /\ \A o \in Registered : slots[o].expiresAt \in Nat
  BY Clocks, Numbers DEF SInv, TypeOK
<1> QED
  BY <1>1, <1>2 DEF KeepsTerms

LEMMA ServiceTerms ==
  ASSUME SInv, Cleanup \/ Crash \/ Restart \/ Tick
  PROVE  KeepsTerms(slots') /\ now' \in {now, now + 1}
<1>1. Typed(slots) /\ KeepsTerms(slots)
  BY DEF SInv, RowsHold, RowInv, Typed, KeepsTerms, Registered
<1>2. Typed(ExpireOpen(slots)) /\ KeepsTerms(ExpireOpen(slots))
  BY <1>1, ExpireOpenTerms
<1>3. /\ Typed(ExpireDelivered(ExpireOpen(slots)))
      /\ KeepsTerms(ExpireDelivered(ExpireOpen(slots)))
  BY <1>2, ExpireDeliveredTerms
<1>4. KeepsTerms(Cleaned)
  BY <1>3, DeleteClosedTerms DEF Cleaned
<1>5. CASE Cleanup \/ Restart
  BY <1>4, <1>5 DEF Cleanup, Restart
<1>6. CASE Crash
  BY <1>1, <1>2, <1>3, <1>6 DEF Crash
<1>7. CASE Tick
  BY <1>1, <1>7 DEF Tick
<1> QED
  BY <1>5, <1>6, <1>7
-----------------------------------------------------------------------------
(* The calls to the relay.                                                 *)
LEMMA RelayCalls ==
  ASSUME NEW c \in Caps, NEW o \in Orders, NEW p \in Proofs
  PROVE  /\ Read(c) \/ Acknowledge(c) \/ Cancel(c) => Next
         /\ Deliver(c, [order |-> o, proofs |-> p]) => Next
<1>1. [order |-> o, proofs |-> p] \in Payloads
  BY DEF Payloads
<1> QED
  BY <1>1 DEF Next

LEMMA RelayRegisters ==
  ASSUME SInv, NEW o \in Orders, NEW c \in Caps, NEW expiry \in Int, Register(o, c, expiry)
  PROVE  Next
<1>1. now \in 0 .. MaxTime
  BY DEF SInv, TypeOK
<1>2. now < expiry /\ expiry <= now + MaxTtl
  BY DEF Register
<1>3. expiry \in 1 .. (MaxTime + MaxTtl)
  BY <1>1, <1>2, Numbers
<1> QED
  BY <1>3 DEF Next

(* Each action of the sale, seen from the relay.                           *)
LEMMA VendorOnRelay ==
  ASSUME SaleInv, RegisterOrder \/ ReadInbox \/ UseInbox \/ SettleOrder \/ CleanUp \/ CancelOrder
  PROVE  Next \/ UNCHANGED vars
<1>0. /\ Sold => order.request.id \in Orders /\ order.request.cap \in Caps
      /\ Sold => order.request.expiresAt \in Int
  BY DEF SaleInv, OrderHolds, Requested
<1>1. CASE RegisterOrder
  <2>1. Sold /\ (RegisterSlot \/ UNCHANGED vars)
    BY <1>1 DEF RegisterOrder
  <2>2. Registration \/ UNCHANGED vars
    BY <2>1 DEF RegisterSlot
  <2> QED
    BY <1>0, <2>1, <2>2, RelayRegisters DEF Registration, SaleInv
<1>2. CASE ReadInbox
  <2>1. Sold /\ (Read(order.request.cap) \/ UNCHANGED vars)
    BY <1>2 DEF ReadInbox, Polled
  <2> QED
    BY <1>0, <2>1 DEF Next
<1>3. CASE UseInbox
  BY <1>3 DEF UseInbox
<1>4. CASE SettleOrder
  <2>1. Sold /\ (Acknowledge(order.request.cap) \/ UNCHANGED vars)
    BY <1>4 DEF SettleOrder
  <2> QED
    BY <1>0, <2>1 DEF Next
<1>5. CASE CleanUp
  BY <1>0, <1>5 DEF CleanUp, Next
<1>6. CASE CancelOrder
  <2>1. Sold /\ (Cancel(order.request.cap) \/ UNCHANGED vars)
    BY <1>6 DEF CancelOrder
  <2> QED
    BY <1>0, <2>1 DEF Next
<1> QED
  BY <1>1, <1>2, <1>3, <1>4, <1>5, <1>6

LEMMA PayersOnRelay ==
  ASSUME SaleInv, DeliverPayment \/ \E p \in Proofs : PayElsewhere(p)
  PROVE  Next \/ UNCHANGED vars
<1>1. CASE DeliverPayment
  <2>1. /\ payment.request.id \in Orders /\ payment.request.cap \in Caps
        /\ payment.token \in Proofs
    BY <1>1 DEF DeliverPayment, SaleInv, OrderHolds, PaymentHolds, Prepared, Requested
  <2>2. Deliver(payment.request.cap, RelayPayload) \/ UNCHANGED vars
    BY <1>1 DEF DeliverPayment
  <2> QED
    BY <2>1, <2>2, RelayCalls DEF RelayPayload
<1>2. ASSUME NEW p \in Proofs, PayElsewhere(p) PROVE Next
  <2>1. order.request.id \in Orders /\ order.request.cap \in Caps
    BY <1>2 DEF PayElsewhere, SaleInv, OrderHolds, Requested
  <2>2. Deliver(order.request.cap, [order |-> order.request.id, proofs |-> p])
    BY <1>2 DEF PayElsewhere
  <2> QED
    BY <2>1, <2>2, RelayCalls
<1> QED
  BY <1>1, <1>2

LEMMA SaleOnRelay == SaleInv /\ [OrderNext]_orderVars => [Next]_vars
<1> SUFFICES ASSUME SaleInv, [OrderNext]_orderVars PROVE Next \/ UNCHANGED vars
  OBVIOUS
<1>1. ASSUME NEW o \in Orders, NEW c \in Caps, NEW cart \in Carts, CreateOrder(o, c, cart)
      PROVE  UNCHANGED vars
  BY <1>1 DEF CreateOrder
<1>2. ASSUME NEW request \in Circulating, ConfirmPayment(request) PROVE UNCHANGED vars
  BY <1>2 DEF ConfirmPayment
<1>3. ASSUME NEW p \in Proofs, PreparePayment(p) PROVE UNCHANGED vars
  BY <1>3 DEF PreparePayment
<1>4. CASE Service
  BY <1>4 DEF Service, Next
<1>5. CASE UNCHANGED orderVars
  BY <1>5 DEF orderVars
<1> QED
  BY <1>1, <1>2, <1>3, <1>4, <1>5, VendorOnRelay, PayersOnRelay DEF OrderNext
-----------------------------------------------------------------------------
(* The vendor's record.  What its handlers keep of it, and what is left to *)
(* say of the states they reach.                                           *)
LEMMA SaleInit == OrderInit => SaleInv
<1> SUFFICES ASSUME OrderInit PROVE SaleInv
  OBVIOUS
<1>1. SInv /\ Registered = {}
  BY SInit DEF OrderInit, Init, Registered
<1>2. ClocksHold
  BY SaleNumbers DEF OrderInit, ClocksHold
<1>3. ~Sold /\ ~Paid /\ order.state = "none"
  BY DEF OrderInit, NoRecord, Sold, Paid
<1>4. OrderHolds /\ PaymentHolds /\ JudgementHolds /\ SlotHolds
  BY <1>1, <1>3 DEF OrderHolds, PaymentHolds, JudgementHolds, SlotHolds
<1> QED
  BY <1>1, <1>2, <1>4 DEF SaleInv

OrderKept ==
  /\ DOMAIN order' = DOMAIN order
  /\ order'.request = order.request
  /\ order.registered => order'.registered

Foreign == fee = 0 /\ Paid => order.token # payment.token

StateHolds ==
  /\ order'.state # "none"
  /\ order'.state = "payload_received" => order'.token \in Proofs
  /\ order'.state = "rejected" =>
       /\ order'.token = order.token
       /\ order.state = "rejected" \/ (order.state = "payload_received" /\ Foreign)
  /\ order'.state = "expired" =>
       ~order'.key /\ (order.state = "expired" \/ Lapses(order.request, VendorClock))

LEMMA OrderResult ==
  ASSUME SaleInv, Sold, OrderKept, StateHolds, UNCHANGED <<payment, fee>>
  PROVE  OrderHolds' /\ JudgementHolds'
<1>1. OrderHolds'
  BY DEF SaleInv, OrderHolds, OrderKept, StateHolds, Sold, Requested
<1>2. JudgementHolds'
  BY DEF SaleInv, JudgementHolds, StateHolds, Foreign, Paid
<1> QED
  BY <1>1, <1>2

LEMMA RegisterHolds ==
  ASSUME SaleInv, RegisterOrder
  PROVE  OrderKept /\ StateHolds
<1>1. Sold /\ OrderFields \subseteq DOMAIN order /\ ~order.registered
  BY DEF RegisterOrder, SaleInv, OrderHolds
<1>2. order' \in {order, [order EXCEPT !.state = "recoverable"],
                  [order EXCEPT !.state = "awaiting_payment", !.registered = TRUE]}
  BY DEF RegisterOrder
<1>3. CASE order' = order
  BY <1>1, <1>3 DEF OrderKept, StateHolds, SaleInv, OrderHolds, Sold
<1>4. CASE order' = [order EXCEPT !.state = "recoverable"]
  BY <1>1, <1>4 DEF OrderKept, StateHolds, OrderFields
<1>5. CASE order' = [order EXCEPT !.state = "awaiting_payment", !.registered = TRUE]
  BY <1>1, <1>5 DEF OrderKept, StateHolds, OrderFields
<1> QED
  BY <1>2, <1>3, <1>4, <1>5

(* What the relay hands out is a payload, so its proofs are proofs.        *)
LEMMA ReadHolds ==
  ASSUME SaleInv, ReadInbox
  PROVE  OrderKept /\ StateHolds
<1> DEFINE c == order.request.cap
<1>1. /\ Sold /\ OrderFields \subseteq DOMAIN order
      /\ order.state \in {"awaiting_payment", "recoverable"}
  BY DEF ReadInbox, Polled, SaleInv, OrderHolds
<1>2. CASE /\ SlotState(c) = "delivered"
           /\ \E o \in SlotOf(c) :
                order' = [order EXCEPT !.state = "payload_received", !.token = slots[o].payload.proofs]
  <2>1. PICK o \in SlotOf(c) :
          order' = [order EXCEPT !.state = "payload_received", !.token = slots[o].payload.proofs]
    BY <1>2
  <2>2. SlotOf(c) \subseteq Registered /\ \A r \in Registered : r = order.request.id
    BY DEF SlotOf, SaleInv, SlotHolds
  <2>3. ExpireRow(slots[o], now).state = "delivered"
    BY <1>2, <2>1, <2>2 DEF SlotState
  <2>4. slots[o] \in Rows /\ PayloadIsDigest(slots[o])
    BY <2>1, <2>2 DEF SaleInv, SInv, RowsHold, RowInv
  <2>5. slots[o].state = "delivered"
    BY <2>3, <2>4 DEF ExpireRow, Rows
  <2>6. slots[o].payload \in Payloads
    BY <2>4, <2>5 DEF PayloadIsDigest, Rows
  <2>7. slots[o].payload.proofs \in Proofs
    BY <2>6 DEF Payloads
  <2> HIDE DEF c
  <2> QED
    BY <1>1, <2>1, <2>7 DEF OrderKept, StateHolds, OrderFields
<1>3. ASSUME NEW heard, order' = [order EXCEPT !.heard = heard]
      PROVE  OrderKept /\ StateHolds
  BY <1>1, <1>3 DEF OrderKept, StateHolds, OrderFields
<1>4. CASE order' = [order EXCEPT !.state = "recoverable"]
  BY <1>1, <1>4 DEF OrderKept, StateHolds, OrderFields
<1> QED
  BY <1>2, <1>3, <1>4, Zenon DEF ReadInbox

LEMMA UseHolds ==
  ASSUME SaleInv, UseInbox
  PROVE  OrderKept /\ StateHolds
<1> DEFINE lapsed == Lapses(order.request, VendorClock)
           state == IF lapsed THEN "expired" ELSE IF order.heard = "open" THEN order.state ELSE "recoverable"
<1>1. /\ Sold /\ OrderFields \subseteq DOMAIN order
      /\ order.state \in {"awaiting_payment", "recoverable"}
  BY DEF UseInbox, Polled, SaleInv, OrderHolds
<1>2. order' = [order EXCEPT !.heard = "nothing", !.key = ~lapsed, !.state = state]
  BY <1>1 DEF UseInbox, OrderFields
<1>3. state = "expired" => lapsed
  BY <1>1
<1>4. state \notin {"none", "payload_received", "rejected"}
  BY <1>1
<1>5. lapsed => Lapses(order.request, VendorClock)
  OBVIOUS
<1> HIDE DEF lapsed, state
<1>6. order'.state = state /\ order'.key = ~lapsed /\ OrderKept
  BY <1>1, <1>2 DEF OrderKept, OrderFields
<1> QED
  BY <1>3, <1>4, <1>5, <1>6 DEF StateHolds

(* The attendee's own token is accepted, if it costs nothing to spend.     *)
LEMMA OwnIsAccepted ==
  ASSUME SaleInv, fee = 0, Sold, Paid, order.state = "payload_received", order.token = payment.token
  PROVE  Event!VendorAccepts(order.request, payment.payload, fee)
<1>0. order.token \in Proofs /\ payment.request = order.request /\ Requested(order.request)
  BY DEF SaleInv, OrderHolds, PaymentHolds
<1>1. Prepared /\ payment.request = order.request /\ order.request.amount \in Nat
  <2>1. payment.token # None
    BY <1>0, SaleNumbers
  <2>2. Prepared
    BY <2>1 DEF SaleInv, PaymentHolds
  <2> QED
    BY <1>0, <2>2, RequestedNumbers
<1>2. /\ payment.payload.id = order.request.id
      /\ payment.payload.amount = order.request.amount
  BY <1>1 DEF Prepared, Event!PayloadOf
<1> QED
  BY <1>1, <1>2 DEF Event!VendorAccepts, Event!PayloadMatches

LEMMA SettleHolds ==
  ASSUME SaleInv, SettleOrder
  PROVE  OrderKept /\ StateHolds
<1> DEFINE accepted == /\ Paid /\ order.token = payment.token
                       /\ Event!VendorAccepts(order.request, payment.payload, fee)
           state == IF accepted THEN "settled" ELSE "rejected"
<1>1. Sold /\ OrderFields \subseteq DOMAIN order /\ order.state = "payload_received"
  BY DEF SettleOrder, SaleInv, OrderHolds
<1>2. PICK acked \in BOOLEAN :
        order' = [order EXCEPT !.state = state, !.key = ~accepted, !.acked = acked]
  BY DEF SettleOrder
<1>3. state = "rejected" => Foreign
  BY <1>1, OwnIsAccepted DEF Foreign
<1>4. state \in {"settled", "rejected"}
  OBVIOUS
<1> HIDE DEF accepted, state
<1> QED
  BY <1>1, <1>2, <1>3, <1>4 DEF OrderKept, StateHolds, OrderFields

LEMMA CloseHolds ==
  ASSUME SaleInv, CleanUp \/ CancelOrder
  PROVE  OrderKept /\ StateHolds
<1>1. /\ Sold /\ OrderFields \subseteq DOMAIN order
      /\ order.state \in {"settled", "awaiting_payment", "cancelling"}
  BY DEF CleanUp, CancelOrder, SaleInv, OrderHolds
<1>2. CASE order' = [order EXCEPT !.acked = TRUE]
  BY <1>1, <1>2 DEF OrderKept, StateHolds, OrderFields
<1>3. CASE order' = [order EXCEPT !.state = "cancelled", !.key = FALSE]
  BY <1>1, <1>3 DEF OrderKept, StateHolds, OrderFields
<1>4. CASE order' \in {[order EXCEPT !.state = state] : state \in {"recoverable", "cancelling"}}
  BY <1>1, <1>4 DEF OrderKept, StateHolds, OrderFields
<1> QED
  BY <1>2, <1>3, <1>4 DEF CleanUp, CancelOrder

LEMMA VendorHolds ==
  ASSUME SaleInv,
         RegisterOrder \/ ReadInbox \/ UseInbox \/ SettleOrder \/ CleanUp \/ CancelOrder
  PROVE  Sold /\ OrderKept /\ StateHolds /\ Sold' /\ UNCHANGED <<payment, skew, fee>>
<1>1. Sold /\ UNCHANGED <<payment, skew, fee>>
  BY DEF RegisterOrder, ReadInbox, UseInbox, SettleOrder, CleanUp, CancelOrder, Polled
<1>2. OrderKept /\ StateHolds
  BY RegisterHolds, ReadHolds, UseHolds, SettleHolds, CloseHolds
<1> QED
  BY <1>1, <1>2 DEF StateHolds, Sold

(* An order is created with a request that every party can check.          *)
LEMMA OrderBegins ==
  ASSUME SaleInv, NEW o \in Orders, NEW c \in Caps, NEW cart \in Carts, CreateOrder(o, c, cart)
  PROVE  /\ OrderHolds' /\ PaymentHolds' /\ JudgementHolds'
         /\ ~Sold /\ order'.registered = FALSE /\ UNCHANGED <<vars, skew, fee>>
<1> DEFINE request == Event!VendorRequest(o, c, cart, VendorClock)
<1>1. VendorClock + Lifetime \in Int
  BY SaleNumbers, Clocks DEF VendorClock, ClocksHold, SaleInv
<1>2. Event!Total(cart) \in 1 .. MaxSafe /\ Event!Description(cart) \in 0 .. MemoLimit
  BY SaleNumbers DEF CreateOrder, Event!CartIsValid, Event!Description
<1>3. Requested(request)
  BY <1>1, <1>2 DEF Requested, Event!VendorRequest
<1>4. /\ OrderFields \subseteq DOMAIN order' /\ order'.request = request
      /\ order'.state = "registering" /\ order'.registered = FALSE
      /\ ~Sold /\ UNCHANGED <<vars, payment, skew, fee>>
  BY DEF CreateOrder, OrderFields
<1>5. OrderHolds'
  BY <1>3, <1>4 DEF OrderHolds, Requested
<1>6. ~Paid /\ ~Paid'
  BY <1>4 DEF SaleInv, PaymentHolds, Paid
<1> QED
  BY <1>4, <1>5, <1>6 DEF PaymentHolds, JudgementHolds
-----------------------------------------------------------------------------
(* The attendee's record.  Of what can be scanned, only the order's code   *)
(* has a way to deliver.                                                   *)
LEMMA ConfirmHolds ==
  ASSUME SaleInv, NEW request \in Circulating, ConfirmPayment(request)
  PROVE  PaymentHolds' /\ JudgementHolds' /\ UNCHANGED <<vars, order, skew, fee>>
<1>1. request.transport = "relay"
  BY DEF ConfirmPayment, Event!ReviewAccepts, Event!HasEventTransport
<1>2. Sold /\ order.registered /\ request = order.request
  BY <1>1 DEF Circulating, Event!WalletRequest
<1>3. /\ PaymentFields \subseteq DOMAIN payment'
      /\ payment'.request = request /\ payment'.state = "preparing" /\ payment'.token = None
      /\ UNCHANGED <<vars, order, skew, fee>>
  BY DEF ConfirmPayment, PaymentFields
<1>4. PaymentHolds'
  BY <1>2, <1>3 DEF PaymentHolds, Sold
<1>5. JudgementHolds'
  BY <1>2, <1>3, SaleNumbers DEF SaleInv, OrderHolds, JudgementHolds
<1> QED
  BY <1>3, <1>4, <1>5

LEMMA PrepareHolds ==
  ASSUME SaleInv, NEW p \in Proofs, PreparePayment(p)
  PROVE  PaymentHolds' /\ JudgementHolds' /\ UNCHANGED <<vars, order, skew, fee>>
<1> DEFINE payload == Event!PayloadOf(payment.request, payment.request.amount + fee)
<1>1. /\ Paid /\ PaymentFields \subseteq DOMAIN payment /\ UNCHANGED <<vars, order, skew, fee>>
      /\ Sold /\ order.registered /\ payment.request = order.request
      /\ payment.token = None \/ Prepared
      /\ order.token # p
  BY DEF PreparePayment, Unused, SaleInv, PaymentHolds
<1>2. \/ payment' = [payment EXCEPT !.state = "recoverable"]
      \/ payment' = [payment EXCEPT !.state = "delivering", !.token = p, !.payload = payload]
  BY Zenon DEF PreparePayment
<1>3. CASE payment' = [payment EXCEPT !.state = "recoverable"]
  <2>1. /\ PaymentFields \subseteq DOMAIN payment' /\ payment'.state = "recoverable"
        /\ payment'.token = payment.token /\ payment'.payload = payment.payload
        /\ payment'.request = payment.request
    BY <1>1, <1>3 DEF PaymentFields
  <2>2. Prepared => Prepared'
    BY <1>1, <2>1 DEF Prepared
  <2>3. PaymentHolds'
    BY <1>1, <2>1, <2>2 DEF PaymentHolds, Sold
  <2> QED
    BY <1>1, <2>1, <2>3 DEF SaleInv, JudgementHolds
<1>4. CASE payment' = [payment EXCEPT !.state = "delivering", !.token = p, !.payload = payload]
  <2>1. /\ PaymentFields \subseteq DOMAIN payment' /\ payment'.state = "delivering"
        /\ payment'.token = p /\ payment'.payload = payload /\ payment'.request = payment.request
    <3> HIDE DEF payload
    <3> QED
      BY <1>1, <1>4 DEF PaymentFields
  <2>2. Prepared'
    BY <1>1, <2>1 DEF Prepared
  <2>3. PaymentHolds'
    BY <1>1, <2>1, <2>2 DEF PaymentHolds, Sold
  <2> QED
    BY <1>1, <2>1, <2>3 DEF JudgementHolds
<1> QED
  BY <1>1, <1>2, <1>3, <1>4

(* Without a fee the relay has nothing to say against the payload itself.  *)
LEMMA RefusalIsOfSlot ==
  ASSUME SaleInv, Paid, payment.state = "delivering", fee = 0,
         DeliveryStatus # 202, ~Event!CanRetry(DeliveryStatus)
  PROVE  DeliveryStatus \in {404, 409, 410}
<1>1. Prepared /\ payment.request = order.request /\ Requested(order.request)
  BY DEF SaleInv, OrderHolds, PaymentHolds
<1>2. /\ payment.payload.id = order.request.id
      /\ payment.payload.amount = order.request.amount
      /\ payment.payload.memo = order.request.description
  <2>1. order.request.amount + fee = order.request.amount
    BY <1>1, RequestedNumbers
  <2>2. payment.payload = Event!PayloadOf(order.request, order.request.amount)
    BY <1>1, <2>1 DEF Prepared
  <2> QED
    BY <2>2 DEF Event!PayloadOf
<1>3. Event!PayloadIsValid(payment.payload)
  <2>1. order.request.description <= MemoLimit /\ order.request.amount > 0
    BY <1>1, RequestedNumbers
  <2> QED
    BY <1>2, <2>1 DEF Event!PayloadIsValid
<1>4. Event!PayloadMatches(order.request, payment.payload)
  BY <1>2 DEF Event!PayloadMatches
<1>5. DeliveryStatus \in {202, 404, 409, 410}
  BY <1>3, <1>4 DEF DeliveryStatus
<1> QED
  BY <1>5

LEMMA DeliverHolds ==
  ASSUME SaleInv, DeliverPayment
  PROVE  PaymentHolds' /\ JudgementHolds' /\ UNCHANGED <<order, skew, fee>>
<1>1. /\ Paid /\ PaymentFields \subseteq DOMAIN payment /\ UNCHANGED <<order, skew, fee>>
      /\ Sold /\ order.registered /\ payment.request = order.request /\ Prepared
      /\ payment.state = "delivering"
  BY DEF DeliverPayment, SaleInv, PaymentHolds
<1>2. \/ payment' = [payment EXCEPT !.state = "delivered"]
      \/ UNCHANGED payment
      \/ /\ DeliveryStatus # 202 /\ ~Event!CanRetry(DeliveryStatus)
         /\ payment' = [payment EXCEPT !.state = "refused", !.status = DeliveryStatus]
  BY DEF DeliverPayment
<1>3. /\ PaymentFields \subseteq DOMAIN payment' /\ payment'.token = payment.token
      /\ payment'.payload = payment.payload /\ payment'.request = payment.request
      /\ payment'.state # "none"
      /\ fee = 0 /\ payment'.state = "refused" => payment'.status \in {404, 409, 410}
  <2>1. CASE payment' = [payment EXCEPT !.state = "delivered"]
    BY <1>1, <2>1 DEF PaymentFields
  <2>2. CASE UNCHANGED payment
    BY <1>1, <2>2
  <2>3. CASE /\ DeliveryStatus # 202 /\ ~Event!CanRetry(DeliveryStatus)
             /\ payment' = [payment EXCEPT !.state = "refused", !.status = DeliveryStatus]
    <3>1. fee = 0 => DeliveryStatus \in {404, 409, 410}
      BY <1>1, <2>3, RefusalIsOfSlot
    <3> QED
      BY <1>1, <2>3, <3>1 DEF PaymentFields
  <2> QED
    BY <1>2, <2>1, <2>2, <2>3
<1>4. Prepared'
  BY <1>1, <1>3 DEF Prepared
<1>5. PaymentHolds'
  BY <1>1, <1>3, <1>4 DEF PaymentHolds, Sold
<1>6. JudgementHolds'
  BY <1>1, <1>3 DEF SaleInv, JudgementHolds
<1> QED
  BY <1>1, <1>5, <1>6
-----------------------------------------------------------------------------
(* The slot of the order.  Only registerOrder makes one.                   *)
LEMMA SlotKept ==
  ASSUME SaleInv, KeepsTerms(slots'), now' \in {now, now + 1},
         Sold => Sold' /\ OrderKept,
         Sold' /\ order'.registered => Sold /\ order.registered
  PROVE  SlotHolds'
<1>1. now \in Nat /\ MaxTtl \in Nat /\ \A o \in Registered : slots[o].expiresAt \in Nat
  BY Clocks, Numbers DEF SaleInv, SInv, TypeOK
<1>2. ASSUME NEW o \in Registered'
      PROVE  /\ Sold' /\ o = order'.request.id
             /\ slots'[o].cap = order'.request.cap
             /\ slots'[o].expiresAt = order'.request.expiresAt
             /\ slots'[o].expiresAt <= now' + MaxTtl
  <2>1. /\ o \in Registered /\ slots'[o].cap = slots[o].cap
        /\ slots'[o].expiresAt = slots[o].expiresAt
    BY DEF KeepsTerms, Registered
  <2>2. /\ Sold /\ o = order.request.id
        /\ slots[o].cap = order.request.cap
        /\ slots[o].expiresAt = order.request.expiresAt
        /\ slots[o].expiresAt <= now + MaxTtl
    BY <2>1 DEF SaleInv, SlotHolds
  <2> QED
    BY <1>1, <2>1, <2>2 DEF OrderKept
<1>3. ASSUME Sold', order'.registered, now' < order'.request.expiresAt
      PROVE  order'.request.id \in Registered'
  <2>1. Sold /\ order.registered /\ order'.request = order.request
    BY <1>3 DEF OrderKept
  <2>2. now < order.request.expiresAt
    <3>1. order.request.expiresAt \in Int
      BY <2>1 DEF SaleInv, OrderHolds, Requested
    <3> QED
      BY <1>1, <1>3, <2>1, <3>1
  <2>3. order.request.id \in Registered /\ slots[order.request.id].expiresAt = order.request.expiresAt
    BY <2>1, <2>2 DEF SaleInv, SlotHolds
  <2> QED
    BY <2>1, <2>2, <2>3 DEF KeepsTerms, Registered
<1> QED
  BY <1>2, <1>3 DEF SlotHolds

LEMMA StutterTerms == UNCHANGED vars => KeepsTerms(slots') /\ now' = now
BY DEF vars, KeepsTerms, Registered

LEMMA SlotBegins ==
  ASSUME SaleInv, Sold, Registration, Sold', OrderKept
  PROVE  SlotHolds'
<1> DEFINE o == order.request.id
           c == order.request.cap
           expiry == order.request.expiresAt
<1>1. Registered = {}
  BY DEF Registration, Register, SaleInv, SlotHolds
<1>2. /\ slots' = With(o, NewRow(c, expiry)) /\ expiry <= now + MaxTtl /\ now' = now
  BY DEF Registration, Register
<1>3. Registered' = {o} /\ slots'[o] = NewRow(c, expiry)
  BY <1>1, <1>2 DEF With, Registered
<1>4. slots'[o].cap = c /\ slots'[o].expiresAt = expiry
  BY <1>3 DEF NewRow
<1>5. order'.request = order.request
  BY DEF OrderKept
<1> QED
  BY <1>2, <1>3, <1>4, <1>5 DEF SlotHolds

LEMMA SlotRegisters ==
  ASSUME SaleInv, RegisterOrder
  PROVE  SlotHolds'
<1>1. Sold /\ ~order.registered /\ Sold' /\ OrderKept
  BY VendorHolds DEF RegisterOrder
<1>2. CASE RegisterSlot
  <2>1. CASE Registration
    BY <1>1, <2>1, SlotBegins
  <2>2. CASE order.request.id \in Registered /\ UNCHANGED vars
    <3>1. slots' = slots /\ now' = now /\ order'.request = order.request /\ Registered' = Registered
      BY <1>1, <2>2 DEF OrderKept, vars, Registered
    <3> QED
      BY <1>1, <2>2, <3>1 DEF SaleInv, SlotHolds
  <2> QED
    BY <1>2, <2>1, <2>2 DEF RegisterSlot
<1>3. CASE UNCHANGED vars /\ order' \in {order, [order EXCEPT !.state = "recoverable"]}
  <2>1. order'.registered = order.registered
    BY <1>1, <1>3 DEF SaleInv, OrderHolds, OrderFields
  <2> QED
    BY <1>1, <1>3, <2>1, StutterTerms, SlotKept
<1> QED
  BY <1>2, <1>3 DEF RegisterOrder

LEMMA SlotStays ==
  ASSUME SaleInv, ReadInbox \/ UseInbox \/ SettleOrder \/ CleanUp \/ CancelOrder
  PROVE  SlotHolds'
<1>1. Sold /\ Sold' /\ OrderKept /\ OrderFields \subseteq DOMAIN order /\ order.request.cap \in Caps
  BY VendorHolds DEF SaleInv, OrderHolds, Requested
<1>2. order'.registered = order.registered
  BY <1>1, Zenon DEF ReadInbox, UseInbox, SettleOrder, CleanUp, CancelOrder, OrderFields
<1>3. KeepsTerms(slots') /\ now' = now
  <2>1. \/ UNCHANGED vars
        \/ \E c \in Caps : Read(c) \/ Acknowledge(c) \/ Cancel(c)
    BY <1>1 DEF ReadInbox, UseInbox, SettleOrder, CleanUp, CancelOrder
  <2> QED
    BY <2>1, StutterTerms, HandlerTerms DEF SaleInv
<1> QED
  BY <1>1, <1>2, <1>3, SlotKept

LEMMA SlotOutside ==
  ASSUME SaleInv, UNCHANGED order, \/ DeliverPayment \/ Service \/ UNCHANGED vars
                                   \/ \E p \in Proofs : PayElsewhere(p)
  PROVE  SlotHolds'
<1>1. Sold => Sold' /\ OrderKept
  BY DEF Sold, OrderKept
<1>2. CASE DeliverPayment \/ \E p \in Proofs : PayElsewhere(p)
  <2>1. \/ UNCHANGED vars
        \/ \E c \in Caps, p \in Payloads : Deliver(c, p)
    <3>1. CASE DeliverPayment
      <4>1. /\ payment.request.id \in Orders /\ payment.request.cap \in Caps
            /\ payment.token \in Proofs
        BY <3>1 DEF DeliverPayment, SaleInv, OrderHolds, PaymentHolds, Prepared, Requested
      <4>2. RelayPayload \in Payloads
        BY <4>1 DEF RelayPayload, Payloads
      <4> QED
        BY <3>1, <4>1, <4>2 DEF DeliverPayment
    <3>2. ASSUME NEW p \in Proofs, PayElsewhere(p)
          PROVE  \E c \in Caps, q \in Payloads : Deliver(c, q)
      <4>1. order.request.id \in Orders /\ order.request.cap \in Caps
        BY <3>2 DEF PayElsewhere, SaleInv, OrderHolds, Requested
      <4>2. [order |-> order.request.id, proofs |-> p] \in Payloads
        BY <4>1 DEF Payloads
      <4> QED
        BY <3>2, <4>1, <4>2 DEF PayElsewhere
    <3> QED
      BY <1>2, <3>1, <3>2
  <2>2. KeepsTerms(slots') /\ now' = now
    BY <2>1, StutterTerms, HandlerTerms DEF SaleInv
  <2> QED
    BY <1>1, <2>2, SlotKept DEF Sold
<1>3. CASE Service
  <2>1. KeepsTerms(slots') /\ now' \in {now, now + 1}
    BY <1>3, ServiceTerms DEF Service, SaleInv
  <2> QED
    BY <1>1, <2>1, SlotKept DEF Sold
<1>4. CASE UNCHANGED vars
  BY <1>1, <1>4, StutterTerms, SlotKept DEF Sold
<1> QED
  BY <1>2, <1>3, <1>4
-----------------------------------------------------------------------------
LEMMA SaleNext == SaleInv /\ [OrderNext]_orderVars => SaleInv'
<1> SUFFICES ASSUME SaleInv, [OrderNext]_orderVars PROVE SaleInv'
  OBVIOUS
<1>1. SInv'
  BY SaleOnRelay, SNext DEF SaleInv
<1>2. ASSUME UNCHANGED <<skew, fee>> PROVE ClocksHold'
  BY <1>2 DEF SaleInv, ClocksHold
<1>3. CASE RegisterOrder \/ ReadInbox \/ UseInbox \/ SettleOrder \/ CleanUp \/ CancelOrder
  <2>1. Sold /\ OrderKept /\ StateHolds /\ Sold' /\ UNCHANGED <<payment, skew, fee>>
    BY <1>3, VendorHolds
  <2>2. OrderHolds' /\ JudgementHolds'
    BY <2>1, OrderResult
  <2>3. PaymentHolds'
    BY <2>1 DEF SaleInv, PaymentHolds, OrderKept, Prepared, Paid
  <2>4. SlotHolds'
    BY <1>3, SlotRegisters, SlotStays
  <2> QED
    BY <1>1, <1>2, <2>1, <2>2, <2>3, <2>4 DEF SaleInv
<1>4. ASSUME NEW o \in Orders, NEW c \in Caps, NEW cart \in Carts, CreateOrder(o, c, cart)
      PROVE  SaleInv'
  <2>1. /\ OrderHolds' /\ PaymentHolds' /\ JudgementHolds'
        /\ ~Sold /\ order'.registered = FALSE /\ UNCHANGED <<vars, skew, fee>>
    BY <1>4, OrderBegins
  <2>2. SlotHolds'
    BY <2>1, StutterTerms, SlotKept
  <2> QED
    BY <1>1, <1>2, <2>1, <2>2 DEF SaleInv
<1>5. ASSUME NEW request \in Circulating, ConfirmPayment(request)
      PROVE  SaleInv'
  <2>1. PaymentHolds' /\ JudgementHolds' /\ UNCHANGED <<vars, order, skew, fee>>
    BY <1>5, ConfirmHolds
  <2>2. OrderHolds'
    BY <2>1 DEF SaleInv, OrderHolds, Sold
  <2> QED
    BY <1>1, <1>2, <2>1, <2>2, SlotOutside DEF SaleInv
<1>6. ASSUME NEW p \in Proofs, PreparePayment(p)
      PROVE  SaleInv'
  <2>1. PaymentHolds' /\ JudgementHolds' /\ UNCHANGED <<vars, order, skew, fee>>
    BY <1>6, PrepareHolds
  <2>2. OrderHolds'
    BY <2>1 DEF SaleInv, OrderHolds, Sold
  <2> QED
    BY <1>1, <1>2, <2>1, <2>2, SlotOutside DEF SaleInv
<1>7. CASE DeliverPayment
  <2>1. PaymentHolds' /\ JudgementHolds' /\ UNCHANGED <<order, skew, fee>>
    BY <1>7, DeliverHolds
  <2>2. OrderHolds'
    BY <2>1 DEF SaleInv, OrderHolds, Sold
  <2> QED
    BY <1>1, <1>2, <1>7, <2>1, <2>2, SlotOutside DEF SaleInv
<1>8. CASE Service \/ UNCHANGED orderVars \/ \E p \in Proofs : PayElsewhere(p)
  <2>1. UNCHANGED <<order, payment, skew, fee>> /\ (UNCHANGED orderVars => UNCHANGED vars)
    BY <1>8 DEF Service, PayElsewhere, orderVars
  <2>2. OrderHolds' /\ PaymentHolds' /\ JudgementHolds'
    BY <2>1 DEF SaleInv, OrderHolds, PaymentHolds, JudgementHolds, Prepared, Sold, Paid
  <2> QED
    BY <1>1, <1>2, <1>8, <2>1, <2>2, SlotOutside DEF SaleInv
<1> QED
  BY <1>3, <1>4, <1>5, <1>6, <1>7, <1>8 DEF OrderNext

LEMMA SaleAlways == OrderSpec => []SaleInv
BY SaleInit, SaleNext, PTL DEF OrderSpec

(* A sale implements the relay: every behaviour of the three browsers and  *)
(* the service is one of RelaySlots, for any catalogue, clocks and fees.   *)
THEOREM SaleUsesRelay == OrderSpec => Spec
<1>1. OrderInit => Init
  BY DEF OrderInit
<1> QED
  BY <1>1, SaleInit, SaleNext, SaleOnRelay, PTL DEF OrderSpec, Spec

(* So in every sale, whoever pays and whatever the clocks say, what the    *)
(* relay accepted stays readable until it is acknowledged or too old, and  *)
(* is dropped after that.                                                  *)
THEOREM SaleKeepsPayloads == OrderSpec => []PayloadIsKept
BY SaleUsesRelay, PayloadTheorem, PTL

(* What an attendee's review accepted is refused neither by the relay nor  *)
(* by the vendor for what it is (parsePaymentPayload, deliver, settleOrder)*)
(* as long as the mint takes no fee: only for what became of the slot.     *)
THEOREM ReviewTheorem == OrderSpec => []ReviewIsKept
<1>1. SaleInv => ReviewIsKept
  BY DEF SaleInv, PaymentHolds, JudgementHolds, ReviewIsKept
<1> QED
  BY <1>1, SaleAlways, PTL
-----------------------------------------------------------------------------
(* The three clocks.  A slot of the order's capability is the order's.     *)
LEMMA OrdersSlot ==
  ASSUME SaleInv, Sold, NEW o \in SlotOf(order.request.cap)
  PROVE  /\ o = order.request.id /\ o \in Registered /\ slots[o] \in Rows
         /\ slots[o].expiresAt = order.request.expiresAt
         /\ slots[o].expiresAt <= now + MaxTtl
BY DEF SlotOf, SaleInv, SlotHolds, SInv, RowsHold, RowInv

LEMMA OrdersState ==
  ASSUME SaleInv, Sold, SlotState(order.request.cap) = "open"
  PROVE  /\ now < order.request.expiresAt
         /\ order.request.expiresAt <= now + MaxTtl
<1> DEFINE o == CHOOSE o \in SlotOf(order.request.cap) : TRUE
<1>1. SlotOf(order.request.cap) # {} /\ ExpireRow(slots[o], now).state = "open"
  BY DEF SlotState
<1>2. o \in SlotOf(order.request.cap)
  BY <1>1
<1> HIDE DEF o
<1>3. /\ slots[o] \in Rows /\ slots[o].expiresAt = order.request.expiresAt
      /\ slots[o].expiresAt <= now + MaxTtl
  BY <1>2, OrdersSlot
<1>4. ~(slots[o].expiresAt <= now)
  BY <1>1, <1>3 DEF ExpireRow, Lapsed, Rows
<1>5. slots[o].expiresAt \in Nat /\ now \in Nat
  BY <1>3, Clocks DEF Rows, SaleInv
<1> QED
  BY <1>3, <1>4, <1>5

LEMMA LocksInTime ==
  ASSUME SaleInv, [OrderNext]_orderVars, Paid, payment.token = None, payment'.token # None,
         skew.payer >= 0
  PROVE  \E o \in SlotOf(payment.request.cap) : now < slots[o].expiresAt
<1>1. /\ PaymentFields \subseteq DOMAIN payment /\ Sold /\ order.registered
      /\ payment.request = order.request /\ Requested(order.request)
  BY DEF SaleInv, OrderHolds, PaymentHolds
<1>2. ASSUME NEW p \in Proofs, PreparePayment(p)
      PROVE  Event!ReviewAccepts(payment.request, MaxSafe, PayerClock)
  <2>1. CASE payment' = [payment EXCEPT !.state = "recoverable"]
    BY <1>1, <2>1 DEF PaymentFields
  <2> QED
    BY <1>2, <2>1, Zenon DEF PreparePayment
<1>3. DeliverPayment => payment'.token = payment.token
  BY <1>1 DEF DeliverPayment, PaymentFields
<1>4. (\E p \in Proofs : PreparePayment(p)) \/ DeliverPayment \/ UNCHANGED payment
  BY DEF OrderNext, orderVars, CreateOrder, RegisterOrder, ReadInbox, UseInbox, SettleOrder, CleanUp,
     CancelOrder, ConfirmPayment, PayElsewhere, Service
<1>5. Event!LifetimeIsValid(order.request.expiresAt, PayerClock)
  BY <1>1, <1>2, <1>3, <1>4 DEF Event!ReviewAccepts
<1>6. now < order.request.expiresAt
  <2>1. now \in Nat /\ skew.payer \in Int
    BY Clocks DEF SaleInv, ClocksHold
  <2>2. order.request.expiresAt \in Int
    BY <1>1 DEF Requested
  <2> QED
    BY <1>5, <2>1, <2>2 DEF Event!LifetimeIsValid, PayerClock
<1>7. /\ order.request.id \in Registered
      /\ slots[order.request.id].cap = order.request.cap
      /\ slots[order.request.id].expiresAt = order.request.expiresAt
  BY <1>1, <1>6 DEF SaleInv, SlotHolds
<1> QED
  BY <1>1, <1>6, <1>7 DEF SlotOf

LEMMA OpenIsPayable ==
  ASSUME SaleInv, Sold, skew.payer = 0, SlotState(order.request.cap) = "open"
  PROVE  Event!ReviewAccepts(order.request, MaxSafe, PayerClock)
<1>1. now < order.request.expiresAt /\ order.request.expiresAt <= now + MaxTtl
  BY OrdersState
<1>2. Requested(order.request) /\ now \in Nat
  BY Clocks DEF SaleInv, OrderHolds
<1>3. order.request.expiresAt \in Int
  BY <1>2 DEF Requested
<1>4. PayerClock = now
  BY <1>2 DEF PayerClock
<1>5. Event!LifetimeIsValid(order.request.expiresAt, PayerClock)
  BY <1>1, <1>2, <1>3, <1>4, SaleNumbers, Numbers DEF Event!LifetimeIsValid
<1>6. Event!Decodes(order.request) /\ Event!IsAffordable(order.request, MaxSafe)
  BY <1>2, RequestedNumbers, SaleNumbers DEF Event!Decodes, Event!IsAffordable
<1>7. Event!HasEventTransport(order.request) /\ Event!HasVendorLock(order.request)
  BY <1>2 DEF Requested, Event!HasEventTransport, Event!HasVendorLock
<1> QED
  BY <1>5, <1>6, <1>7 DEF Event!ReviewAccepts

LEMMA KeyIsKept ==
  ASSUME SaleInv, [OrderNext]_orderVars, Sold, order.key, order'.state = "expired", skew.vendor <= 0
  PROVE  SlotState(order.request.cap) # "open"
<1>1. OrderFields \subseteq DOMAIN order /\ Requested(order.request) /\ order.state # "expired"
  BY DEF SaleInv, OrderHolds
<1>2. \/ UNCHANGED order
      \/ RegisterOrder \/ ReadInbox \/ UseInbox \/ SettleOrder \/ CleanUp \/ CancelOrder
  BY DEF OrderNext, orderVars, CreateOrder, ConfirmPayment, PreparePayment, DeliverPayment,
     PayElsewhere, Service
<1>3. Lapses(order.request, VendorClock)
  BY <1>1, <1>2, VendorHolds DEF StateHolds
<1>4. now \in Nat /\ skew.vendor \in Int /\ order.request.expiresAt \in Int
  BY <1>1, Clocks DEF SaleInv, ClocksHold, Requested
<1>5. order.request.expiresAt <= now
  BY <1>3, <1>4 DEF Lapses, VendorClock
<1> QED
  BY <1>4, <1>5, OrdersState

(* Whatever the skews: an attendee whose clock is not behind locks no      *)
(* value for a slot that has lapsed, one whose clock is right can pay an   *)
(* open slot, and a vendor whose clock is not ahead keeps its key.         *)
THEOREM LifetimesTheorem == OrderSpec => LifetimesAgree
<1>1. SaleInv /\ [OrderNext]_orderVars =>
        [Paid /\ payment.token = None /\ payment'.token # None /\ skew.payer >= 0 =>
           \E o \in SlotOf(payment.request.cap) : now < slots[o].expiresAt]_orderVars
  BY LocksInTime
<1>2. SaleInv =>
        (Sold /\ order.registered /\ skew.payer = 0 /\ SlotState(order.request.cap) = "open" =>
           Event!ReviewAccepts(order.request, MaxSafe, PayerClock))
  BY OpenIsPayable
<1>3. SaleInv /\ [OrderNext]_orderVars =>
        [Sold /\ order.key /\ order'.state = "expired" /\ skew.vendor <= 0 =>
           SlotState(order.request.cap) # "open"]_orderVars
  BY KeyIsKept
<1> QED
  BY <1>1, <1>2, <1>3, SaleAlways, PTL DEF OrderSpec, LifetimesAgree
===============================================================================
