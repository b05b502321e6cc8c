-------------------------- MODULE MarketPaymentProofs --------------------------
(***************************************************************************)
(* Proofs about MarketPayment, for any attendees, any number of orders,    *)
(* any deadlines and any number of lost requests and closed tabs: no value *)
(* is lost between the browsers, and they agree on how every payment ended.*)
(***************************************************************************)
EXTENDS MarketPayment, FiniteSetTheorems, TLAPS

(* The relay with what is proved of it.                                    *)
R == INSTANCE RelaySlotsProofs WITH Caps <- Orders, Proofs <- Tokens, MaxTtl <- Ttl

TokensOf(o) == {Token(p, o) : p \in Payers} \cup {Foreign(o)}
Funds(p) == {Seed(p)} \cup {Change(p, o) : o \in Orders}

OrderRecord == [state : OrderStates, key : BOOLEAN, cap : BOOLEAN, registered : BOOLEAN,
                acked : BOOLEAN, token : Tokens \cup {None}, swap : BOOLEAN, expiresAt : Nat]

PaymentRecord == [state : PaymentStates, swap : SUBSET Proofs, token : BOOLEAN,
                  retry : {"unset", "yes", "no"}, delivered : BOOLEAN]

(* What the state of an order implies for the rest of its record.          *)
OrderHolds(o, order) ==
  /\ order \in OrderRecord
  /\ order.token \in TokensOf(o) \cup {None}
  /\ order.expiresAt <= MaxTime + Ttl
  /\ order.key => order.cap
  /\ order.state \in {"registering", "awaiting_payment", "cancelling"} =>
       order.key /\ order.token = None
  /\ order.state \in {"awaiting_payment", "cancelling", "settled"} \/ order.token # None =>
       order.registered
  /\ order.state = "recoverable" => order.key
  /\ order.state \in {"payload_received", "validating", "swapping"} =>
       order.key /\ order.token # None
  /\ order.swap => order.state \in {"swapping", "recoverable"} /\ order.token \in OwnTokens
  /\ order.state = "swapping" => order.swap
  /\ order.state \in {"none", "settled", "cancelled", "expired"} =>
       ~order.key /\ order.token = None
  /\ order.state \in {"none", "registering"} => ~order.registered
  /\ order.state = "rejected" => order.token \notin OwnTokens

(* What the handler at work in the vendor's tab knows of its order.        *)
Unpaid(order) == order.token = None /\ ~order.swap /\ order.key /\ order.cap

VendorPlaces == {"idle", "registering", "reading", "read open", "read closed", "acknowledging",
                 "cleaning", "validating", "swapping", "restoring", "cancelling"}

TaskHolds(at, order) ==
  /\ at = "registering" =>
       Unpaid(order) /\ ~order.registered /\ order.state \in {"registering", "recoverable"}
  /\ at \in {"reading", "read open", "read closed"} =>
       /\ Unpaid(order) /\ order.registered
       /\ order.state \in {"awaiting_payment", "cancelling", "recoverable"}
  /\ at = "acknowledging" => order.state = "payload_received"
  /\ at = "cleaning" => order.state = "settled"
  /\ at = "validating" => order.state = "validating"
  /\ at \in {"swapping", "restoring"} => order.swap
  /\ at = "cancelling" => order.state = "cancelling"

VendorHolds ==
  /\ orders \in [Orders -> OrderRecord] /\ \A o \in Orders : OrderHolds(o, orders[o])
  /\ vtask \in [at : VendorPlaces, op : 0 .. MaxOrders]
  /\ vtask = Idle \/ (vtask.op \in Orders /\ TaskHolds(vtask.at, orders[vtask.op]))

(* A payment is prepared from proofs set aside, and then has its token.    *)
PaymentHolds(p, payment, balance) ==
  /\ payment \in PaymentRecord
  /\ payment.swap \subseteq Funds(p) /\ payment.swap \cap balance = {}
  /\ payment.swap # {} => /\ payment.state \in {"preparing", "recoverable"}
                          /\ ~payment.token /\ payment.retry = "unset"
  /\ payment.state \in {"none", "spent"} =>
       payment.swap = {} /\ ~payment.token /\ payment.retry = "unset"
  /\ payment.state = "preparing" => payment.swap # {}
  /\ payment.state \in {"delivering", "delivered", "unspent"} => payment.token
  /\ payment.state = "recoverable" => payment.swap # {} \/ payment.token
  /\ payment.delivered => /\ payment.state \in {"delivered", "unspent", "recoverable", "spent"}
                          /\ payment.swap = {}
  /\ payment.retry = "no" => payment.state = "recoverable" /\ ~payment.delivered

PayerPlaces == {"idle", "preparing", "restoring", "delivering"}

PayerTaskHolds(at, payment) ==
  /\ at \in {"preparing", "restoring"} => payment.swap # {}
  /\ at = "delivering" => payment.state = "delivering" /\ ~payment.delivered

(* The change of a payment is added once, when the payment is made.        *)
Made(p, o) == pay[p][o].state # "none" /\ pay[p][o].swap = {}

ChangeHolds(p, o) ==
  Change(p, o) \in purse[p] \cup spent \/ (\E r \in Orders : Change(p, o) \in pay[p][r].swap) =>
    Made(p, o)

PayerHolds(p) ==
  /\ purse[p] \subseteq Funds(p)
  /\ pay[p] \in [Orders -> PaymentRecord]
  /\ \A o \in Orders :
       /\ PaymentHolds(p, pay[p][o], purse[p])
       /\ ChangeHolds(p, o)
       /\ pay[p][o].state # "none" => orders[o].registered
  /\ ptask[p] \in [at : PayerPlaces, op : 0 .. MaxOrders, first : BOOLEAN]
  /\ ptask[p] = NoTask \/ (ptask[p].op \in Orders /\ PayerTaskHolds(ptask[p].at, pay[p][ptask[p].op]))

PayersHold ==
  /\ pay \in [Payers -> [Orders -> PaymentRecord]]
  /\ purse \in [Payers -> SUBSET Proofs] /\ DOMAIN ptask = Payers
  /\ \A p \in Payers : PayerHolds(p)

(* The mint's side of an order: its tokens are spent by its own swap.      *)
SpentBy(o) == {p \in Payers : Token(p, o) \in spent}

SwapHolds(o) ==
  LET order == orders[o] IN
  /\ \A p \in SpentBy(o) : (order.swap /\ order.token = Token(p, o)) \/ order.state = "settled"
  /\ Fresh(o) \in signed => (order.swap /\ order.token \in spent) \/ order.state = "settled"
  /\ Fresh(o) \in till <=> order.state = "settled"
  /\ order.state = "settled" => Fresh(o) \in signed /\ \E p \in Payers : SpentBy(o) = {p}

(* And of a payment: what was swapped is spent, and what came of it is in  *)
(* the record that drew it.                                                *)
SendHolds(p, o) ==
  LET payment == pay[p][o] IN
  /\ Token(p, o) \in signed => payment.state # "none" /\ payment.swap \subseteq spent
  /\ Token(p, o) \in signed \ spent => payment.swap # {} \/ payment.token

PurseHolds(p) ==
  /\ purse[p] \subseteq signed \ spent
  /\ Funds(p) \cap (signed \ spent) \subseteq
       purse[p] \cup UNION {InPayment(p, o) : o \in Orders}

MintHolds ==
  /\ signed \subseteq Proofs
  /\ spent \subseteq OwnTokens \cup UNION {Funds(p) : p \in Payers}
  /\ till \subseteq {Fresh(o) : o \in Orders}
  /\ \A o \in Orders : SwapHolds(o)
  /\ \A p \in Payers : PurseHolds(p) /\ \A o \in Orders : SendHolds(p, o)

(* The relay's slot of an order, and what its clients were told of it.     *)
SlotHolds(o) ==
  o \in DOMAIN slots =>
    /\ slots[o].cap = o
    /\ slots[o].digest # None =>
         slots[o].digest.order = o /\ slots[o].digest.proofs \in TokensOf(o)

ToldHolds(o) ==
  /\ o \in DOMAIN slots =>
       /\ orders[o].state = "cancelled" => "cancelled" \in told[o]
       /\ \A p \in Payers : pay[p][o].delivered => "stored" \in told[o]
  /\ orders[o].state = "cancelled" => \A p \in Payers : ~pay[p][o].delivered

RelayHolds == R!SInv /\ \A o \in Orders : SlotHolds(o)

PayInv ==
  /\ VendorHolds /\ PayersHold /\ MintHolds /\ RelayHolds
  /\ \A o \in Orders : ToldHolds(o)
  /\ faults \in 0 .. MaxFaults
-----------------------------------------------------------------------------
LEMMA Numbers ==
  /\ MaxOrders \in Nat /\ MaxTime \in Nat /\ MaxFaults \in Nat
  /\ Ttl \in Nat \ {0} /\ Retention \in Nat \ {0} /\ Period \in Nat \ {0}
  /\ Orders \subseteq Nat \ {0} /\ Orders \subseteq 0 .. MaxOrders /\ 0 \in 0 .. MaxOrders
BY PaymentAssumption DEF Orders

(* Proofs with different names are different proofs.                       *)
LEMMA Names ==
  ASSUME NEW p \in Payers, NEW q \in Payers, NEW o \in Orders, NEW r \in Orders
  PROVE  /\ Token(p, o) = Token(q, r) => p = q /\ o = r
         /\ Change(p, o) = Change(q, r) => p = q /\ o = r
         /\ Seed(p) = Seed(q) => p = q
         /\ Fresh(o) = Fresh(r) => o = r
         /\ Token(p, o) \notin {Change(q, r), Seed(q), Fresh(r), Foreign(r), None}
         /\ Change(p, o) \notin {Seed(q), Fresh(r)} /\ Seed(p) # Fresh(r)
         /\ Token(p, o) \in OwnTokens /\ Foreign(o) # None
<1>1. /\ Token(p, o) \in OwnTokens /\ Token(p, o) \in Tokens /\ Foreign(o) \in Tokens
  BY DEF OwnTokens, Tokens
<1>2. Token(p, o) # None /\ Foreign(o) # None
  BY <1>1, NoneAssumption
<1> QED
  BY <1>1, <1>2 DEF Token, Change, Seed, Fresh, Foreign

LEMMA Kinds ==
  ASSUME NEW p \in Payers, NEW o \in Orders
  PROVE  /\ Funds(p) \cap OwnTokens = {} /\ Fresh(o) \notin Funds(p) \cup OwnTokens
         /\ \A q \in Payers : q # p => Funds(p) \cap Funds(q) = {}
         /\ Funds(p) \subseteq Proofs /\ OwnTokens \subseteq Proofs /\ Fresh(o) \in Proofs
         /\ Change(p, o) \in Funds(p) /\ None \notin Tokens
         /\ \A t \in TokensOf(o) : t \in OwnTokens => \E q \in Payers : t = Token(q, o)
         /\ TokensOf(o) \subseteq Tokens /\ Token(p, o) \in TokensOf(o)
<1>1. /\ Funds(p) \subseteq Proofs /\ OwnTokens \subseteq Proofs /\ Fresh(o) \in Proofs
      /\ Change(p, o) \in Funds(p) /\ None \notin Tokens
      /\ TokensOf(o) \subseteq Tokens /\ Token(p, o) \in TokensOf(o)
  BY NoneAssumption DEF Funds, Proofs, OwnTokens, Tokens, TokensOf
<1>2. Funds(p) \cap OwnTokens = {} /\ Fresh(o) \notin Funds(p) \cup OwnTokens
  BY Names DEF Funds, OwnTokens
<1>3. \A q \in Payers : q # p => Funds(p) \cap Funds(q) = {}
  BY Names DEF Funds
<1>4. \A t \in TokensOf(o) : t \in OwnTokens => \E q \in Payers : t = Token(q, o)
  <2>1. Foreign(o) \notin OwnTokens
    BY Names DEF OwnTokens
  <2> QED
    BY <2>1 DEF TokensOf
<1> QED
  BY <1>1, <1>2, <1>3, <1>4
-----------------------------------------------------------------------------
(* The relay of RelaySlotsProofs is the relay of MarketPayment.            *)
LEMMA RelayAssumed == R!RelayAssumption
BY NoneAssumption, PaymentAssumption DEF R!RelayAssumption, R!Payloads, Relay!Payloads

LEMMA SameRows ==
  /\ \A row, t : Relay!ExpireRow(row, t) = R!ExpireRow(row, t)
  /\ \A row, p : Relay!Delivered(row, p) = R!Delivered(row, p)
<1>1. \A row, t : Relay!ExpireRow(row, t) = R!ExpireRow(row, t)
  BY DEF Relay!ExpireRow, R!ExpireRow, Relay!Lapsed, R!Lapsed
<1>2. \A row, p : Relay!Delivered(row, p) = R!Delivered(row, p)
  BY DEF Relay!Delivered, R!Delivered
<1> QED
  BY <1>1, <1>2

LEMMA SameHandlers ==
  /\ \A o, c, t : Relay!Register(o, c, t) => R!Register(o, c, t)
  /\ \A c, p : Relay!Deliver(c, p) => R!Deliver(c, p)
  /\ \A c : Relay!Read(c) => R!Read(c)
  /\ \A c : Relay!Acknowledge(c) => R!Acknowledge(c)
  /\ \A c : Relay!Cancel(c) => R!Cancel(c)
<1>1. \A o, c, t : Relay!Register(o, c, t) => R!Register(o, c, t)
  BY Zenon DEF Relay!Register, R!Register, Relay!Registered, R!Registered, Relay!With, R!With,
     Relay!NewRow, R!NewRow
<1>2. \A c, p : Relay!Deliver(c, p) => R!Deliver(c, p)
  BY SameRows, Zenon DEF Relay!Deliver, R!Deliver, Relay!Put, R!Put, Relay!Registered,
     R!Registered, Relay!Tell, R!Tell
<1>3. \A c : Relay!Read(c) => R!Read(c)
  BY SameRows, Zenon DEF Relay!Read, R!Read, Relay!Put, R!Put, Relay!Registered, R!Registered
<1>4. \A c : Relay!Acknowledge(c) => R!Acknowledge(c)
  BY SameRows, Zenon DEF Relay!Acknowledge, R!Acknowledge, Relay!Put, R!Put, Relay!Registered,
     R!Registered
<1>5. \A c : Relay!Cancel(c) => R!Cancel(c)
  BY SameRows, Zenon DEF Relay!Cancel, R!Cancel, Relay!Put, R!Put, Relay!Registered,
     R!Registered, Relay!Tell, R!Tell
<1> QED
  BY <1>1, <1>2, <1>3, <1>4, <1>5

LEMMA SameCleanup ==
  /\ Relay!ExpireOpen(slots) = R!ExpireOpen(slots)
  /\ Relay!ExpireDelivered(Relay!ExpireOpen(slots)) = R!ExpireDelivered(R!ExpireOpen(slots))
  /\ Relay!Cleaned = R!Cleaned
<1>1. \A rows : Relay!ExpireOpen(rows) = R!ExpireOpen(rows)
  BY SameRows DEF Relay!ExpireOpen, R!ExpireOpen
<1>2. \A rows : Relay!ExpireDelivered(rows) = R!ExpireDelivered(rows)
  BY Zenon DEF Relay!ExpireDelivered, R!ExpireDelivered
<1>3. \A rows : Relay!DeleteClosed(rows) = R!DeleteClosed(rows)
  BY Zenon DEF Relay!DeleteClosed, R!DeleteClosed
<1> QED
  BY <1>1, <1>2, <1>3 DEF Relay!Cleaned, R!Cleaned

LEMMA SameService ==
  Relay!Cleanup \/ Relay!Restart \/ Relay!Tick \/ Relay!Crash =>
    R!Cleanup \/ R!Restart \/ R!Tick \/ R!Crash
BY SameCleanup, Zenon DEF Relay!Cleanup, R!Cleanup, Relay!Restart, R!Restart, Relay!Tick, R!Tick,
   Relay!Crash, R!Crash

LEMMA SameTypes == R!TypeOK => Relay!TypeOK
BY Zenon DEF Relay!TypeOK, R!TypeOK, Relay!Registered, R!Registered, Relay!States, R!States,
   Relay!Payloads, R!Payloads, Relay!Outcomes, R!Outcomes
-----------------------------------------------------------------------------
(* What the relay keeps of a slot and of its history.                      *)
SameSlot(row, old) == row.cap = old.cap /\ row.digest = old.digest

KeepsSlots(rows) ==
  DOMAIN rows \subseteq DOMAIN slots /\ \A o \in DOMAIN rows : SameSlot(rows[o], slots[o])

ToldGrows == \A o \in DOMAIN slots' : o \in DOMAIN slots /\ told[o] \subseteq told'[o]

LEMMA RelayFacts ==
  ASSUME R!SInv
  PROVE  /\ DOMAIN slots \subseteq Orders /\ told \in [Orders -> SUBSET {"stored", "cancelled"}]
         /\ now \in Nat /\ now <= MaxTime /\ up \in BOOLEAN
         /\ \A o \in DOMAIN slots :
              /\ slots[o] \in R!Rows
              /\ slots[o].payload \in {None, slots[o].digest}
              /\ slots[o].payload # None <=> slots[o].state = "delivered"
              /\ slots[o].state \in {"open", "cancelled"} => slots[o].digest = None
              /\ "stored" \in told[o] => slots[o].digest # None
              /\ "cancelled" \in told[o] => slots[o].state = "cancelled"
<1>1. /\ DOMAIN slots \subseteq Orders /\ told \in [Orders -> SUBSET {"stored", "cancelled"}]
      /\ now \in 0 .. MaxTime /\ up \in BOOLEAN
  BY DEF R!SInv, R!TypeOK, R!Registered, R!Outcomes
<1>2. \A o \in DOMAIN slots :
        /\ slots[o] \in R!Rows
        /\ slots[o].payload \in {None, slots[o].digest}
        /\ slots[o].payload # None <=> slots[o].state = "delivered"
        /\ slots[o].state \in {"open", "cancelled"} => slots[o].digest = None
        /\ "stored" \in told[o] => slots[o].digest # None
        /\ "cancelled" \in told[o] => slots[o].state = "cancelled"
  BY DEF R!SInv, R!RowsHold, R!RowInv, R!Registered, R!PayloadIsDigest, R!DigestFollowsState,
         R!ToldIsTrue
<1> QED
  BY <1>1, <1>2, Numbers

LEMMA ExpireRowSame ==
  ASSUME NEW row \in R!Rows, NEW t
  PROVE  R!ExpireRow(row, t) \in R!Rows /\ SameSlot(R!ExpireRow(row, t), row)
BY DEF R!ExpireRow, R!Rows, R!States, SameSlot

LEMMA PutKeeps ==
  ASSUME NEW o \in DOMAIN slots, NEW row, R!Put(o, row), SameSlot(row, slots[o])
  PROVE  KeepsSlots(slots')
BY DEF R!Put, KeepsSlots, SameSlot

LEMMA TellGrows ==
  ASSUME R!SInv, NEW o \in DOMAIN slots, NEW outcome, KeepsSlots(slots'),
         R!Tell(o, outcome) \/ UNCHANGED told
  PROVE  ToldGrows
BY RelayFacts DEF R!Tell, ToldGrows, KeepsSlots

LEMMA HandlerKeeps ==
  ASSUME R!SInv, NEW c \in Orders, R!Read(c) \/ R!Acknowledge(c) \/ R!Cancel(c)
  PROVE  KeepsSlots(slots') /\ ToldGrows
<1>1. \A o \in DOMAIN slots : slots[o] \in R!Rows
  BY RelayFacts
<1>2. ASSUME NEW o \in DOMAIN slots, NEW s, NEW row \in R!Rows, SameSlot(row, slots[o])
      PROVE  /\ SameSlot([row EXCEPT !.state = s], slots[o])
             /\ SameSlot([row EXCEPT !.state = s, !.payload = None], slots[o])
  BY <1>2 DEF R!Rows, SameSlot
<1>3. UNCHANGED slots => KeepsSlots(slots')
  BY DEF KeepsSlots, SameSlot
<1>4. CASE R!Read(c)
  <2>1. PICK o \in DOMAIN slots : R!Put(o, R!ExpireRow(slots[o], now)) /\ UNCHANGED told
    BY <1>4 DEF R!Read, R!Registered
  <2>2. SameSlot(R!ExpireRow(slots[o], now), slots[o])
    BY <1>1, ExpireRowSame
  <2>3. KeepsSlots(slots')
    BY <2>1, <2>2, PutKeeps
  <2> QED
    BY <2>1, <2>3, TellGrows
<1>5. CASE R!Acknowledge(c)
  <2>1. PICK o \in DOMAIN slots :
          /\ UNCHANGED told
          /\ \/ R!Put(o, [slots[o] EXCEPT !.state = "acknowledged", !.payload = None])
             \/ R!Put(o, R!ExpireRow(slots[o], now))
    BY <1>5 DEF R!Acknowledge, R!Registered
  <2>2. SameSlot(R!ExpireRow(slots[o], now), slots[o]) /\ SameSlot(slots[o], slots[o])
    BY <1>1, ExpireRowSame DEF SameSlot
  <2>3. SameSlot([slots[o] EXCEPT !.state = "acknowledged", !.payload = None], slots[o])
    BY <1>1, <1>2, <2>2
  <2>4. KeepsSlots(slots')
    BY <2>1, <2>2, <2>3, PutKeeps
  <2> QED
    BY <2>1, <2>4, TellGrows
<1>6. CASE R!Cancel(c)
  <2>1. PICK o \in DOMAIN slots :
          /\ R!Tell(o, "cancelled") \/ UNCHANGED told
          /\ \/ R!Put(o, [R!ExpireRow(slots[o], now) EXCEPT !.state = "cancelled"])
             \/ UNCHANGED slots
             \/ R!Put(o, R!ExpireRow(slots[o], now))
    BY <1>6 DEF R!Cancel, R!Registered
  <2>2. /\ R!ExpireRow(slots[o], now) \in R!Rows
        /\ SameSlot(R!ExpireRow(slots[o], now), slots[o])
    BY <1>1, ExpireRowSame
  <2>3. SameSlot([R!ExpireRow(slots[o], now) EXCEPT !.state = "cancelled"], slots[o])
    BY <1>2, <2>2 DEF SameSlot
  <2>4. KeepsSlots(slots')
    BY <1>3, <2>1, <2>2, <2>3, PutKeeps
  <2> QED
    BY <2>1, <2>4, TellGrows
<1> QED
  BY <1>4, <1>5, <1>6

(* Cleanup, and a crash between two of its statements.                     *)
LEMMA ServiceKeeps ==
  ASSUME R!SInv, R!Cleanup \/ R!Restart \/ R!Tick \/ R!Crash
  PROVE  KeepsSlots(slots') /\ ToldGrows
<1> DEFINE Typed(rows) == \A o \in DOMAIN rows : rows[o] \in R!Rows
<1> USE DEF R!Registered
<1>1. Typed(slots) /\ KeepsSlots(slots) /\ \A o \in DOMAIN slots : told[o] \subseteq told[o]
  BY RelayFacts DEF KeepsSlots, SameSlot
<1>2. ASSUME NEW rows, Typed(rows), KeepsSlots(rows)
      PROVE  Typed(R!ExpireOpen(rows)) /\ KeepsSlots(R!ExpireOpen(rows))
  <2>1. /\ DOMAIN R!ExpireOpen(rows) = DOMAIN rows
        /\ \A o \in DOMAIN rows : R!ExpireOpen(rows)[o] = R!ExpireRow(rows[o], now)
    BY DEF R!ExpireOpen
  <2>2. \A o \in DOMAIN rows :
          R!ExpireOpen(rows)[o] \in R!Rows /\ SameSlot(R!ExpireOpen(rows)[o], rows[o])
    BY <1>2, <2>1, ExpireRowSame
  <2> QED
    BY <1>2, <2>1, <2>2 DEF KeepsSlots, SameSlot
<1>3. ASSUME NEW rows, Typed(rows), KeepsSlots(rows)
      PROVE  Typed(R!ExpireDelivered(rows)) /\ KeepsSlots(R!ExpireDelivered(rows))
  <2> DEFINE gone(o) == [rows[o] EXCEPT !.state = "expired", !.payload = None]
  <2>1. /\ DOMAIN R!ExpireDelivered(rows) = DOMAIN rows
        /\ \A o \in DOMAIN rows : R!ExpireDelivered(rows)[o] \in {gone(o), rows[o]}
    BY DEF R!ExpireDelivered
  <2>2. \A o \in DOMAIN rows : gone(o) \in R!Rows /\ SameSlot(gone(o), rows[o])
    BY <1>3 DEF R!Rows, R!States, SameSlot
  <2>3. \A o \in DOMAIN rows :
          /\ R!ExpireDelivered(rows)[o] \in R!Rows
          /\ SameSlot(R!ExpireDelivered(rows)[o], rows[o])
    BY <1>3, <2>1, <2>2 DEF SameSlot
  <2> QED
    BY <1>3, <2>1, <2>3 DEF KeepsSlots, SameSlot
<1>4. ASSUME NEW rows, KeepsSlots(rows) PROVE KeepsSlots(R!DeleteClosed(rows))
  BY <1>4 DEF R!DeleteClosed, KeepsSlots
<1>5. /\ KeepsSlots(R!ExpireOpen(slots)) /\ KeepsSlots(R!ExpireDelivered(R!ExpireOpen(slots)))
      /\ KeepsSlots(R!Cleaned)
  BY <1>1, <1>2, <1>3, <1>4 DEF R!Cleaned
<1> HIDE DEF Typed
<1>6. KeepsSlots(slots') /\ UNCHANGED told
  BY <1>1, <1>5 DEF R!Cleanup, R!Restart, R!Tick, R!Crash
<1> QED
  BY <1>6 DEF ToldGrows, KeepsSlots

LEMMA RelayNext == ASSUME RelayHolds, R!Next \/ UNCHANGED relay PROVE R!SInv'
<1>1. UNCHANGED relay => UNCHANGED R!vars
  BY DEF relay, R!vars
<1> QED
  BY <1>1, RelayAssumed, R!SNext DEF RelayHolds

LEMMA KeptHolds ==
  ASSUME RelayHolds, R!SInv', KeepsSlots(slots')
  PROVE  RelayHolds'
BY DEF RelayHolds, KeepsSlots, SameSlot, SlotHolds

(* A request of a browser that reads, acknowledges or cancels.             *)
LEMMA HandlerHolds ==
  ASSUME RelayHolds, NEW c \in Orders,
         Relay!Read(c) \/ Relay!Acknowledge(c) \/ Relay!Cancel(c) \/ UNCHANGED relay
  PROVE  RelayHolds' /\ ToldGrows
<1>1. CASE UNCHANGED relay
  BY <1>1, RelayNext DEF RelayHolds, relay, SlotHolds, ToldGrows
<1>2. CASE Relay!Read(c) \/ Relay!Acknowledge(c) \/ Relay!Cancel(c)
  <2>1. R!Read(c) \/ R!Acknowledge(c) \/ R!Cancel(c)
    BY <1>2, SameHandlers
  <2>2. R!Next
    BY <2>1 DEF R!Next
  <2> QED
    BY <2>1, <2>2, RelayNext, HandlerKeeps, KeptHolds DEF RelayHolds
<1> QED
  BY <1>1, <1>2

LEMMA ServiceHolds ==
  ASSUME RelayHolds, Relay!Cleanup \/ Relay!Restart \/ Relay!Tick \/ Relay!Crash
  PROVE  RelayHolds' /\ ToldGrows
<1>1. R!Cleanup \/ R!Restart \/ R!Tick \/ R!Crash
  BY SameService
<1>2. R!Next
  BY <1>1 DEF R!Next
<1> QED
  BY <1>1, <1>2, RelayNext, ServiceKeeps, KeptHolds DEF RelayHolds

(* A registration adds the order's own slot, a delivery its own payload.   *)
LEMMA RegisterHolds ==
  ASSUME RelayHolds, NEW o \in Orders, NEW t \in Nat, t <= MaxTime + Ttl, Relay!Register(o, o, t)
  PROVE  /\ RelayHolds'
         /\ \A r \in DOMAIN slots' : r = o \/ (r \in DOMAIN slots /\ told[r] \subseteq told'[r])
<1>1. R!Register(o, o, t) /\ now < t /\ now \in Nat /\ told \in [Orders -> SUBSET {"stored", "cancelled"}]
  BY SameHandlers, RelayFacts DEF R!Register, RelayHolds
<1>2. R!Next
  BY <1>1, Numbers DEF R!Next
<1>3. R!SInv'
  BY <1>2, RelayNext
<1>4. /\ DOMAIN slots' = DOMAIN slots \cup {o}
      /\ \A r \in DOMAIN slots' : slots'[r] = IF r = o THEN R!NewRow(o, t) ELSE slots[r]
      /\ told' = [told EXCEPT ![o] = {}]
  BY <1>1 DEF R!Register, R!With, R!Registered
<1>5. R!NewRow(o, t).cap = o /\ R!NewRow(o, t).digest = None
  BY DEF R!NewRow
<1> QED
  BY <1>1, <1>3, <1>4, <1>5 DEF RelayHolds, SlotHolds

LEMMA DeliverHolds ==
  ASSUME RelayHolds, NEW o \in Orders, NEW t \in TokensOf(o), Relay!Deliver(o, Payload(o, t))
  PROVE  /\ RelayHolds' /\ ToldGrows /\ o \in DOMAIN slots /\ o \in DOMAIN slots'
         /\ "stored" \in told'[o]
<1> DEFINE p == Payload(o, t)
<1>0. t \in Tokens /\ p \in R!Payloads /\ p.order = o /\ p.proofs = t
  <2>1. t \in Tokens
    BY DEF TokensOf, Tokens, OwnTokens
  <2> QED
    BY <2>1 DEF Payload, R!Payloads
<1> HIDE DEF p
<1>1. R!Deliver(o, p)
  BY SameHandlers DEF p
<1>2. R!SInv /\ R!SInv'
  BY <1>0, <1>1, RelayNext DEF R!Next, RelayHolds
<1>3. PICK r \in DOMAIN slots :
        /\ slots[r].cap = o /\ R!Tell(r, "stored")
        /\ \/ UNCHANGED slots
           \/ p.order = r /\ R!Put(r, R!Delivered(slots[r], p))
  BY <1>1 DEF R!Deliver, R!Registered
<1>4. r = o
  BY <1>2, <1>3, RelayFacts DEF RelayHolds, SlotHolds
<1>5. R!Delivered(slots[r], p).cap = o /\ R!Delivered(slots[r], p).digest \in {slots[r].digest, p}
  BY <1>2, <1>3, RelayFacts DEF R!Delivered, R!Rows
<1>6. /\ DOMAIN slots' = DOMAIN slots
      /\ \A s \in DOMAIN slots : slots'[s].cap = s \/ slots'[s] = slots[s]
      /\ \A s \in DOMAIN slots : slots'[s].digest = slots[s].digest \/ (s = o /\ slots'[s].digest = p)
  BY <1>3, <1>4, <1>5 DEF R!Put
<1>7. \A s \in Orders : SlotHolds(s)'
  BY <1>0, <1>6 DEF RelayHolds, SlotHolds
<1>8. ToldGrows /\ "stored" \in told'[o]
  BY <1>2, <1>3, <1>4, <1>6, RelayFacts DEF R!Tell, ToldGrows
<1> QED
  BY <1>2, <1>3, <1>4, <1>6, <1>7, <1>8 DEF RelayHolds
-----------------------------------------------------------------------------
(* The steps of the vendor that leave the money alone: whatever becomes of *)
(* the order at hand, it keeps its swap, and is settled or cancelled only  *)
(* if it was.                                                              *)
Quiet(o) ==
  /\ VendorHolds'
  /\ \A r \in Orders \ {o} : orders'[r] = orders[r]
  /\ orders[o].registered => orders'[o].registered
  /\ orders'[o].state = "settled" <=> orders[o].state = "settled"
  /\ orders[o].swap => orders'[o].swap /\ orders'[o].token = orders[o].token
  /\ orders'[o].state = "cancelled" => orders[o].state = "cancelled"

LEMMA VendorGoes ==
  ASSUME NEW o \in Orders, NEW rec, NEW at \in VendorPlaces, TaskHolds(at, rec),
         Wait(at, o) \/ Rest
  PROVE  /\ vtask' = Idle \/ (vtask'.op = o /\ TaskHolds(vtask'.at, rec))
         /\ vtask' \in [at : VendorPlaces, op : 0 .. MaxOrders]
<1>1. o \in 0 .. MaxOrders /\ 0 \in 0 .. MaxOrders /\ "idle" \in VendorPlaces
  BY Numbers DEF VendorPlaces
<1> QED
  BY <1>1 DEF Rest, Idle, Wait

LEMMA Resting == ASSUME NEW rec PROVE TaskHolds("idle", rec) /\ "idle" \in VendorPlaces
BY DEF TaskHolds, VendorPlaces

LEMMA VendorStore ==
  ASSUME VendorHolds, NEW o \in Orders, NEW rec, NEW at \in VendorPlaces,
         Store(o, rec), OrderHolds(o, rec), TaskHolds(at, rec), Wait(at, o) \/ Rest
  PROVE  VendorHolds' /\ orders'[o] = rec /\ \A r \in Orders \ {o} : orders'[r] = orders[r]
<1>1. /\ orders' \in [Orders -> OrderRecord] /\ orders'[o] = rec
      /\ \A r \in Orders \ {o} : orders'[r] = orders[r]
  BY DEF VendorHolds, Store, OrderHolds
<1>2. \A r \in Orders : OrderHolds(r, orders'[r])
  BY <1>1 DEF VendorHolds
<1>3. /\ vtask' = Idle \/ (vtask'.op = o /\ TaskHolds(vtask'.at, rec))
      /\ vtask' \in [at : VendorPlaces, op : 0 .. MaxOrders]
  BY VendorGoes
<1>4. \A r \in Orders : OrderHolds(r, orders[r])'
  BY <1>2 DEF OrderHolds, OrderRecord
<1> QED
  BY <1>1, <1>3, <1>4 DEF VendorHolds

LEMMA QuietStore ==
  ASSUME VendorHolds, NEW o \in Orders, NEW rec, NEW at \in VendorPlaces,
         Store(o, rec), OrderHolds(o, rec), TaskHolds(at, rec), Wait(at, o) \/ Rest,
         orders[o].registered => rec.registered,
         rec.state = "settled" <=> orders[o].state = "settled",
         orders[o].swap => rec.swap /\ rec.token = orders[o].token,
         rec.state = "cancelled" => orders[o].state = "cancelled"
  PROVE  Quiet(o)
BY VendorStore DEF Quiet

LEMMA QuietWait ==
  ASSUME VendorHolds, NEW o \in Orders, NEW at \in VendorPlaces, UNCHANGED orders,
         TaskHolds(at, orders[o]), Wait(at, o) \/ Rest
  PROVE  Quiet(o)
<1>1. /\ vtask' = Idle \/ (vtask'.op = o /\ TaskHolds(vtask'.at, orders[o]))
      /\ vtask' \in [at : VendorPlaces, op : 0 .. MaxOrders]
  BY VendorGoes
<1>2. VendorHolds'
  <2>1. \A r \in Orders : OrderHolds(r, orders[r])'
    BY DEF VendorHolds
  <2> QED
    BY <1>1, <2>1 DEF VendorHolds
<1> QED
  BY <1>2 DEF Quiet

(* A record with another state.                                            *)
Kept(rec, order) ==
  /\ rec.key = order.key /\ rec.registered = order.registered /\ rec.token = order.token
  /\ rec.swap = order.swap /\ rec.expiresAt = order.expiresAt

LEMMA Marked ==
  ASSUME VendorHolds, NEW o \in Orders, NEW s \in OrderStates, Mark(o, s)
  PROVE  \E rec \in OrderRecord :
           Store(o, rec) /\ rec.state = s /\ rec.cap = orders[o].cap /\ Kept(rec, orders[o])
<1> DEFINE rec == [orders[o] EXCEPT !.state = s]
<1>1. orders[o] \in OrderRecord
  BY DEF VendorHolds
<1>2. rec \in OrderRecord /\ rec.state = s /\ rec.cap = orders[o].cap /\ Kept(rec, orders[o])
  BY <1>1 DEF OrderRecord, Kept
<1>3. Store(o, rec)
  BY DEF Mark
<1> QED
  BY <1>2, <1>3

LEMMA OrderFacts ==
  ASSUME VendorHolds, NEW o \in Orders PROVE OrderHolds(o, orders[o]) /\ orders[o] \in OrderRecord
BY DEF VendorHolds, OrderHolds

(* What the handler in the vendor's tab knows.                             *)
LEMMA TaskFacts ==
  ASSUME VendorHolds, NEW o \in Orders, NEW at, at # "idle",
         vtask = [at |-> at, op |-> o] \/ (vtask.at = at /\ vtask.op = o)
  PROVE  TaskHolds(at, orders[o]) /\ at \in VendorPlaces
BY DEF VendorHolds, Idle

(* An order may turn recoverable as long as it keeps its private key.      *)
LEMMA QuietRecoverable ==
  ASSUME VendorHolds, NEW o \in Orders, Mark(o, "recoverable"), Rest, orders[o].key
  PROVE  Quiet(o)
<1>1. OrderHolds(o, orders[o]) /\ orders[o].state # "settled"
  <2>1. OrderHolds(o, orders[o])
    BY OrderFacts
  <2> QED
    BY <2>1 DEF OrderHolds
<1>2. PICK rec \in OrderRecord :
        Store(o, rec) /\ rec.state = "recoverable" /\ rec.cap = orders[o].cap /\ Kept(rec, orders[o])
  BY Marked DEF OrderStates
<1>3. OrderHolds(o, rec)
  BY <1>1, <1>2 DEF OrderHolds, Kept
<1> QED
  BY <1>1, <1>2, <1>3, Resting, QuietStore DEF Kept

LEMMA StepCreateOrder ==
  ASSUME VendorHolds, now \in Nat, NEW o \in Orders, CreateOrder(o) PROVE Quiet(o)
<1> DEFINE rec == [orders[o] EXCEPT !.state = "registering", !.key = TRUE, !.cap = TRUE,
                                    !.expiresAt = now + Ttl]
<1>1. /\ orders[o] \in OrderRecord /\ orders[o].state = "none" /\ ~orders[o].registered
      /\ orders[o].token = None /\ ~orders[o].swap /\ now + Ttl \in Nat /\ now + Ttl <= MaxTime + Ttl
  BY Numbers DEF VendorHolds, OrderHolds, CreateOrder
<1>2. /\ rec \in OrderRecord /\ rec.state = "registering" /\ rec.key /\ rec.cap /\ ~rec.registered
      /\ rec.token = None /\ ~rec.swap /\ rec.expiresAt <= MaxTime + Ttl
  BY <1>1 DEF OrderRecord, OrderStates
<1>3. Store(o, rec) /\ Wait("registering", o)
  BY DEF CreateOrder
<1> HIDE DEF rec
<1>4. OrderHolds(o, rec)
  BY <1>2 DEF OrderHolds
<1>5. TaskHolds("registering", rec)
  BY <1>2 DEF TaskHolds, Unpaid
<1> QED
  BY <1>1, <1>2, <1>3, <1>4, <1>5, QuietStore DEF VendorPlaces

LEMMA StepRegister == ASSUME VendorHolds, NEW o \in Orders, Register(o) PROVE Quiet(o)
<1>1. OrderHolds(o, orders[o]) /\ orders[o] \in OrderRecord
  BY OrderFacts
<1>2. Unpaid(orders[o]) /\ orders[o].state \in {"registering", "recoverable"}
  <2>1. TaskHolds("registering", orders[o])
    BY TaskFacts DEF Register
  <2> QED
    BY <2>1 DEF TaskHolds
<1>3. ASSUME Store(o, [orders[o] EXCEPT !.state = "awaiting_payment", !.registered = TRUE])
      PROVE  Quiet(o)
  <2> DEFINE rec == [orders[o] EXCEPT !.state = "awaiting_payment", !.registered = TRUE]
  <2>1. /\ rec \in OrderRecord /\ rec.state = "awaiting_payment" /\ rec.registered
        /\ rec.key /\ rec.cap /\ rec.token = None /\ ~rec.swap
        /\ rec.expiresAt = orders[o].expiresAt
    BY <1>1, <1>2 DEF OrderRecord, OrderStates, Unpaid
  <2>2. Store(o, rec)
    BY <1>3
  <2> HIDE DEF rec
  <2>3. OrderHolds(o, rec)
    BY <1>1, <2>1 DEF OrderHolds
  <2>4. Rest
    BY DEF Register
  <2> QED
    BY <1>2, <2>1, <2>2, <2>3, <2>4, Resting, QuietStore DEF Unpaid
<1>4. ASSUME Mark(o, "recoverable") PROVE Quiet(o)
  BY <1>2, <1>4, QuietRecoverable DEF Register, Unpaid
<1> QED
  BY <1>3, <1>4, Zenon DEF Register

(* pollOrder, for an order that was registered.                            *)
Polled(order) ==
  \/ order.state = "settled"
  \/ /\ order.state \in {"payload_received", "validating", "swapping", "recoverable"}
     /\ order.token # None
  \/ /\ order.state \in {"awaiting_payment", "cancelling", "recoverable"}
     /\ Unpaid(order) /\ order.registered

(* The start of a settlement, for the order as stored.                     *)
LEMMA StepBegin ==
  ASSUME VendorHolds, NEW o \in Orders, NEW rec \in OrderRecord, BeginSettlement(o, rec),
         orders[o].state \in {"payload_received", "validating", "swapping", "recoverable"},
         Kept(rec, orders[o]), rec.cap = orders[o].cap, rec.state = orders[o].state,
         orders[o].token # None
  PROVE  Quiet(o)
<1>1. OrderHolds(o, orders[o])
  BY OrderFacts
<1>2. OrderHolds(o, rec) /\ rec.token # None /\ rec.key
  BY <1>1 DEF OrderHolds, Kept
<1>3. ASSUME rec.swap PROVE Quiet(o)
  <2>1. Store(o, rec) /\ Wait("swapping", o)
    BY <1>3 DEF BeginSettlement
  <2>2. TaskHolds("swapping", rec) /\ "swapping" \in VendorPlaces
    BY <1>3 DEF TaskHolds, VendorPlaces
  <2> QED
    BY <1>2, <2>1, <2>2, QuietStore DEF Kept
<1>4. ASSUME ~rec.swap PROVE Quiet(o)
  <2> DEFINE new == [rec EXCEPT !.state = "validating"]
  <2>1. /\ new \in OrderRecord /\ new.state = "validating" /\ Kept(new, rec) /\ new.cap = rec.cap
    BY DEF OrderRecord, OrderStates, Kept
  <2>2. Store(o, new) /\ Wait("validating", o)
    BY <1>4 DEF BeginSettlement
  <2> HIDE DEF new
  <2>3. OrderHolds(o, new)
    BY <1>2, <1>4, <2>1 DEF OrderHolds, Kept
  <2>4. TaskHolds("validating", new) /\ "validating" \in VendorPlaces
    BY <2>1 DEF TaskHolds, VendorPlaces
  <2> QED
    BY <1>4, <2>1, <2>2, <2>3, <2>4, QuietStore DEF Kept
<1> QED
  BY <1>3, <1>4

LEMMA StepPoll ==
  ASSUME VendorHolds, NEW o \in Orders, Poll(o), Polled(orders[o]) PROVE Quiet(o)
<1>1. OrderHolds(o, orders[o]) /\ orders[o] \in OrderRecord
  BY OrderFacts
<1>2. ASSUME orders[o].state = "settled" PROVE Quiet(o)
  <2>1. orders[o].token = None /\ ~orders[o].swap
    BY <1>1, <1>2 DEF OrderHolds
  <2>2. Wait("cleaning", o) /\ UNCHANGED orders
    BY <1>2, <2>1, Zenon DEF Poll
  <2>3. TaskHolds("cleaning", orders[o]) /\ "cleaning" \in VendorPlaces
    BY <1>2 DEF TaskHolds, VendorPlaces
  <2> QED
    BY <2>2, <2>3, QuietWait
<1>3. ASSUME orders[o].state # "settled", orders[o].token # None PROVE Quiet(o)
  <2>1. BeginSettlement(o, orders[o])
    BY <1>3, Zenon DEF Poll
  <2> QED
    BY <1>1, <1>3, <2>1, StepBegin DEF Polled, Unpaid, Kept
<1>4. ASSUME orders[o].state # "settled", orders[o].token = None PROVE Quiet(o)
  <2>1. /\ Unpaid(orders[o]) /\ orders[o].registered
        /\ orders[o].state \in {"awaiting_payment", "cancelling", "recoverable"}
    BY <1>4 DEF Polled
  <2>2. Wait("reading", o) /\ UNCHANGED orders
    BY <1>4, <2>1, Zenon DEF Poll, Unpaid
  <2>3. TaskHolds("reading", orders[o]) /\ "reading" \in VendorPlaces
    BY <2>1 DEF TaskHolds, VendorPlaces
  <2> QED
    BY <2>2, <2>3, QuietWait
<1> QED
  BY <1>2, <1>3, <1>4

LEMMA StepPollOrder == ASSUME VendorHolds, NEW o \in Orders, PollOrder(o) PROVE Quiet(o)
<1>1. OrderHolds(o, orders[o]) /\ orders[o] \in OrderRecord /\ Unfinished(o)
  BY OrderFacts DEF PollOrder
<1>2. ASSUME orders[o].state = "cancelling" PROVE Quiet(o)
  <2>1. orders[o].registered
    BY <1>1, <1>2 DEF OrderHolds
  <2>2. Wait("cancelling", o) /\ UNCHANGED orders
    BY <1>2, <2>1, Zenon DEF PollOrder
  <2>3. TaskHolds("cancelling", orders[o]) /\ "cancelling" \in VendorPlaces
    BY <1>2 DEF TaskHolds, VendorPlaces
  <2> QED
    BY <2>2, <2>3, QuietWait
<1>3. ASSUME orders[o].state # "cancelling", ~orders[o].registered, orders[o].token = None,
             ~orders[o].swap
      PROVE  Quiet(o)
  <2>1. Wait("registering", o) /\ UNCHANGED orders
    BY <1>3, Zenon DEF PollOrder
  <2>2. /\ Unpaid(orders[o]) /\ orders[o].state \in {"registering", "recoverable"}
        /\ "registering" \in VendorPlaces
    BY <1>1, <1>3 DEF OrderHolds, Unpaid, Unfinished, VendorPlaces
  <2>3. TaskHolds("registering", orders[o])
    BY <1>3, <2>2 DEF TaskHolds
  <2> QED
    BY <2>1, <2>2, <2>3, QuietWait
<1>4. ASSUME orders[o].state # "cancelling",
             orders[o].registered \/ orders[o].token # None \/ orders[o].swap
      PROVE  Quiet(o)
  <2>1. Poll(o)
    <3>1. ~(~orders[o].registered /\ orders[o].token = None /\ ~orders[o].swap)
      BY <1>4
    <3> QED
      BY <1>4, <3>1, Zenon DEF PollOrder
  <2>2. Polled(orders[o])
    <3>1. None \notin OwnTokens
      BY NoneAssumption DEF Tokens
    <3>2. /\ orders[o].state \in {"settled", "awaiting_payment", "payload_received", "validating",
                                  "swapping", "recoverable"}
          /\ orders[o].token = None => orders[o].registered /\ ~orders[o].swap
      BY <1>1, <1>4, <3>1 DEF OrderHolds, Unfinished
    <3> QED
      BY <1>1, <3>2 DEF OrderHolds, Polled, Unpaid
  <2> QED
    BY <2>1, <2>2, StepPoll
<1> QED
  BY <1>2, <1>3, <1>4 DEF OrderRecord

(* The slot of an order as a request finds it.                             *)
LEMMA SlotFacts ==
  ASSUME R!SInv, NEW o \in Orders
  PROVE  /\ Slot(o) = "missing" <=> o \notin DOMAIN slots
         /\ Slot(o) = "delivered" <=> o \in DOMAIN slots /\ slots[o].state = "delivered"
         /\ o \in DOMAIN slots => Slot(o) = R!ExpireRow(slots[o], now).state
<1>1. \A r \in DOMAIN slots : slots[r] \in R!Rows
  BY RelayFacts
<1>2. o \in DOMAIN slots => Slot(o) = R!ExpireRow(slots[o], now).state
  BY SameRows DEF Slot
<1>3. o \in DOMAIN slots =>
        /\ R!ExpireRow(slots[o], now).state # "missing"
        /\ R!ExpireRow(slots[o], now).state = "delivered" <=> slots[o].state = "delivered"
  BY <1>1 DEF R!ExpireRow, R!Lapsed, R!Rows, R!States
<1> QED
  BY <1>2, <1>3 DEF Slot

(* A payload that is read is one that was delivered for the order.         *)
LEMMA PayloadFacts ==
  ASSUME RelayHolds, NEW o \in Orders, Slot(o) = "delivered"
  PROVE  slots[o].payload.proofs \in TokensOf(o)
<1>1. o \in DOMAIN slots /\ slots[o].state = "delivered"
  BY SlotFacts DEF RelayHolds
<1>2. slots[o].payload # None /\ slots[o].payload \in {None, slots[o].digest}
  BY <1>1, RelayFacts DEF RelayHolds
<1> QED
  BY <1>1, <1>2 DEF RelayHolds, SlotHolds

LEMMA StepRead == ASSUME VendorHolds, RelayHolds, NEW o \in Orders, Read(o) PROVE Quiet(o)
<1>1. OrderHolds(o, orders[o]) /\ orders[o] \in OrderRecord /\ TaskHolds("reading", orders[o])
  BY OrderFacts, TaskFacts DEF Read
<1>2. /\ Unpaid(orders[o]) /\ orders[o].registered
      /\ orders[o].state \in {"awaiting_payment", "cancelling", "recoverable"}
  BY <1>1 DEF TaskHolds
<1>3. ASSUME Slot(o) = "delivered", Wait("acknowledging", o),
             Store(o, [orders[o] EXCEPT !.state = "payload_received",
                                        !.token = slots[o].payload.proofs])
      PROVE  Quiet(o)
  <2> DEFINE token == slots[o].payload.proofs
             rec == [orders[o] EXCEPT !.state = "payload_received", !.token = token]
  <2>1. token \in TokensOf(o) /\ token \in Tokens /\ token # None
    <3>1. token \in TokensOf(o)
      BY <1>3, PayloadFacts
    <3>2. TokensOf(o) \subseteq Tokens
      BY DEF TokensOf, Tokens, OwnTokens
    <3> QED
      BY <3>1, <3>2, NoneAssumption
  <2>2. Store(o, rec)
    BY <1>3
  <2> HIDE DEF token
  <2>3. /\ rec \in OrderRecord /\ rec.state = "payload_received" /\ rec.token = token
        /\ rec.key = orders[o].key /\ rec.cap = orders[o].cap /\ ~rec.swap
        /\ rec.registered /\ rec.expiresAt = orders[o].expiresAt
    BY <1>1, <1>2, <2>1 DEF OrderRecord, OrderStates, Unpaid
  <2> HIDE DEF rec
  <2>4. OrderHolds(o, rec)
    BY <1>1, <1>2, <2>1, <2>3 DEF OrderHolds, Unpaid
  <2>5. TaskHolds("acknowledging", rec) /\ "acknowledging" \in VendorPlaces
    BY <2>3 DEF TaskHolds, VendorPlaces
  <2> QED
    BY <1>2, <1>3, <2>2, <2>3, <2>4, <2>5, QuietStore DEF Unpaid
<1>4. ASSUME UNCHANGED orders, Wait(IF Slot(o) = "open" THEN "read open" ELSE "read closed", o)
      PROVE  Quiet(o)
  <2> DEFINE at == IF Slot(o) = "open" THEN "read open" ELSE "read closed"
  <2>1. at \in {"read open", "read closed"} /\ Wait(at, o)
    BY <1>4
  <2> HIDE DEF at
  <2>2. TaskHolds(at, orders[o]) /\ at \in VendorPlaces
    BY <1>2, <2>1 DEF TaskHolds, VendorPlaces
  <2> QED
    BY <1>4, <2>1, <2>2, QuietWait
<1>5. ASSUME Mark(o, "recoverable"), Rest PROVE Quiet(o)
  BY <1>2, <1>5, QuietRecoverable DEF Unpaid
<1> QED
  BY <1>3, <1>4, <1>5, Zenon DEF Read

(* An order that is closed without its payment forgets its keys.           *)
LEMMA ClosedOrder ==
  ASSUME VendorHolds, NEW o \in Orders, NEW s \in {"expired", "cancelled"}, Closed(o, s),
         Unpaid(orders[o]), orders[o].registered
  PROVE  \E rec \in OrderRecord :
           /\ Store(o, rec) /\ OrderHolds(o, rec)
           /\ rec.state = s /\ rec.registered /\ ~rec.swap /\ rec.token = None
<1> DEFINE rec == [orders[o] EXCEPT !.state = s, !.key = FALSE, !.cap = FALSE]
<1>1. OrderHolds(o, orders[o]) /\ orders[o] \in OrderRecord
  BY OrderFacts
<1>2. /\ rec \in OrderRecord /\ rec.state = s /\ rec.token = None /\ ~rec.key /\ ~rec.cap /\ ~rec.swap
      /\ rec.registered /\ rec.expiresAt = orders[o].expiresAt
  BY <1>1 DEF OrderRecord, OrderStates, Unpaid
<1>3. Store(o, rec)
  BY DEF Closed
<1> HIDE DEF rec
<1>4. OrderHolds(o, rec)
  BY <1>1, <1>2 DEF OrderHolds
<1> QED
  BY <1>2, <1>3, <1>4

LEMMA StepUseRead == ASSUME VendorHolds, NEW o \in Orders, UseRead(o) PROVE Quiet(o)
<1>1. /\ Unpaid(orders[o]) /\ orders[o].registered
      /\ orders[o].state \in {"awaiting_payment", "cancelling", "recoverable"}
  <2>1. TaskHolds("read open", orders[o]) \/ TaskHolds("read closed", orders[o])
    BY TaskFacts DEF UseRead
  <2> QED
    BY <2>1 DEF TaskHolds
<1>2. Rest
  BY DEF UseRead
<1>3. ASSUME Closed(o, "expired") PROVE Quiet(o)
  <2>1. PICK rec \in OrderRecord :
          /\ Store(o, rec) /\ OrderHolds(o, rec)
          /\ rec.state = "expired" /\ rec.registered /\ ~rec.swap /\ rec.token = None
    BY <1>1, <1>3, ClosedOrder
  <2> QED
    BY <1>1, <1>2, <2>1, Resting, QuietStore DEF Unpaid
<1>4. ASSUME UNCHANGED orders PROVE Quiet(o)
  BY <1>2, <1>4, Resting, QuietWait
<1>5. ASSUME Mark(o, "recoverable") PROVE Quiet(o)
  BY <1>1, <1>2, <1>5, QuietRecoverable DEF Unpaid
<1> QED
  BY <1>3, <1>4, <1>5, Zenon DEF UseRead

LEMMA Acknowledged ==
  ASSUME VendorHolds, NEW o \in Orders, NEW b \in BOOLEAN
  PROVE  LET rec == [orders[o] EXCEPT !.acked = b] IN
         /\ rec \in OrderRecord /\ Kept(rec, orders[o]) /\ rec.cap = orders[o].cap
         /\ rec.state = orders[o].state
<1>1. orders[o] \in OrderRecord
  BY OrderFacts
<1> QED
  BY <1>1 DEF OrderRecord, Kept

LEMMA StepAcknowledge == ASSUME VendorHolds, NEW o \in Orders, Acknowledge(o) PROVE Quiet(o)
<1>1. orders[o].state = "payload_received" /\ orders[o].token # None
  <2>1. TaskHolds("acknowledging", orders[o]) /\ OrderHolds(o, orders[o])
    BY TaskFacts, OrderFacts DEF Acknowledge
  <2> QED
    BY <2>1 DEF TaskHolds, OrderHolds
<1>2. PICK b \in BOOLEAN : BeginSettlement(o, [orders[o] EXCEPT !.acked = b])
  BY DEF Acknowledge
<1> DEFINE rec == [orders[o] EXCEPT !.acked = b]
<1>3. /\ rec \in OrderRecord /\ Kept(rec, orders[o]) /\ rec.cap = orders[o].cap
      /\ rec.state = orders[o].state
  BY Acknowledged
<1>4. BeginSettlement(o, rec)
  BY <1>2
<1> HIDE DEF rec
<1> QED
  BY <1>1, <1>3, <1>4, StepBegin

LEMMA StepCleanUp == ASSUME VendorHolds, NEW o \in Orders, CleanUp(o) PROVE Quiet(o)
<1>1. OrderHolds(o, orders[o]) /\ orders[o] \in OrderRecord /\ orders[o].state = "settled"
  <2>1. TaskHolds("cleaning", orders[o])
    BY TaskFacts DEF CleanUp
  <2> QED
    BY <2>1, OrderFacts DEF TaskHolds
<1>2. Rest
  BY DEF CleanUp
<1>3. ASSUME Store(o, [orders[o] EXCEPT !.acked = TRUE, !.cap = FALSE]) PROVE Quiet(o)
  <2> DEFINE rec == [orders[o] EXCEPT !.acked = TRUE, !.cap = FALSE]
  <2>1. rec \in OrderRecord /\ Kept(rec, orders[o]) /\ rec.state = "settled"
    BY <1>1 DEF OrderRecord, Kept
  <2>2. Store(o, rec)
    BY <1>3
  <2> HIDE DEF rec
  <2>3. OrderHolds(o, rec)
    BY <1>1, <2>1 DEF OrderHolds, Kept
  <2> QED
    BY <1>1, <1>2, <2>1, <2>2, <2>3, Resting, QuietStore DEF Kept
<1>4. ASSUME UNCHANGED orders PROVE Quiet(o)
  BY <1>2, <1>4, Resting, QuietWait
<1> QED
  BY <1>3, <1>4, Zenon DEF CleanUp

(* A token that was spent was spent by its order, which then does not      *)
(* validate it again.                                                      *)
LEMMA StepValidate ==
  ASSUME VendorHolds, NEW o \in Orders, SwapHolds(o), Validate(o) PROVE Quiet(o)
<1>1. OrderHolds(o, orders[o]) /\ orders[o] \in OrderRecord /\ orders[o].state = "validating"
  <2>1. TaskHolds("validating", orders[o])
    BY TaskFacts DEF Validate
  <2> QED
    BY <2>1, OrderFacts DEF TaskHolds
<1>2. orders[o].key /\ orders[o].token # None /\ ~orders[o].swap /\ orders[o].registered
  BY <1>1 DEF OrderHolds
<1>3. ASSUME Store(o, [orders[o] EXCEPT !.state = "swapping", !.swap = TRUE]), Wait("swapping", o),
             orders[o].token \in OwnTokens
      PROVE  Quiet(o)
  <2> DEFINE rec == [orders[o] EXCEPT !.state = "swapping", !.swap = TRUE]
  <2>1. /\ rec \in OrderRecord /\ rec.state = "swapping" /\ rec.swap /\ rec.key = orders[o].key
        /\ rec.token = orders[o].token /\ rec.registered = orders[o].registered
        /\ rec.cap = orders[o].cap /\ rec.expiresAt = orders[o].expiresAt
    BY <1>1 DEF OrderRecord, OrderStates
  <2>2. Store(o, rec)
    BY <1>3
  <2> HIDE DEF rec
  <2>3. OrderHolds(o, rec)
    BY <1>1, <1>2, <1>3, <2>1 DEF OrderHolds
  <2>4. TaskHolds("swapping", rec) /\ "swapping" \in VendorPlaces
    BY <2>1 DEF TaskHolds, VendorPlaces
  <2> QED
    BY <1>1, <1>3, <2>1, <2>2, <2>3, <2>4, QuietStore
<1>4. ASSUME Mark(o, "rejected"), Rest, orders[o].token \notin OwnTokens PROVE Quiet(o)
  <2>1. PICK rec \in OrderRecord :
          Store(o, rec) /\ rec.state = "rejected" /\ rec.cap = orders[o].cap /\ Kept(rec, orders[o])
    BY <1>4, Marked DEF OrderStates
  <2>2. OrderHolds(o, rec)
    BY <1>1, <1>2, <1>4, <2>1 DEF OrderHolds, Kept
  <2> QED
    BY <1>1, <1>4, <2>1, <2>2, Resting, QuietStore DEF Kept
<1>5. ASSUME Mark(o, "recoverable"), Rest PROVE Quiet(o)
  BY <1>2, <1>5, QuietRecoverable
<1>6. orders[o].token \in OwnTokens => orders[o].token \notin spent
  <2> SUFFICES ASSUME orders[o].token \in OwnTokens, orders[o].token \in spent PROVE FALSE
    OBVIOUS
  <2>1. PICK p \in Payers : orders[o].token = Token(p, o)
    BY <1>1, <1>2, Kinds DEF OrderHolds, OwnTokens
  <2> QED
    BY <1>1, <1>2, <2>1 DEF SwapHolds, SpentBy
<1> QED
  BY <1>3, <1>4, <1>5, <1>6, Zenon DEF Validate, Matches

LEMMA StepCancelOrder == ASSUME VendorHolds, NEW o \in Orders, CancelOrder(o) PROVE Quiet(o)
<1>1. OrderHolds(o, orders[o]) /\ orders[o].state = "awaiting_payment" /\ Wait("cancelling", o)
  BY OrderFacts DEF CancelOrder
<1>2. PICK rec \in OrderRecord :
        Store(o, rec) /\ rec.state = "cancelling" /\ rec.cap = orders[o].cap /\ Kept(rec, orders[o])
  BY Marked DEF CancelOrder, OrderStates
<1>3. OrderHolds(o, rec)
  BY <1>1, <1>2 DEF OrderHolds, Kept
<1>4. TaskHolds("cancelling", rec) /\ "cancelling" \in VendorPlaces
  BY <1>2 DEF TaskHolds, VendorPlaces
<1> QED
  BY <1>1, <1>2, <1>3, <1>4, QuietStore DEF Kept

(* Cancelling, until the relay says that nothing was delivered.            *)
LEMMA StepNotCancelled ==
  ASSUME VendorHolds, NEW o \in Orders, vtask = [at |-> "cancelling", op |-> o],
         Poll(o) \/ (Mark(o, "recoverable") /\ Rest)
  PROVE  Quiet(o)
<1>1. OrderHolds(o, orders[o]) /\ orders[o].state = "cancelling"
  <2>1. TaskHolds("cancelling", orders[o])
    BY TaskFacts
  <2> QED
    BY <2>1, OrderFacts DEF TaskHolds
<1>2. orders[o].key /\ orders[o].registered /\ Polled(orders[o])
  BY <1>1 DEF OrderHolds, Polled, Unpaid
<1> QED
  BY <1>2, StepPoll, QuietRecoverable

(* A swap that was not answered, or that could not be restored.            *)
LEMMA StepNotSwapped ==
  ASSUME VendorHolds, NEW o \in Orders,
         \/ vtask = [at |-> "swapping", op |-> o] /\ Wait("restoring", o) /\ UNCHANGED orders
         \/ vtask = [at |-> "restoring", op |-> o] /\ Mark(o, "recoverable") /\ Rest
  PROVE  Quiet(o)
<1>1. OrderHolds(o, orders[o]) /\ orders[o].swap
  <2>1. TaskHolds("swapping", orders[o]) \/ TaskHolds("restoring", orders[o])
    BY TaskFacts
  <2> QED
    BY <2>1, OrderFacts DEF TaskHolds
<1>2. orders[o].key
  <2>1. None \notin OwnTokens
    BY NoneAssumption DEF Tokens
  <2> QED
    BY <1>1, <2>1 DEF OrderHolds
<1>3. TaskHolds("restoring", orders[o]) /\ "restoring" \in VendorPlaces
  BY <1>1 DEF TaskHolds, VendorPlaces
<1> QED
  BY <1>2, <1>3, QuietRecoverable, QuietWait
-----------------------------------------------------------------------------
(* What the payers have is kept while no change of theirs is spent and no  *)
(* registration is forgotten.                                              *)
LEMMA PayersKept ==
  ASSUME PayersHold, UNCHANGED payers,
         \A p \in Payers, o \in Orders : Change(p, o) \in spent' => Change(p, o) \in spent,
         \A o \in Orders : orders[o].registered => orders'[o].registered
  PROVE  PayersHold'
<1>1. pay' = pay /\ purse' = purse /\ ptask' = ptask
  BY DEF payers
<1>2. ASSUME NEW p \in Payers PROVE PayerHolds(p)'
  <2>1. PayerHolds(p)
    BY DEF PayersHold
  <2>2. \A o \in Orders : ChangeHolds(p, o)'
    BY <1>1, <2>1 DEF PayerHolds, ChangeHolds, Made
  <2>3. \A o \in Orders : PaymentHolds(p, pay[p][o], purse[p])'
    BY <1>1, <2>1 DEF PayerHolds, PaymentHolds
  <2>4. \A o \in Orders : pay'[p][o].state # "none" => orders'[o].registered
    BY <1>1, <2>1 DEF PayerHolds
  <2> QED
    BY <1>1, <2>1, <2>2, <2>3, <2>4 DEF PayerHolds
<1> QED
  BY <1>1, <1>2 DEF PayersHold

LEMMA MintKept ==
  ASSUME MintHolds, UNCHANGED <<till, payers, mint>>,
         \A o \in Orders : orders'[o].state = "settled" <=> orders[o].state = "settled",
         \A o \in Orders :
           orders[o].swap => orders'[o].swap /\ orders'[o].token = orders[o].token
  PROVE  MintHolds'
<1>1. /\ pay' = pay /\ purse' = purse /\ signed' = signed /\ spent' = spent /\ till' = till
  BY DEF payers, mint
<1>2. ASSUME NEW o \in Orders PROVE SwapHolds(o)'
  <2>1. SpentBy(o)' = SpentBy(o)
    BY <1>1 DEF SpentBy
  <2> QED
    BY <1>1, <2>1 DEF MintHolds, SwapHolds
<1>3. ASSUME NEW p \in Payers PROVE PurseHolds(p)' /\ \A o \in Orders : SendHolds(p, o)'
  <2>1. \A o \in Orders : InPayment(p, o)' = InPayment(p, o)
    BY <1>1 DEF InPayment
  <2> QED
    BY <1>1, <2>1 DEF MintHolds, PurseHolds, SendHolds
<1> QED
  BY <1>1, <1>2, <1>3 DEF MintHolds

LEMMA Unregistered ==
  ASSUME PayersHold, NEW o \in Orders, ~orders[o].registered, NEW p \in Payers
  PROVE  ~pay[p][o].delivered /\ pay[p][o].state = "none"
<1>1. PayerHolds(p)
  BY DEF PayersHold
<1>2. PaymentHolds(p, pay[p][o], purse[p]) /\ pay[p][o].state = "none"
  BY <1>1 DEF PayerHolds
<1> QED
  BY <1>2 DEF PaymentHolds, PaymentRecord

(* What clients were told of a slot stays true, or concerns nobody.        *)
ToldKeeps ==
  \A r \in DOMAIN slots' :
    \/ r \in DOMAIN slots /\ told[r] \subseteq told'[r]
    \/ orders'[r].state # "cancelled" /\ \A p \in Payers : ~pay'[p][r].delivered

LEMMA QuietTold ==
  ASSUME \A o \in Orders : ToldHolds(o), ToldKeeps,
         \A o \in Orders : orders'[o].state = "cancelled" => orders[o].state = "cancelled",
         \A p \in Payers, o \in Orders : pay'[p][o].delivered => pay[p][o].delivered
  PROVE  \A o \in Orders : ToldHolds(o)'
BY DEF ToldHolds, ToldKeeps

LEMMA QuietHolds ==
  ASSUME PayInv, NEW o \in Orders, Quiet(o), UNCHANGED <<till, payers, mint>>, RelayHolds',
         ToldKeeps, faults' \in 0 .. MaxFaults
  PROVE  PayInv'
<1>1. /\ \A r \in Orders : orders'[r].state = "settled" <=> orders[r].state = "settled"
      /\ \A r \in Orders : orders[r].swap => orders'[r].swap /\ orders'[r].token = orders[r].token
      /\ \A r \in Orders : orders[r].registered => orders'[r].registered
      /\ \A r \in Orders : orders'[r].state = "cancelled" => orders[r].state = "cancelled"
      /\ VendorHolds'
  BY DEF Quiet
<1>2. PayersHold'
  <2>1. spent' = spent
    BY DEF mint
  <2> QED
    BY <1>1, <2>1, PayersKept DEF PayInv
<1>3. MintHolds'
  BY <1>1, MintKept DEF PayInv
<1>4. \A r \in Orders : ToldHolds(r)'
  <2>1. pay' = pay
    BY DEF payers
  <2> QED
    BY <1>1, <2>1, QuietTold DEF PayInv
<1> QED
  BY <1>1, <1>2, <1>3, <1>4 DEF PayInv

LEMMA Counted ==
  ASSUME faults \in 0 .. MaxFaults, Fault \/ UNCHANGED faults PROVE faults' \in 0 .. MaxFaults
BY Numbers DEF Fault
-----------------------------------------------------------------------------
(* The vendor's requests to the relay.                                     *)
LEMMA QuietRequest ==
  ASSUME PayInv, NEW o \in Orders, Quiet(o), UNCHANGED <<till, payers, mint>>,
         Relay!Read(o) \/ Relay!Acknowledge(o) \/ Relay!Cancel(o) \/ UNCHANGED relay,
         Fault \/ UNCHANGED faults
  PROVE  PayInv'
<1>1. RelayHolds' /\ ToldGrows
  BY HandlerHolds DEF PayInv
<1>2. ToldKeeps
  BY <1>1 DEF ToldGrows, ToldKeeps
<1> QED
  BY <1>1, <1>2, Counted, QuietHolds DEF PayInv

LEMMA SlotRegistered ==
  ASSUME PayInv, NEW o \in Orders, vtask = [at |-> "registering", op |-> o],
         RegisterSlot(o) \/ UNCHANGED relay, UNCHANGED payers, orders'[o].state # "cancelled"
  PROVE  RelayHolds' /\ ToldKeeps
<1>1. CASE Relay!Register(o, o, orders[o].expiresAt)
  <2>1. orders[o].expiresAt \in Nat /\ orders[o].expiresAt <= MaxTime + Ttl
    BY OrderFacts DEF PayInv, OrderHolds, OrderRecord
  <2>2. ~orders[o].registered
    <3>1. TaskHolds("registering", orders[o])
      BY TaskFacts DEF PayInv
    <3> QED
      BY <3>1 DEF TaskHolds
  <2>3. \A p \in Payers : ~pay'[p][o].delivered
    BY <2>2, Unregistered DEF PayInv, payers
  <2>4. /\ RelayHolds'
        /\ \A r \in DOMAIN slots' : r = o \/ (r \in DOMAIN slots /\ told[r] \subseteq told'[r])
    BY <1>1, <2>1, RegisterHolds DEF PayInv
  <2> QED
    BY <2>3, <2>4 DEF ToldKeeps
<1>2. CASE UNCHANGED relay
  BY <1>2, HandlerHolds DEF PayInv, ToldGrows, ToldKeeps
<1> QED
  BY <1>1, <1>2 DEF RegisterSlot

LEMMA TakeRegister == ASSUME PayInv, NEW o \in Orders, Register(o) PROVE PayInv'
<1>1. Quiet(o)
  BY StepRegister DEF PayInv
<1>2. /\ vtask = [at |-> "registering", op |-> o] /\ UNCHANGED <<till, payers, mint>>
      /\ RegisterSlot(o) \/ UNCHANGED relay
      /\ Fault \/ UNCHANGED faults
  BY Zenon DEF Register, Fails
<1>3. orders'[o].state # "cancelled"
  <2>1. TaskHolds("registering", orders[o])
    BY <1>2, TaskFacts DEF PayInv
  <2> QED
    BY <1>1, <2>1 DEF Quiet, TaskHolds
<1>4. RelayHolds' /\ ToldKeeps
  BY <1>2, <1>3, SlotRegistered
<1> QED
  BY <1>1, <1>2, <1>4, Counted, QuietHolds DEF PayInv

LEMMA TakeQuiet ==
  ASSUME PayInv, NEW o \in Orders,
         \/ CreateOrder(o) \/ PollOrder(o) \/ CancelOrder(o) \/ Read(o) \/ UseRead(o)
         \/ Acknowledge(o) \/ CleanUp(o) \/ Validate(o)
  PROVE  PayInv'
<1>1. now \in Nat /\ SwapHolds(o)
  BY RelayFacts DEF PayInv, RelayHolds, MintHolds
<1>2. Quiet(o)
  BY <1>1, StepCreateOrder, StepPollOrder, StepCancelOrder, StepRead, StepUseRead,
     StepAcknowledge, StepCleanUp, StepValidate DEF PayInv
<1>3. ASSUME CreateOrder(o) \/ PollOrder(o) \/ CancelOrder(o) \/ UseRead(o) \/ Validate(o)
      PROVE  /\ UNCHANGED <<till, payers, mint>> /\ UNCHANGED relay
             /\ Fault \/ UNCHANGED faults
  BY <1>3, Zenon DEF CreateOrder, PollOrder, CancelOrder, UseRead, Validate
<1>4. ASSUME Read(o) \/ Acknowledge(o) \/ CleanUp(o)
      PROVE  /\ UNCHANGED <<till, payers, mint>>
             /\ Relay!Read(o) \/ Relay!Acknowledge(o) \/ UNCHANGED relay
             /\ Fault \/ UNCHANGED faults
  BY <1>4, Zenon DEF Read, Acknowledge, CleanUp, AcknowledgeSlot, NotAcknowledged, Fails
<1> QED
  BY <1>2, <1>3, <1>4, QuietRequest
-----------------------------------------------------------------------------
(* The relay tells no vendor that a slot is cancelled and an attendee that *)
(* it was delivered to.                                                    *)
SlotsTold == \A o \in DOMAIN slots : ~("stored" \in told[o] /\ "cancelled" \in told[o])

LEMMA ToldOnce == R!SInv => SlotsTold
BY RelayFacts DEF SlotsTold

LEMMA CancelTold ==
  ASSUME PayInv, NEW o \in Orders, Slot(o) \in {"open", "cancelled"}, Relay!Cancel(o)
  PROVE  /\ RelayHolds' /\ ToldGrows /\ o \in DOMAIN slots /\ o \in DOMAIN slots'
         /\ "cancelled" \in told'[o] /\ "stored" \notin told'[o]
<1>1. RelayHolds' /\ ToldGrows
  BY HandlerHolds DEF PayInv
<1>2. R!SInv /\ R!SInv' /\ R!Cancel(o)
  BY <1>1, SameHandlers DEF PayInv, RelayHolds
<1>3. PICK r \in DOMAIN slots :
        /\ slots[r].cap = o
        /\ LET row == R!ExpireRow(slots[r], now)
           IN  \/ /\ row.state = "open"
                  /\ R!Put(r, [row EXCEPT !.state = "cancelled"])
                  /\ R!Tell(r, "cancelled")
               \/ row.state = "cancelled" /\ R!Tell(r, "cancelled") /\ UNCHANGED slots
               \/ row.state \notin {"open", "cancelled"} /\ R!Put(r, row) /\ UNCHANGED told
  BY <1>2 DEF R!Cancel, R!Registered
<1>4. r = o
  BY <1>2, <1>3, RelayFacts DEF PayInv, RelayHolds, SlotHolds
<1>5. R!ExpireRow(slots[o], now).state \in {"open", "cancelled"}
  BY <1>2, <1>3, <1>4, SlotFacts
<1>6. R!Tell(o, "cancelled") /\ DOMAIN slots' = DOMAIN slots
  BY <1>3, <1>4, <1>5 DEF R!Put
<1>7. "cancelled" \in told'[o]
  BY <1>2, <1>6, RelayFacts DEF R!Tell
<1>8. SlotsTold'
  BY <1>2, ToldOnce, PTL
<1> QED
  BY <1>1, <1>3, <1>4, <1>6, <1>7, <1>8 DEF SlotsTold

LEMMA TakeCancel == ASSUME PayInv, NEW o \in Orders, Cancel(o) PROVE PayInv'
<1>1. vtask = [at |-> "cancelling", op |-> o] /\ UNCHANGED <<till, payers, mint>>
  BY DEF Cancel
<1>2. ASSUME Poll(o) \/ (Mark(o, "recoverable") /\ Rest), Relay!Cancel(o) \/ UNCHANGED relay,
             Fault \/ UNCHANGED faults
      PROVE  PayInv'
  BY <1>1, <1>2, StepNotCancelled, QuietRequest DEF PayInv
<1>3. ASSUME Slot(o) \in {"open", "cancelled"}, Relay!Cancel(o), Closed(o, "cancelled"), Rest,
             UNCHANGED faults
      PROVE  PayInv'
  <2>1. OrderHolds(o, orders[o]) /\ orders[o].state = "cancelling"
    <3>1. TaskHolds("cancelling", orders[o])
      BY <1>1, TaskFacts DEF PayInv
    <3> QED
      BY <3>1, OrderFacts DEF TaskHolds, PayInv
  <2>2. Unpaid(orders[o]) /\ orders[o].registered
    BY <2>1 DEF OrderHolds, Unpaid
  <2>3. PICK rec \in OrderRecord :
          /\ Store(o, rec) /\ OrderHolds(o, rec)
          /\ rec.state = "cancelled" /\ rec.registered /\ ~rec.swap /\ rec.token = None
    BY <1>3, <2>2, ClosedOrder DEF PayInv
  <2>4. VendorHolds' /\ orders'[o] = rec /\ \A r \in Orders \ {o} : orders'[r] = orders[r]
    BY <1>3, <2>3, Resting, VendorStore DEF PayInv
  <2>5. PayersHold'
    BY <1>1, <2>3, <2>4, PayersKept DEF PayInv, mint
  <2>6. MintHolds'
    BY <1>1, <2>1, <2>2, <2>3, <2>4, MintKept DEF PayInv, Unpaid
  <2>7. /\ RelayHolds' /\ ToldGrows /\ o \in DOMAIN slots /\ o \in DOMAIN slots'
        /\ "cancelled" \in told'[o] /\ "stored" \notin told'[o]
    BY <1>3, CancelTold
  <2>8. \A r \in Orders : ToldHolds(r)'
    <3>1. pay' = pay
      BY <1>1 DEF payers
    <3>2. ASSUME NEW r \in Orders, r # o PROVE ToldHolds(r)'
      BY <2>4, <2>7, <3>1, <3>2 DEF PayInv, ToldHolds, ToldGrows
    <3>3. \A p \in Payers : ~pay[p][o].delivered
      BY <2>7 DEF PayInv, ToldHolds, ToldGrows
    <3>4. ToldHolds(o)'
      BY <2>7, <3>1, <3>3 DEF ToldHolds
    <3> QED
      BY <3>2, <3>4
  <2> QED
    BY <1>3, <2>4, <2>5, <2>6, <2>7, <2>8 DEF PayInv
<1> QED
  BY <1>2, <1>3, Zenon DEF Cancel, Fails
-----------------------------------------------------------------------------
(* The vendor's swap spends the token of its order, and signs its proofs.  *)
Swapped(q, o) == signed' = signed \cup {Fresh(o)} /\ spent' = spent \cup {Token(q, o)}

LEMMA SwapFacts ==
  ASSUME PayInv, NEW o \in Orders,
         vtask = [at |-> "swapping", op |-> o] \/ vtask = [at |-> "restoring", op |-> o]
         \/ (vtask.at = "swapping" /\ vtask.op = o)
  PROVE  /\ orders[o].swap /\ orders[o].key /\ orders[o].registered
         /\ orders[o].state \in {"swapping", "recoverable"}
         /\ \E q \in Payers : orders[o].token = Token(q, o)
<1>1. OrderHolds(o, orders[o]) /\ orders[o].swap
  <2>1. TaskHolds("swapping", orders[o]) \/ TaskHolds("restoring", orders[o])
    BY TaskFacts DEF PayInv
  <2> QED
    BY <2>1, OrderFacts DEF TaskHolds, PayInv
<1>2. orders[o].token \in OwnTokens /\ orders[o].state \in {"swapping", "recoverable"}
  BY <1>1 DEF OrderHolds
<1>3. orders[o].token # None
  BY <1>2, NoneAssumption DEF Tokens
<1>4. orders[o].token \in TokensOf(o) /\ orders[o].key /\ orders[o].registered
  BY <1>1, <1>2, <1>3 DEF OrderHolds
<1>5. \E q \in Payers : orders[o].token = Token(q, o)
  <2>1. \E q \in Payers : TRUE
    BY <1>2 DEF OwnTokens
  <2> QED
    BY <1>2, <1>4, <2>1, Kinds
<1> QED
  BY <1>1, <1>2, <1>4, <1>5

LEMMA SwapSpends ==
  ASSUME PayInv, NEW o \in Orders, NEW q \in Payers, orders[o].token = Token(q, o),
         orders[o].swap, orders[o].state # "settled", Swapped(q, o)
  PROVE  /\ SpentBy(o)' = {q}
         /\ \A r \in Orders \ {o} : SpentBy(r)' = SpentBy(r)
<1>1. \A p \in SpentBy(o) : p = q
  BY Names DEF PayInv, MintHolds, SwapHolds, SpentBy
<1>2. SpentBy(o)' = {q}
  BY <1>1, Names DEF Swapped, SpentBy
<1>3. \A r \in Orders \ {o} : SpentBy(r)' = SpentBy(r)
  BY Names DEF Swapped, SpentBy
<1> QED
  BY <1>2, <1>3

LEMMA SwapPayers ==
  ASSUME PayInv, NEW o \in Orders, NEW q \in Payers, Swapped(q, o), UNCHANGED payers,
         NEW p \in Payers
  PROVE  PurseHolds(p)' /\ \A r \in Orders : SendHolds(p, r)'
<1>1. pay' = pay /\ purse' = purse
  BY DEF payers
<1>2. Fresh(o) \notin Funds(p) /\ Token(q, o) \notin Funds(p)
  BY Kinds, Names
<1>3. purse[p] \subseteq Funds(p) /\ PurseHolds(p) /\ \A r \in Orders : SendHolds(p, r)
  BY DEF PayInv, PayersHold, PayerHolds, MintHolds
<1>4. PurseHolds(p)'
  <2>1. \A r \in Orders : InPayment(p, r)' = InPayment(p, r)
    BY <1>1 DEF InPayment
  <2> QED
    BY <1>1, <1>2, <1>3, <2>1 DEF PurseHolds, Swapped
<1>5. ASSUME NEW r \in Orders PROVE SendHolds(p, r)'
  <2>1. Token(p, r) # Fresh(o)
    BY Names
  <2> QED
    BY <1>1, <1>3, <2>1 DEF SendHolds, Swapped
<1> QED
  BY <1>4, <1>5

LEMMA SwapMint ==
  ASSUME PayInv, NEW o \in Orders, NEW q \in Payers, orders[o].token = Token(q, o),
         orders[o].swap, orders[o].state # "settled", Swapped(q, o), UNCHANGED payers,
         \A r \in Orders \ {o} : orders'[r] = orders[r],
         \/ /\ orders'[o].swap /\ orders'[o].token = orders[o].token
            /\ orders'[o].state # "settled" /\ till' = till
         \/ orders'[o].state = "settled" /\ till' = till \cup {Fresh(o)}
  PROVE  MintHolds'
<1>1. SpentBy(o)' = {q} /\ \A r \in Orders \ {o} : SpentBy(r)' = SpentBy(r)
  BY SwapSpends
<1>2. SwapHolds(o)'
  BY <1>1 DEF PayInv, MintHolds, SwapHolds, Swapped, SpentBy
<1>3. ASSUME NEW r \in Orders \ {o} PROVE SwapHolds(r)'
  <2>1. Fresh(r) # Fresh(o)
    BY Names
  <2> QED
    BY <1>1, <2>1 DEF PayInv, MintHolds, SwapHolds, Swapped
<1>4. signed' \subseteq Proofs /\ spent' \subseteq OwnTokens \cup UNION {Funds(p) : p \in Payers}
  BY Kinds, Names DEF PayInv, MintHolds, Swapped
<1>5. \A p \in Payers : PurseHolds(p)' /\ \A r \in Orders : SendHolds(p, r)'
  BY SwapPayers
<1>6. till' \subseteq {Fresh(r) : r \in Orders}
  BY DEF PayInv, MintHolds
<1> QED
  BY <1>2, <1>3, <1>4, <1>5, <1>6 DEF MintHolds

LEMMA SwapRest ==
  ASSUME PayInv, NEW o \in Orders, NEW q \in Payers, Swapped(q, o), UNCHANGED <<payers, relay>>,
         VendorHolds', MintHolds', Fault \/ UNCHANGED faults,
         \A r \in Orders : orders[r].registered => orders'[r].registered,
         \A r \in Orders : orders'[r].state = "cancelled" => orders[r].state = "cancelled"
  PROVE  PayInv'
<1>1. RelayHolds' /\ ToldKeeps
  BY HandlerHolds DEF PayInv, ToldGrows, ToldKeeps
<1>2. PayersHold'
  <2>1. \A p \in Payers, r \in Orders : Change(p, r) \in spent' => Change(p, r) \in spent
    BY Names DEF Swapped
  <2> QED
    BY <2>1, PayersKept DEF PayInv
<1>3. \A r \in Orders : ToldHolds(r)'
  <2>1. pay' = pay
    BY DEF payers
  <2> QED
    BY <1>1, <2>1, QuietTold DEF PayInv
<1> QED
  BY <1>1, <1>2, <1>3, Counted DEF PayInv

LEMMA SettleHolds ==
  ASSUME PayInv, NEW o \in Orders, NEW q \in Payers, orders[o].token = Token(q, o),
         orders[o].swap, orders[o].registered, orders[o].state # "settled", Swapped(q, o),
         Settle(o), UNCHANGED <<payers, relay, faults>>
  PROVE  PayInv'
<1> DEFINE rec == [orders[o] EXCEPT !.state = "settled", !.key = FALSE, !.cap = ~orders[o].acked,
                                    !.token = None, !.swap = FALSE]
<1>1. OrderHolds(o, orders[o]) /\ orders[o] \in OrderRecord
  BY OrderFacts DEF PayInv
<1>2. /\ rec \in OrderRecord /\ rec.state = "settled" /\ ~rec.key /\ rec.token = None /\ ~rec.swap
      /\ rec.registered /\ rec.expiresAt = orders[o].expiresAt
  BY <1>1 DEF OrderRecord, OrderStates
<1>3. Store(o, rec) /\ till' = till \cup {Fresh(o)} /\ Rest
  BY DEF Settle
<1> HIDE DEF rec
<1>4. OrderHolds(o, rec)
  BY <1>1, <1>2 DEF OrderHolds
<1>5. VendorHolds' /\ orders'[o] = rec /\ \A r \in Orders \ {o} : orders'[r] = orders[r]
  BY <1>3, <1>4, Resting, VendorStore DEF PayInv
<1>6. MintHolds'
  BY <1>2, <1>3, <1>5, SwapMint
<1> QED
  BY <1>2, <1>5, <1>6, SwapRest

(* A swap whose answer is lost.                                            *)
LEMMA UnansweredHolds ==
  ASSUME PayInv, NEW o \in Orders, Quiet(o), UNCHANGED <<till, payers, relay>>,
         Fault \/ UNCHANGED faults,
         vtask.at = "swapping", vtask.op = o, MintSwap({orders[o].token}, {Fresh(o)})
  PROVE  PayInv'
<1>1. PICK q \in Payers : orders[o].token = Token(q, o)
  BY SwapFacts
<1>2. orders[o].swap /\ orders[o].state # "settled" /\ Swapped(q, o)
  BY <1>1, SwapFacts DEF MintSwap, Swapped
<1>3. MintHolds'
  BY <1>1, <1>2, SwapMint DEF Quiet
<1> QED
  BY <1>2, <1>3, SwapRest DEF Quiet

LEMMA TakeSwap == ASSUME PayInv, NEW o \in Orders, Swap(o) PROVE PayInv'
<1>1. vtask = [at |-> "swapping", op |-> o] /\ UNCHANGED <<payers, relay>>
  BY DEF Swap
<1>2. /\ orders[o].swap /\ orders[o].registered /\ orders[o].state # "settled"
      /\ \E q \in Payers : orders[o].token = Token(q, o)
  BY <1>1, SwapFacts
<1>3. ASSUME MintSwap({orders[o].token}, {Fresh(o)}), Settle(o), UNCHANGED faults PROVE PayInv'
  <2>1. PICK q \in Payers : orders[o].token = Token(q, o)
    BY <1>2
  <2>2. Swapped(q, o)
    BY <1>3, <2>1 DEF MintSwap, Swapped
  <2> QED
    BY <1>1, <1>2, <1>3, <2>1, <2>2, SettleHolds
<1>4. ASSUME Wait("restoring", o), UNCHANGED <<orders, till>>, Fault \/ UNCHANGED faults,
             MintSwap({orders[o].token}, {Fresh(o)}) \/ UNCHANGED mint
      PROVE  PayInv'
  <2>1. Quiet(o)
    BY <1>1, <1>4, StepNotSwapped DEF PayInv
  <2>2. CASE MintSwap({orders[o].token}, {Fresh(o)})
    BY <1>1, <1>4, <2>1, <2>2, UnansweredHolds
  <2>3. CASE UNCHANGED mint
    BY <1>1, <1>4, <2>1, <2>3, QuietRequest
  <2> QED
    BY <1>4, <2>2, <2>3
<1> QED
  BY <1>3, <1>4, Zenon DEF Swap

LEMMA TakeRestore == ASSUME PayInv, NEW o \in Orders, Restore(o) PROVE PayInv'
<1>1. vtask = [at |-> "restoring", op |-> o] /\ UNCHANGED <<payers, mint, relay>>
  BY DEF Restore
<1>2. /\ orders[o].swap /\ orders[o].registered /\ orders[o].state # "settled"
      /\ \E q \in Payers : orders[o].token = Token(q, o)
  BY <1>1, SwapFacts
<1>3. ASSUME Fresh(o) \in signed, Settle(o), UNCHANGED faults PROVE PayInv'
  <2>1. PICK q \in Payers : orders[o].token = Token(q, o)
    BY <1>2
  <2>2. Swapped(q, o)
    BY <1>1, <1>2, <1>3, <2>1 DEF PayInv, MintHolds, SwapHolds, Swapped, mint
  <2> QED
    BY <1>1, <1>2, <1>3, <2>1, <2>2, SettleHolds
<1>4. ASSUME Mark(o, "recoverable"), Rest, UNCHANGED till, Fault \/ UNCHANGED faults PROVE PayInv'
  <2>1. Quiet(o)
    BY <1>1, <1>4, StepNotSwapped DEF PayInv
  <2> QED
    BY <1>1, <1>4, <2>1, QuietRequest
<1> QED
  BY <1>3, <1>4, Zenon DEF Restore

(* The vendor's tab closes, with or without its request.                   *)
LEMMA TakeCloseVendor == ASSUME PayInv, CloseVendor PROVE PayInv'
<1> DEFINE o == vtask.op
<1>1. /\ vtask # Idle /\ Fault /\ Rest /\ UNCHANGED <<orders, till, payers>>
      /\ VendorRequest(o) \/ UNCHANGED <<mint, relay>>
  BY Zenon DEF CloseVendor
<1>2. o \in Orders
  BY <1>1 DEF PayInv, VendorHolds
<1>3. Quiet(o)
  BY <1>1, <1>2, Resting, QuietWait DEF PayInv
<1>4. ASSUME UNCHANGED mint, vtask.at = "registering", RegisterSlot(o) PROVE PayInv'
  <2>1. vtask = [at |-> "registering", op |-> o]
    BY <1>4 DEF PayInv, VendorHolds
  <2>2. orders'[o].state # "cancelled"
    <3>1. TaskHolds("registering", orders[o])
      BY <1>2, <2>1, TaskFacts DEF PayInv
    <3> QED
      BY <1>1, <3>1 DEF TaskHolds
  <2>3. RelayHolds' /\ ToldKeeps
    BY <1>1, <1>2, <1>4, <2>1, <2>2, SlotRegistered
  <2> QED
    BY <1>1, <1>2, <1>3, <1>4, <2>3, Counted, QuietHolds DEF PayInv
<1>5. ASSUME UNCHANGED mint,
             Relay!Read(o) \/ Relay!Acknowledge(o) \/ Relay!Cancel(o) \/ UNCHANGED relay
      PROVE  PayInv'
  BY <1>1, <1>2, <1>3, <1>5, QuietRequest
<1>6. ASSUME vtask.at = "swapping", MintSwap({orders[o].token}, {Fresh(o)}), UNCHANGED relay
      PROVE  PayInv'
  BY <1>1, <1>2, <1>3, <1>6, UnansweredHolds
<1>7. UNCHANGED <<mint, relay>> => UNCHANGED mint /\ UNCHANGED relay
  OBVIOUS
<1> HIDE DEF o
<1> QED
  BY <1>1, <1>4, <1>5, <1>6, <1>7, Zenon DEF VendorRequest
-----------------------------------------------------------------------------
(* What the relay does by itself, and what another wallet makes it do.     *)
LEMMA TakeRelay ==
  ASSUME PayInv, UNCHANGED <<vendor, payers, mint>>, RelayHolds', ToldGrows,
         Fault \/ UNCHANGED faults
  PROVE  PayInv'
<1>1. orders' = orders /\ till' = till /\ vtask' = vtask /\ pay' = pay /\ spent' = spent
  BY DEF vendor, payers, mint
<1>2. VendorHolds'
  <2>1. \A o \in Orders : OrderHolds(o, orders[o])'
    BY <1>1 DEF PayInv, VendorHolds, OrderHolds
  <2> QED
    BY <1>1, <2>1 DEF PayInv, VendorHolds
<1>3. PayersHold'
  BY <1>1, PayersKept DEF PayInv
<1>4. MintHolds'
  BY <1>1, MintKept DEF PayInv
<1>5. \A o \in Orders : ToldHolds(o)'
  BY <1>1, QuietTold DEF PayInv, ToldGrows, ToldKeeps
<1> QED
  BY <1>2, <1>3, <1>4, <1>5, Counted DEF PayInv

LEMMA TakeRelayStep == ASSUME PayInv, RelayStep PROVE PayInv'
<1>1. /\ Relay!Cleanup \/ Relay!Restart \/ Relay!Tick \/ Relay!Crash
      /\ UNCHANGED <<vendor, payers, mint>>
  BY Zenon DEF RelayStep
<1>2. RelayHolds' /\ ToldGrows
  BY <1>1, ServiceHolds DEF PayInv
<1>3. Fault \/ UNCHANGED faults
  BY Zenon DEF RelayStep
<1> QED
  BY <1>1, <1>2, <1>3, TakeRelay

LEMMA TakePayElsewhere == ASSUME PayInv, NEW o \in Orders, PayElsewhere(o) PROVE PayInv'
<1>1. Foreign(o) \in TokensOf(o)
  BY DEF TokensOf
<1>2. Relay!Deliver(o, Payload(o, Foreign(o))) /\ UNCHANGED <<vendor, payers, mint, faults>>
  BY DEF PayElsewhere
<1>3. RelayHolds' /\ ToldGrows
  BY <1>1, <1>2, DeliverHolds DEF PayInv
<1> QED
  BY <1>2, <1>3, TakeRelay
-----------------------------------------------------------------------------
(* The steps of an attendee p that concern an order o.                     *)
Moves(p, o) ==
  /\ pay' \in [Payers -> [Orders -> PaymentRecord]]
  /\ purse' \in [Payers -> SUBSET Proofs]
  /\ \A q \in Payers \ {p} : pay'[q] = pay[q] /\ purse'[q] = purse[q]
  /\ \A r \in Orders \ {o} : pay'[p][r] = pay[p][r]
  /\ UNCHANGED vendor

GoesTo(p, o, at) ==
  /\ DOMAIN ptask' = Payers /\ \A q \in Payers \ {p} : ptask'[q] = ptask[q]
  /\ ptask'[p] \in [at : PayerPlaces, op : 0 .. MaxOrders, first : BOOLEAN]
  /\ IF at = "idle" THEN ptask'[p] = NoTask ELSE ptask'[p].op = o /\ ptask'[p].at = at

(* At most, the mint swaps the proofs that were set aside.                 *)
Spends(p, o) ==
  /\ signed \subseteq signed' /\ signed' \subseteq signed \cup SendOutputs(p, o)
  /\ spent \subseteq spent' /\ spent' \subseteq spent \cup pay[p][o].swap

(* What is drawn is in one place, and its change is added once.            *)
DrawsOnce(p, o) ==
  /\ \A c \in purse'[p] \cup pay'[p][o].swap :
       c \in purse[p] \cup pay[p][o].swap \/ (c = Change(p, o) /\ Made(p, o)')
  /\ Made(p, o) => Made(p, o)'
  /\ \A r \in Orders \ {o} : pay[p][r].swap \cap purse'[p] = {}

LEMMA PayerFacts ==
  ASSUME PayersHold, NEW p \in Payers, NEW o \in Orders
  PROVE  /\ purse[p] \subseteq Funds(p) /\ pay[p][o] \in PaymentRecord
         /\ PaymentHolds(p, pay[p][o], purse[p]) /\ ChangeHolds(p, o)
         /\ pay[p][o].swap \subseteq Funds(p) /\ pay[p][o].swap \cap purse[p] = {}
         /\ pay[p][o].state # "none" => orders[o].registered
         /\ ptask[p] \in [at : PayerPlaces, op : 0 .. MaxOrders, first : BOOLEAN]
BY DEF PayersHold, PayerHolds, PaymentHolds

LEMMA MoveOthers ==
  ASSUME PayersHold, NEW p \in Payers, NEW o \in Orders, Moves(p, o), Spends(p, o),
         NEW at, GoesTo(p, o, at), NEW q \in Payers \ {p}
  PROVE  PayerHolds(q)'
<1>1. /\ pay'[q] = pay[q] /\ purse'[q] = purse[q] /\ ptask'[q] = ptask[q]
      /\ orders' = orders /\ PayerHolds(q)
  BY DEF Moves, GoesTo, PayersHold, vendor
<1>2. \A r \in Orders : ChangeHolds(q, r)'
  <2>1. \A r \in Orders : Change(q, r) \in spent' => Change(q, r) \in spent
    <3>1. pay[p][o].swap \subseteq Funds(p)
      BY PayerFacts
    <3>2. \A r \in Orders : Change(q, r) \in Funds(q)
      BY Kinds
    <3>3. Funds(p) \cap Funds(q) = {}
      BY Kinds
    <3> QED
      BY <3>1, <3>2, <3>3 DEF Spends
  <2> QED
    BY <1>1, <2>1 DEF PayerHolds, ChangeHolds, Made
<1>3. \A r \in Orders : PaymentHolds(q, pay[q][r], purse[q])'
  BY <1>1 DEF PayerHolds, PaymentHolds
<1> QED
  BY <1>1, <1>2, <1>3 DEF PayerHolds

LEMMA MoveDraws ==
  ASSUME PayersHold, NEW p \in Payers, NEW o \in Orders, Moves(p, o), Spends(p, o),
         DrawsOnce(p, o), NEW r \in Orders
  PROVE  ChangeHolds(p, r)'
<1>1. \A s \in Orders : Change(p, s) = Change(p, o) => s = o
  BY Names
<1>2. \A s \in Orders : s # o => pay'[p][s] = pay[p][s]
  BY DEF Moves
<1>3. ChangeHolds(p, r)
  BY PayerFacts
<1>4. ASSUME Change(p, r) \in purse[p] \cup spent \/ \E s \in Orders : Change(p, r) \in pay[p][s].swap
      PROVE  Made(p, r)'
  <2>1. Made(p, r)
    BY <1>3, <1>4 DEF ChangeHolds
  <2> QED
    BY <1>2, <2>1 DEF Made, DrawsOnce
<1>5. ASSUME Change(p, r) \in purse'[p] \cup pay'[p][o].swap PROVE Made(p, r)'
  <2>1. CASE Change(p, r) \in purse[p] \cup pay[p][o].swap
    BY <1>4, <2>1
  <2>2. CASE Change(p, r) = Change(p, o) /\ Made(p, o)'
    BY <1>1, <2>2
  <2> QED
    BY <1>5, <2>1, <2>2 DEF DrawsOnce
<1>6. ASSUME Change(p, r) \in spent' PROVE Made(p, r)'
  BY <1>4, <1>6 DEF Spends
<1>7. ASSUME NEW s \in Orders, Change(p, r) \in pay'[p][s].swap PROVE Made(p, r)'
  BY <1>2, <1>4, <1>5, <1>7
<1> QED
  BY <1>5, <1>6, <1>7 DEF ChangeHolds

LEMMA MoveKeeps ==
  ASSUME PayersHold, NEW p \in Payers, NEW o \in Orders, Moves(p, o), Spends(p, o),
         DrawsOnce(p, o), NEW at \in PayerPlaces, GoesTo(p, o, at),
         PayerTaskHolds(at, pay'[p][o]), PaymentHolds(p, pay'[p][o], purse'[p]),
         pay'[p][o].state # "none" => orders[o].registered,
         purse'[p] \subseteq Funds(p)
  PROVE  PayersHold'
<1>1. \A q \in Payers \ {p} : PayerHolds(q)'
  BY MoveOthers
<1>2. \A r \in Orders : ChangeHolds(p, r)'
  BY MoveDraws
<1>3. ASSUME NEW r \in Orders PROVE PaymentHolds(p, pay[p][r], purse[p])'
  <2>1. CASE r = o
    BY <2>1 DEF PaymentHolds
  <2>2. CASE r # o
    <3>1. pay'[p][r] = pay[p][r] /\ pay[p][r].swap \cap purse'[p] = {}
      BY <2>2 DEF Moves, DrawsOnce
    <3>2. PaymentHolds(p, pay[p][r], purse[p])
      BY PayerFacts
    <3> QED
      BY <3>1, <3>2 DEF PaymentHolds
  <2> QED
    BY <2>1, <2>2
<1>4. \A r \in Orders : pay'[p][r].state # "none" => orders'[r].registered
  BY PayerFacts DEF Moves, vendor
<1>5. pay'[p] \in [Orders -> PaymentRecord]
  BY DEF Moves
<1>6. /\ ptask'[p] \in [at : PayerPlaces, op : 0 .. MaxOrders, first : BOOLEAN]
      /\ ptask'[p] = NoTask
         \/ (ptask'[p].op \in Orders /\ PayerTaskHolds(ptask'[p].at, pay'[p][ptask'[p].op]))
  BY DEF GoesTo
<1>7. PayerHolds(p)'
  BY <1>2, <1>3, <1>4, <1>5, <1>6 DEF PayerHolds, PayerTaskHolds
<1> QED
  BY <1>1, <1>7 DEF PayersHold, Moves, GoesTo

(* The mint after such a step.                                             *)
LEMMA MoveSwaps ==
  ASSUME PayInv, NEW p \in Payers, NEW o \in Orders, Moves(p, o), Spends(p, o), NEW r \in Orders
  PROVE  SwapHolds(r)'
<1>1. pay[p][o].swap \subseteq Funds(p) /\ orders' = orders /\ till' = till
  BY PayerFacts DEF PayInv, Moves, vendor
<1>2. SpentBy(r)' = SpentBy(r)
  <2>1. \A q \in Payers : Token(q, r) \notin Funds(p)
    BY Names DEF Funds
  <2> QED
    BY <1>1, <2>1 DEF Spends, SpentBy
<1>3. Fresh(r) \in signed' <=> Fresh(r) \in signed
  BY Names DEF Spends, SendOutputs
<1>4. SwapHolds(r) /\ spent \subseteq spent'
  BY DEF PayInv, MintHolds, Spends
<1> QED
  BY <1>1, <1>2, <1>3, <1>4 DEF SwapHolds

LEMMA MoveOtherMint ==
  ASSUME PayInv, NEW p \in Payers, NEW o \in Orders, Moves(p, o), Spends(p, o),
         NEW q \in Payers \ {p}
  PROVE  PurseHolds(q)' /\ \A r \in Orders : SendHolds(q, r)'
<1>1. pay'[q] = pay[q] /\ purse'[q] = purse[q] /\ purse[q] \subseteq Funds(q)
  BY PayerFacts DEF PayInv, Moves
<1>2. pay[p][o].swap \cap Funds(q) = {} /\ SendOutputs(p, o) \cap Funds(q) = {}
  <2>1. pay[p][o].swap \subseteq Funds(p) /\ Change(p, o) \in Funds(p)
    BY PayerFacts, Kinds DEF PayInv
  <2>2. Funds(p) \cap Funds(q) = {}
    BY Kinds
  <2>3. Token(p, o) \notin Funds(q)
    BY Names DEF Funds
  <2> QED
    BY <2>1, <2>2, <2>3 DEF SendOutputs
<1>3. PurseHolds(q)'
  <2>1. \A r \in Orders : InPayment(q, r)' = InPayment(q, r)
    BY <1>1 DEF InPayment
  <2>2. PurseHolds(q)
    BY DEF PayInv, MintHolds
  <2> QED
    BY <1>1, <1>2, <2>1, <2>2 DEF PurseHolds, Spends
<1>4. ASSUME NEW r \in Orders PROVE SendHolds(q, r)'
  <2>1. Token(q, r) \notin SendOutputs(p, o)
    BY Names DEF SendOutputs
  <2>2. SendHolds(q, r)
    BY DEF PayInv, MintHolds
  <2> QED
    BY <1>1, <2>1, <2>2 DEF SendHolds, Spends
<1> QED
  BY <1>3, <1>4

LEMMA MoveMint ==
  ASSUME PayInv, NEW p \in Payers, NEW o \in Orders, Moves(p, o), Spends(p, o),
         PurseHolds(p)', SendHolds(p, o)'
  PROVE  MintHolds'
<1>1. \A r \in Orders : SwapHolds(r)'
  BY MoveSwaps
<1>2. \A q \in Payers \ {p} : PurseHolds(q)' /\ \A r \in Orders : SendHolds(q, r)'
  BY MoveOtherMint
<1>3. ASSUME NEW r \in Orders, r # o PROVE SendHolds(p, r)'
  <2>1. Token(p, r) \notin SendOutputs(p, o)
    BY <1>3, Names DEF SendOutputs
  <2>2. SendHolds(p, r) /\ pay'[p][r] = pay[p][r]
    BY <1>3 DEF PayInv, MintHolds, Moves
  <2> QED
    BY <2>1, <2>2 DEF SendHolds, Spends
<1>4. signed' \subseteq Proofs /\ spent' \subseteq OwnTokens \cup UNION {Funds(q) : q \in Payers}
  <2>1. SendOutputs(p, o) \subseteq Proofs
    BY Kinds, Names DEF SendOutputs
  <2>2. pay[p][o].swap \subseteq Funds(p)
    BY PayerFacts DEF PayInv
  <2> QED
    BY <2>1, <2>2 DEF PayInv, MintHolds, Spends
<1>5. till' \subseteq {Fresh(r) : r \in Orders}
  BY DEF PayInv, MintHolds, Moves, vendor
<1> QED
  BY <1>1, <1>2, <1>3, <1>4, <1>5 DEF MintHolds

(* The attendee's live proofs after such a step.                           *)
LEMMA MovePurse ==
  ASSUME PayInv, NEW p \in Payers, NEW o \in Orders, Moves(p, o), Spends(p, o),
         purse'[p] \subseteq signed' \ spent',
         \A c \in purse[p] \cup InPayment(p, o) \cup (SendOutputs(p, o) \ signed) :
           c \in Funds(p) \cap (signed' \ spent') => c \in purse'[p] \cup InPayment(p, o)'
  PROVE  PurseHolds(p)'
<1>1. \A r \in Orders : r # o => InPayment(p, r)' = InPayment(p, r)
  BY DEF Moves, InPayment
<1>2. ASSUME NEW c \in Funds(p) \cap (signed' \ spent')
      PROVE  c \in purse'[p] \cup UNION {InPayment(p, r)' : r \in Orders}
  <2>1. CASE c \in signed
    <3>1. c \in purse[p] \/ \E r \in Orders : c \in InPayment(p, r)
      BY <1>2, <2>1 DEF PayInv, MintHolds, PurseHolds, Spends
    <3> QED
      BY <1>1, <1>2, <3>1
  <2>2. CASE c \notin signed
    BY <1>2, <2>2 DEF Spends
  <2> QED
    BY <2>1, <2>2
<1> QED
  BY <1>2 DEF PurseHolds

LEMMA MoveTold ==
  ASSUME PayInv, NEW p \in Payers, NEW o \in Orders, Moves(p, o), ToldGrows,
         pay'[p][o].delivered => pay[p][o].delivered
  PROVE  \A r \in Orders : ToldHolds(r)'
<1>1. \A q \in Payers, r \in Orders : pay'[q][r].delivered => pay[q][r].delivered
  BY DEF Moves
<1> QED
  BY <1>1, QuietTold DEF PayInv, Moves, vendor, ToldGrows, ToldKeeps

LEMMA VendorKept == ASSUME VendorHolds, UNCHANGED vendor PROVE VendorHolds'
<1>1. orders' = orders /\ vtask' = vtask
  BY DEF vendor
<1>2. \A o \in Orders : OrderHolds(o, orders[o])'
  BY <1>1 DEF VendorHolds, OrderHolds
<1> QED
  BY <1>1, <1>2 DEF VendorHolds

LEMMA MoveHolds ==
  ASSUME PayInv, NEW p \in Payers, NEW o \in Orders, Moves(p, o), PayersHold', MintHolds',
         RelayHolds', ToldGrows, pay'[p][o].delivered => pay[p][o].delivered,
         Fault \/ UNCHANGED faults
  PROVE  PayInv'
<1>1. VendorHolds'
  BY VendorKept DEF PayInv, Moves
<1> QED
  BY <1>1, MoveTold, Counted DEF PayInv

(* A step that leaves the proofs alone.                                    *)
LEMMA QuietMove ==
  ASSUME PayInv, NEW p \in Payers, NEW o \in Orders, Moves(p, o), UNCHANGED mint,
         purse'[p] = purse[p], pay'[p][o].swap = pay[p][o].swap,
         pay[p][o].state # "none" => pay'[p][o].state # "none",
         pay[p][o].token => pay'[p][o].token \/ Token(p, o) \in spent
  PROVE  MintHolds' /\ Spends(p, o) /\ DrawsOnce(p, o)
<1>1. signed' = signed /\ spent' = spent
  BY DEF mint
<1>2. Spends(p, o)
  BY <1>1 DEF Spends
<1>3. DrawsOnce(p, o)
  BY PayerFacts DEF DrawsOnce, Made, PayInv
<1>4. SendHolds(p, o)'
  BY <1>1 DEF PayInv, MintHolds, SendHolds
<1>5. PurseHolds(p)'
  <2>1. Token(p, o) \notin Funds(p)
    BY Names DEF Funds
  <2>2. purse[p] \subseteq signed \ spent
    BY DEF PayInv, MintHolds, PurseHolds
  <2>3. ASSUME NEW c \in Funds(p), c \in InPayment(p, o) PROVE c \in InPayment(p, o)'
    BY <2>1, <2>3 DEF InPayment, Has, SendOutputs
  <2> QED
    BY <1>1, <1>2, <2>2, <2>3, MovePurse
<1> QED
  BY <1>2, <1>3, <1>4, <1>5, MoveMint
-----------------------------------------------------------------------------
LEMMA Going ==
  ASSUME PayersHold, NEW p \in Payers, NEW o \in Orders,
         NEW at \in {"preparing", "restoring", "delivering"},
         \/ \E first \in BOOLEAN : Begin(p, at, o, first)
         \/ Goto(p, at) /\ ptask[p].op = o
  PROVE  GoesTo(p, o, at) /\ at \in PayerPlaces
<1>1. /\ ptask[p] \in [at : PayerPlaces, op : 0 .. MaxOrders, first : BOOLEAN]
      /\ DOMAIN ptask = Payers /\ o \in 0 .. MaxOrders /\ at \in PayerPlaces /\ at # "idle"
  BY PayerFacts, Numbers DEF PayersHold, PayerPlaces
<1>2. CASE \E first \in BOOLEAN : Begin(p, at, o, first)
  BY <1>1, <1>2 DEF Begin, GoesTo
<1>3. CASE Goto(p, at) /\ ptask[p].op = o
  BY <1>1, <1>3 DEF Goto, GoesTo
<1> QED
  BY <1>1, <1>2, <1>3

LEMMA Stopping ==
  ASSUME PayersHold, NEW p \in Payers, NEW o \in Orders,
         Stop(p) \/ (UNCHANGED ptask /\ ptask[p] = NoTask), NEW payment
  PROVE  GoesTo(p, o, "idle") /\ "idle" \in PayerPlaces /\ PayerTaskHolds("idle", payment)
<1>1. /\ DOMAIN ptask = Payers /\ 0 \in 0 .. MaxOrders /\ "idle" \in PayerPlaces
  BY Numbers DEF PayersHold, PayerPlaces
<1>2. NoTask \in [at : PayerPlaces, op : 0 .. MaxOrders, first : BOOLEAN]
  BY <1>1 DEF NoTask
<1> QED
  BY <1>1, <1>2 DEF Stop, GoesTo, PayerTaskHolds

LEMMA PayerTaskFacts ==
  ASSUME PayersHold, NEW p \in Payers, NEW o \in Orders, NEW at, at # "idle", At(p, at, o)
  PROVE  PayerTaskHolds(at, pay[p][o])
BY DEF PayersHold, PayerHolds, At, NoTask

Balances(p, balance) == purse' = [purse EXCEPT ![p] = balance]

LEMMA Moved ==
  ASSUME PayersHold, NEW p \in Payers, NEW o \in Orders, NEW rec \in PaymentRecord,
         NEW balance \in SUBSET Proofs, Record(p, o, rec), Balances(p, balance),
         UNCHANGED vendor
  PROVE  Moves(p, o) /\ pay'[p][o] = rec /\ purse'[p] = balance
<1>1. pay \in [Payers -> [Orders -> PaymentRecord]] /\ purse \in [Payers -> SUBSET Proofs]
  BY DEF PayersHold
<1> QED
  BY <1>1 DEF Record, Moves, Balances

LEMMA MovedOn ==
  ASSUME PayersHold, NEW p \in Payers, NEW o \in Orders, NEW rec \in PaymentRecord,
         Record(p, o, rec), UNCHANGED <<vendor, purse>>
  PROVE  Moves(p, o) /\ pay'[p][o] = rec /\ purse'[p] = purse[p]
<1>1. pay \in [Payers -> [Orders -> PaymentRecord]] /\ purse \in [Payers -> SUBSET Proofs]
  BY DEF PayersHold
<1> QED
  BY <1>1 DEF Record, Moves

LEMMA Waited ==
  ASSUME PayersHold, NEW p \in Payers, NEW o \in Orders, UNCHANGED <<vendor, pay, purse>>
  PROVE  Moves(p, o) /\ pay'[p][o] = pay[p][o] /\ purse'[p] = purse[p]
BY DEF PayersHold, Moves

LEMMA StillRelay == ASSUME PayInv, UNCHANGED relay PROVE RelayHolds' /\ ToldGrows
<1>1. R!SInv'
  BY RelayNext DEF PayInv
<1>2. slots' = slots /\ told' = told
  BY DEF relay
<1> QED
  BY <1>1, <1>2 DEF PayInv, RelayHolds, SlotHolds, ToldGrows

(* An attendee's record changes, and no proof does.                        *)
LEMMA QuietPayer ==
  ASSUME PayInv, NEW p \in Payers, NEW o \in Orders, Moves(p, o), UNCHANGED mint,
         purse'[p] = purse[p], pay'[p][o].swap = pay[p][o].swap,
         pay[p][o].state # "none" <=> pay'[p][o].state # "none",
         pay[p][o].token => pay'[p][o].token \/ Token(p, o) \in spent,
         NEW at \in PayerPlaces, GoesTo(p, o, at), PayerTaskHolds(at, pay'[p][o]),
         PaymentHolds(p, pay'[p][o], purse[p])
  PROVE  PayersHold' /\ MintHolds'
<1>1. MintHolds' /\ Spends(p, o) /\ DrawsOnce(p, o)
  BY QuietMove
<1>2. /\ purse[p] \subseteq Funds(p) /\ PayersHold
      /\ pay[p][o].state # "none" => orders[o].registered
  BY PayerFacts DEF PayInv
<1> QED
  BY <1>1, <1>2, MoveKeeps

LEMMA TakeRetry == ASSUME PayInv, NEW p \in Payers, NEW o \in Orders, RetryDelivery(p, o) PROVE PayInv'
<1>1. /\ UNCHANGED vendor /\ UNCHANGED purse /\ UNCHANGED mint /\ UNCHANGED relay
      /\ UNCHANGED faults /\ CanRetry(pay[p][o]) /\ PayersHold
  BY DEF RetryDelivery, PayInv
<1>2. PaymentHolds(p, pay[p][o], purse[p]) /\ pay[p][o] \in PaymentRecord /\ pay[p][o].state # "none"
  BY <1>1, PayerFacts DEF CanRetry
<1>3. RelayHolds' /\ ToldGrows
  BY <1>1, StillRelay
<1>4. ASSUME pay[p][o].token, Begin(p, "delivering", o, FALSE),
             Record(p, o, [pay[p][o] EXCEPT !.state = "delivering", !.retry = "yes"])
      PROVE  PayInv'
  <2> DEFINE rec == [pay[p][o] EXCEPT !.state = "delivering", !.retry = "yes"]
  <2>1. /\ rec \in PaymentRecord /\ rec.state = "delivering" /\ rec.retry = "yes"
        /\ rec.swap = pay[p][o].swap /\ rec.token /\ rec.delivered = pay[p][o].delivered
    BY <1>2, <1>4 DEF PaymentRecord, PaymentStates
  <2>2. Record(p, o, rec)
    BY <1>4
  <2> HIDE DEF rec
  <2>3. ~pay[p][o].delivered
    BY <1>1 DEF CanRetry
  <2>4. PaymentHolds(p, rec, purse[p]) /\ PayerTaskHolds("delivering", rec)
    BY <1>2, <1>4, <2>1, <2>3 DEF PaymentHolds, PayerTaskHolds
  <2>5. GoesTo(p, o, "delivering") /\ "delivering" \in PayerPlaces
    BY <1>1, <1>4, Going
  <2>6. Moves(p, o) /\ pay'[p][o] = rec /\ purse'[p] = purse[p]
    BY <1>1, <2>1, <2>2, MovedOn
  <2>7. PayersHold' /\ MintHolds'
    BY <1>1, <1>2, <2>1, <2>4, <2>5, <2>6, QuietPayer
  <2> QED
    BY <1>1, <1>3, <2>1, <2>6, <2>7, MoveHolds
<1>5. ASSUME ~pay[p][o].token, Begin(p, "preparing", o, FALSE), UNCHANGED pay PROVE PayInv'
  <2>1. Moves(p, o) /\ pay'[p][o] = pay[p][o] /\ purse'[p] = purse[p]
    BY <1>1, <1>5, Waited
  <2>2. PayerTaskHolds("preparing", pay[p][o])
    BY <1>1, <1>2, <1>5 DEF PayerTaskHolds, PaymentHolds, CanRetry
  <2>3. GoesTo(p, o, "preparing") /\ "preparing" \in PayerPlaces
    BY <1>1, <1>5, Going
  <2>4. PayersHold' /\ MintHolds'
    BY <1>1, <1>2, <2>1, <2>2, <2>3, QuietPayer
  <2> QED
    BY <1>1, <1>3, <2>1, <2>4, MoveHolds
<1> QED
  BY <1>4, <1>5, Zenon DEF RetryDelivery

LEMMA TakeCheck == ASSUME PayInv, NEW p \in Payers, NEW o \in Orders, CheckPayment(p, o) PROVE PayInv'
<1> DEFINE payment == pay[p][o]
<1>1. /\ UNCHANGED vendor /\ UNCHANGED purse /\ UNCHANGED ptask /\ UNCHANGED mint
      /\ UNCHANGED relay /\ ptask[p] = NoTask /\ payment.token /\ PayersHold
      /\ Fault \/ UNCHANGED faults
  BY Zenon DEF CheckPayment, PayInv
<1>2. payment.state \in {"delivered", "unspent", "recoverable"}
  BY Zenon DEF CheckPayment
<1>3. PaymentHolds(p, payment, purse[p]) /\ payment \in PaymentRecord
  BY <1>1, PayerFacts
<1>4. payment.swap = {} /\ payment.state # "none"
  BY <1>1, <1>2, <1>3 DEF PaymentHolds
<1>5. RelayHolds' /\ ToldGrows
  BY <1>1, StillRelay
<1>6. ASSUME NEW rec, rec \in PaymentRecord, PaymentHolds(p, rec, purse[p]), rec.swap = {},
             rec.state # "none", rec.delivered = payment.delivered,
             rec.token \/ Token(p, o) \in spent, Record(p, o, rec)
      PROVE  PayInv'
  <2>1. Moves(p, o) /\ pay'[p][o] = rec /\ purse'[p] = purse[p]
    BY <1>1, <1>6, MovedOn
  <2>2. GoesTo(p, o, "idle") /\ "idle" \in PayerPlaces /\ PayerTaskHolds("idle", rec)
    BY <1>1, Stopping
  <2>3. PayersHold' /\ MintHolds'
    BY <1>1, <1>4, <1>6, <2>1, <2>2, QuietPayer
  <2> QED
    BY <1>1, <1>5, <1>6, <2>1, <2>3, MoveHolds
<1>7. ASSUME Token(p, o) \in spent,
             Record(p, o, [payment EXCEPT !.state = "spent", !.token = FALSE, !.retry = "unset"])
      PROVE  PayInv'
  <2> DEFINE rec == [payment EXCEPT !.state = "spent", !.token = FALSE, !.retry = "unset"]
  <2>1. /\ rec \in PaymentRecord /\ rec.state = "spent" /\ rec.swap = {} /\ ~rec.token
        /\ rec.retry = "unset" /\ rec.delivered = payment.delivered
    BY <1>3, <1>4 DEF PaymentRecord, PaymentStates
  <2>2. Record(p, o, rec)
    BY <1>7
  <2> HIDE DEF rec
  <2>3. PaymentHolds(p, rec, purse[p])
    BY <2>1 DEF PaymentHolds
  <2> QED
    BY <1>6, <1>7, <2>1, <2>2, <2>3
<1>8. ASSUME UNCHANGED pay PROVE PayInv'
  <2>1. Moves(p, o) /\ pay'[p][o] = payment /\ purse'[p] = purse[p]
    BY <1>1, <1>8, Waited
  <2>2. GoesTo(p, o, "idle") /\ "idle" \in PayerPlaces /\ PayerTaskHolds("idle", payment)
    BY <1>1, Stopping
  <2>3. PayersHold' /\ MintHolds'
    BY <1>1, <1>3, <1>4, <2>1, <2>2, QuietPayer
  <2> QED
    BY <1>1, <1>5, <2>1, <2>3, MoveHolds
<1>9. ASSUME payment.retry # "no" \/ payment.delivered,
             Record(p, o, [payment EXCEPT !.state = "unspent"])
      PROVE  PayInv'
  <2> DEFINE rec == [payment EXCEPT !.state = "unspent"]
  <2>1. /\ rec \in PaymentRecord /\ rec.state = "unspent" /\ rec.swap = {} /\ rec.token
        /\ rec.retry = payment.retry /\ rec.delivered = payment.delivered
    BY <1>1, <1>3, <1>4 DEF PaymentRecord, PaymentStates
  <2>2. Record(p, o, rec)
    BY <1>9
  <2> HIDE DEF rec
  <2>3. PaymentHolds(p, rec, purse[p])
    BY <1>3, <1>9, <2>1 DEF PaymentHolds
  <2> QED
    BY <1>6, <2>1, <2>2, <2>3
<1>10. ASSUME Record(p, o, [payment EXCEPT !.state = "recoverable"]) PROVE PayInv'
  <2> DEFINE rec == [payment EXCEPT !.state = "recoverable"]
  <2>1. /\ rec \in PaymentRecord /\ rec.state = "recoverable" /\ rec.swap = {} /\ rec.token
        /\ rec.retry = payment.retry /\ rec.delivered = payment.delivered
    BY <1>1, <1>3, <1>4 DEF PaymentRecord, PaymentStates
  <2>2. Record(p, o, rec)
    BY <1>10
  <2> HIDE DEF rec
  <2>3. PaymentHolds(p, rec, purse[p])
    BY <1>3, <2>1 DEF PaymentHolds
  <2> QED
    BY <1>6, <2>1, <2>2, <2>3
<1> QED
  BY <1>7, <1>8, <1>9, <1>10, Zenon DEF CheckPayment

LEMMA TakeDeliver == ASSUME PayInv, NEW p \in Payers, NEW o \in Orders, Deliver(p, o) PROVE PayInv'
<1> DEFINE payment == pay[p][o]
           Request == Relay!Deliver(o, Payload(o, Token(p, o)))
<1>1. /\ UNCHANGED vendor /\ UNCHANGED purse /\ UNCHANGED mint /\ At(p, "delivering", o) /\ Stop(p)
      /\ PayersHold
  BY Zenon DEF Deliver, PayInv
<1>2. PaymentHolds(p, payment, purse[p]) /\ payment \in PaymentRecord
  BY <1>1, PayerFacts
<1>3. payment.state = "delivering" /\ ~payment.delivered
  BY <1>1, PayerTaskFacts DEF PayerTaskHolds
<1>4. payment.swap = {} /\ payment.token
  BY <1>2, <1>3 DEF PaymentHolds
<1>5. ASSUME NEW rec, rec \in PaymentRecord, PaymentHolds(p, rec, purse[p]), rec.swap = {},
             rec.state # "none", rec.token, Record(p, o, rec)
      PROVE  Moves(p, o) /\ pay'[p][o] = rec /\ PayersHold' /\ MintHolds'
  <2>1. Moves(p, o) /\ pay'[p][o] = rec /\ purse'[p] = purse[p]
    BY <1>1, <1>5, MovedOn
  <2>2. GoesTo(p, o, "idle") /\ "idle" \in PayerPlaces /\ PayerTaskHolds("idle", rec)
    BY <1>1, Stopping
  <2>3. PayersHold' /\ MintHolds'
    BY <1>1, <1>3, <1>4, <1>5, <2>1, <2>2, QuietPayer
  <2> QED
    BY <2>1, <2>3
<1>6. Request => /\ RelayHolds' /\ ToldGrows /\ o \in DOMAIN slots /\ o \in DOMAIN slots'
                 /\ "stored" \in told'[o]
  BY Kinds, DeliverHolds DEF PayInv
<1>7. ASSUME NEW retry \in {"yes", "no"}, Request \/ UNCHANGED relay, Fault \/ UNCHANGED faults,
             Record(p, o, [payment EXCEPT !.state = "recoverable", !.retry = retry])
      PROVE  PayInv'
  <2> DEFINE rec == [payment EXCEPT !.state = "recoverable", !.retry = retry]
  <2>1. /\ rec \in PaymentRecord /\ rec.state = "recoverable" /\ rec.swap = {} /\ rec.token
        /\ rec.retry = retry /\ ~rec.delivered
    BY <1>2, <1>3, <1>4 DEF PaymentRecord, PaymentStates
  <2>2. Record(p, o, rec)
    BY <1>7
  <2> HIDE DEF rec
  <2>3. PaymentHolds(p, rec, purse[p])
    BY <2>1 DEF PaymentHolds
  <2>4. Moves(p, o) /\ pay'[p][o] = rec /\ PayersHold' /\ MintHolds'
    BY <1>5, <2>1, <2>2, <2>3
  <2>5. RelayHolds' /\ ToldGrows
    BY <1>6, <1>7, StillRelay
  <2> QED
    BY <1>7, <2>1, <2>4, <2>5, MoveHolds
<1>8. ASSUME Request, UNCHANGED faults,
             Record(p, o, [[payment EXCEPT !.state = "delivered", !.retry = "unset"]
                             EXCEPT !.delivered = TRUE])
      PROVE  PayInv'
  <2> DEFINE mid == [payment EXCEPT !.state = "delivered", !.retry = "unset"]
             rec == [mid EXCEPT !.delivered = TRUE]
  <2>1. /\ mid \in PaymentRecord /\ mid.state = "delivered" /\ mid.swap = {} /\ mid.token
        /\ mid.retry = "unset"
    BY <1>2, <1>4 DEF PaymentRecord, PaymentStates
  <2>2. Record(p, o, rec)
    BY <1>8
  <2> HIDE DEF mid
  <2>3. /\ rec \in PaymentRecord /\ rec.state = "delivered" /\ rec.swap = {} /\ rec.token
        /\ rec.retry = "unset" /\ rec.delivered
    BY <2>1 DEF PaymentRecord
  <2> HIDE DEF rec
  <2>4. PaymentHolds(p, rec, purse[p])
    BY <2>3 DEF PaymentHolds
  <2>5. Moves(p, o) /\ pay'[p][o] = rec /\ PayersHold' /\ MintHolds'
    BY <1>5, <2>2, <2>3, <2>4
  <2>6. SlotsTold'
    <3>1. R!SInv'
      BY <1>6, <1>8 DEF RelayHolds
    <3> QED
      BY <3>1, ToldOnce, PTL
  <2>7. orders[o].state # "cancelled"
    BY <1>6, <1>8, <2>6 DEF SlotsTold, ToldGrows, PayInv, ToldHolds
  <2>8. orders' = orders
    BY <2>5 DEF Moves, vendor
  <2>9. ToldHolds(o)'
    BY <1>6, <1>8, <2>7, <2>8 DEF ToldHolds
  <2>10. ASSUME NEW r \in Orders, r # o PROVE ToldHolds(r)'
    <3>1. \A q \in Payers : pay'[q][r] = pay[q][r]
      BY <2>5, <2>10 DEF Moves
    <3> QED
      BY <1>6, <1>8, <2>8, <3>1 DEF PayInv, ToldHolds, ToldGrows
  <2>11. VendorHolds'
    BY <1>1, VendorKept DEF PayInv
  <2> QED
    BY <1>6, <1>8, <2>5, <2>9, <2>10, <2>11, Counted DEF PayInv
<1>9. \/ /\ Request /\ UNCHANGED faults
         /\ Record(p, o, [[payment EXCEPT !.state = "delivered", !.retry = "unset"]
                            EXCEPT !.delivered = TRUE])
      \/ /\ UNCHANGED relay /\ UNCHANGED faults
         /\ Record(p, o, [payment EXCEPT !.state = "recoverable", !.retry = "no"])
      \/ /\ Request \/ UNCHANGED relay
         /\ Fault \/ UNCHANGED faults
         /\ Record(p, o, [payment EXCEPT !.state = "recoverable", !.retry = "yes"])
  BY Zenon DEF Deliver, Fails
<1> HIDE DEF payment, Request
<1> QED
  BY <1>7, <1>8, <1>9
-----------------------------------------------------------------------------
LEMMA TakeConfirm ==
  ASSUME PayInv, NEW p \in Payers, NEW o \in Orders, NEW send \in SUBSET purse[p],
         ConfirmPayment(p, o, send)
  PROVE  PayInv'
<1> DEFINE rec == [pay[p][o] EXCEPT !.state = "preparing", !.swap = send]
           balance == purse[p] \ send
<1>1. /\ UNCHANGED vendor /\ UNCHANGED mint /\ UNCHANGED relay /\ UNCHANGED faults /\ PayersHold
      /\ pay[p][o].state = "none" /\ send # {} /\ orders[o].registered
      /\ Record(p, o, rec) /\ Balances(p, balance)
      /\ Begin(p, "preparing", o, TRUE)
  BY DEF ConfirmPayment, PayInv, Balances
<1>2. /\ PaymentHolds(p, pay[p][o], purse[p]) /\ pay[p][o] \in PaymentRecord
      /\ purse[p] \subseteq Funds(p) /\ Funds(p) \subseteq Proofs
  BY <1>1, PayerFacts, Kinds
<1>3. /\ pay[p][o].swap = {} /\ ~pay[p][o].token /\ pay[p][o].retry = "unset"
      /\ ~pay[p][o].delivered
  BY <1>1, <1>2 DEF PaymentHolds
<1>4. /\ rec \in PaymentRecord /\ rec.state = "preparing" /\ rec.swap = send /\ ~rec.token
      /\ rec.retry = "unset" /\ ~rec.delivered
  BY <1>2, <1>3 DEF PaymentRecord, PaymentStates
<1>0. balance \in SUBSET Proofs
  BY <1>2
<1> HIDE DEF rec, balance
<1>5. Moves(p, o) /\ pay'[p][o] = rec /\ purse'[p] = balance
  BY <1>0, <1>1, <1>4, Moved
<1> USE DEF balance
<1>6. PaymentHolds(p, rec, balance) /\ PayerTaskHolds("preparing", rec)
  BY <1>1, <1>2, <1>4 DEF PaymentHolds, PayerTaskHolds
<1>7. GoesTo(p, o, "preparing") /\ "preparing" \in PayerPlaces
  BY <1>1, Going
<1>8. Spends(p, o)
  BY <1>1 DEF Spends, mint
<1>9. DrawsOnce(p, o)
  BY <1>1, <1>3, <1>4, <1>5, PayerFacts DEF DrawsOnce, Made
<1>10. PayersHold'
  BY <1>1, <1>2, <1>5, <1>6, <1>7, <1>8, <1>9, MoveKeeps
<1>11. PurseHolds(p) /\ SendHolds(p, o)
  BY DEF PayInv, MintHolds
<1>12. PurseHolds(p)'
  <2>1. purse'[p] \subseteq signed' \ spent'
    BY <1>1, <1>5, <1>11 DEF PurseHolds, mint
  <2>2. InPayment(p, o) = {}
    BY <1>3 DEF InPayment, Has
  <2>3. send \subseteq InPayment(p, o)'
    BY <1>4, <1>5 DEF InPayment
  <2>4. \A c \in SendOutputs(p, o) \ signed : c \notin signed'
    BY <1>1 DEF mint
  <2> QED
    BY <1>5, <1>8, <2>1, <2>2, <2>3, <2>4, MovePurse
<1>13. SendHolds(p, o)'
  BY <1>1, <1>3, <1>5, <1>11 DEF SendHolds, mint
<1>14. MintHolds'
  BY <1>5, <1>8, <1>12, <1>13, MoveMint
<1>15. RelayHolds' /\ ToldGrows
  BY <1>1, StillRelay
<1> QED
  BY <1>1, <1>4, <1>5, <1>10, <1>14, <1>15, MoveHolds

(* A payment that is being prepared.                                       *)
LEMMA SendFacts ==
  ASSUME PayInv, NEW p \in Payers, NEW o \in Orders, pay[p][o].swap # {}
  PROVE  /\ PaymentHolds(p, pay[p][o], purse[p]) /\ pay[p][o] \in PaymentRecord
         /\ ~pay[p][o].token /\ pay[p][o].retry = "unset" /\ ~pay[p][o].delivered
         /\ pay[p][o].state \in {"preparing", "recoverable"} /\ orders[o].registered
         /\ Change(p, o) \notin purse[p] \cup spent
         /\ \A r \in Orders : Change(p, o) \notin pay[p][r].swap
         /\ pay[p][o].swap \subseteq Funds(p) /\ purse[p] \subseteq Funds(p)
<1>1. PaymentHolds(p, pay[p][o], purse[p]) /\ pay[p][o] \in PaymentRecord /\ ChangeHolds(p, o)
  BY PayerFacts DEF PayInv
<1>2. /\ ~pay[p][o].token /\ pay[p][o].retry = "unset" /\ ~pay[p][o].delivered
      /\ pay[p][o].state \in {"preparing", "recoverable"}
  BY <1>1 DEF PaymentHolds, PaymentRecord
<1> QED
  BY <1>1, <1>2, PayerFacts DEF ChangeHolds, Made, PayInv

(* A preparation that ends: its proofs are spent, its outputs signed.      *)
LEMMA ReadyHolds ==
  ASSUME PayInv, NEW p \in Payers, NEW o \in Orders, pay[p][o].swap # {}, ptask[p].op = o,
         Ready(p, o), signed' = signed \cup SendOutputs(p, o), spent' = spent \cup pay[p][o].swap,
         UNCHANGED vendor, UNCHANGED relay, UNCHANGED faults
  PROVE  PayInv'
<1> DEFINE rec == [pay[p][o] EXCEPT !.state = "delivering", !.swap = {}, !.token = TRUE,
                                    !.retry = "yes"]
           balance == purse[p] \cup {Change(p, o)}
<1>1. /\ PaymentHolds(p, pay[p][o], purse[p]) /\ pay[p][o] \in PaymentRecord
      /\ ~pay[p][o].token /\ ~pay[p][o].delivered /\ orders[o].registered
      /\ Change(p, o) \notin purse[p] \cup spent
      /\ \A r \in Orders : Change(p, o) \notin pay[p][r].swap
      /\ pay[p][o].swap \subseteq Funds(p) /\ purse[p] \subseteq Funds(p) /\ PayersHold
  BY SendFacts DEF PayInv
<1>2. Record(p, o, rec) /\ Balances(p, balance) /\ Goto(p, "delivering")
  BY DEF Ready, Balances
<1>3. /\ rec \in PaymentRecord /\ rec.state = "delivering" /\ rec.swap = {} /\ rec.token
      /\ rec.retry = "yes" /\ ~rec.delivered
  BY <1>1 DEF PaymentRecord, PaymentStates
<1>0. balance \in SUBSET Proofs
  BY <1>1, Kinds
<1> HIDE DEF rec, balance
<1>4. Moves(p, o) /\ pay'[p][o] = rec /\ purse'[p] = balance
  BY <1>0, <1>1, <1>2, <1>3, Moved
<1> USE DEF balance
<1>5. PaymentHolds(p, rec, balance) /\ PayerTaskHolds("delivering", rec)
  BY <1>3 DEF PaymentHolds, PayerTaskHolds
<1>6. GoesTo(p, o, "delivering") /\ "delivering" \in PayerPlaces
  BY <1>1, <1>2, Going
<1>7. Spends(p, o)
  BY DEF Spends
<1>8. DrawsOnce(p, o)
  <2>1. Made(p, o)' /\ ~Made(p, o)
    BY <1>3, <1>4 DEF Made
  <2>2. \A r \in Orders \ {o} : pay[p][r].swap \cap purse[p] = {}
    BY <1>1, PayerFacts
  <2> QED
    BY <1>1, <1>3, <1>4, <2>1, <2>2 DEF DrawsOnce
<1>9. balance \subseteq Funds(p) /\ Token(p, o) \notin Funds(p)
  BY <1>1, Kinds, Names DEF Funds
<1>10. PayersHold'
  BY <1>1, <1>4, <1>5, <1>6, <1>7, <1>8, <1>9, MoveKeeps
<1>11. PurseHolds(p)'
  <2>1. purse[p] \subseteq signed \ spent /\ purse[p] \cap pay[p][o].swap = {}
    BY <1>1 DEF PayInv, MintHolds, PurseHolds, PaymentHolds
  <2>2. purse'[p] \subseteq signed' \ spent'
    BY <1>1, <1>4, <2>1 DEF SendOutputs
  <2>3. InPayment(p, o) \subseteq pay[p][o].swap \cup SendOutputs(p, o)
    BY <1>1 DEF InPayment, Has
  <2>4. \A c \in SendOutputs(p, o) : c \in Funds(p) => c \in purse'[p]
    BY <1>4, <1>9 DEF SendOutputs
  <2> QED
    BY <1>4, <1>7, <2>2, <2>3, <2>4, MovePurse
<1>12. SendHolds(p, o)'
  BY <1>3, <1>4 DEF SendHolds
<1>13. MintHolds'
  BY <1>4, <1>7, <1>11, <1>12, MoveMint
<1>14. RelayHolds' /\ ToldGrows
  BY StillRelay
<1> QED
  BY <1>3, <1>4, <1>10, <1>13, <1>14, MoveHolds

(* A preparation that is not answered, swapped or not.                     *)
LEMMA UnansweredSend ==
  ASSUME PayInv, NEW p \in Payers, NEW o \in Orders, pay[p][o].swap # {},
         MintSwap(pay[p][o].swap, SendOutputs(p, o)) \/ UNCHANGED mint,
         UNCHANGED vendor, UNCHANGED pay, UNCHANGED purse, UNCHANGED relay,
         Fault \/ UNCHANGED faults,
         NEW at \in {"idle", "restoring"}, GoesTo(p, o, at)
  PROVE  PayInv'
<1>1. /\ PaymentHolds(p, pay[p][o], purse[p]) /\ pay[p][o] \in PaymentRecord
      /\ Change(p, o) \notin purse[p] \cup spent /\ pay[p][o].state # "none"
      /\ pay[p][o].swap \subseteq Funds(p) /\ purse[p] \subseteq Funds(p) /\ PayersHold
      /\ orders[o].registered
  BY SendFacts DEF PayInv
<1>2. Moves(p, o) /\ pay'[p][o] = pay[p][o] /\ purse'[p] = purse[p]
  BY <1>1, Waited
<1>3. Spends(p, o)
  BY DEF MintSwap, Spends, mint
<1>4. DrawsOnce(p, o)
  BY <1>1, <1>2, PayerFacts DEF DrawsOnce, Made
<1>5. at \in PayerPlaces /\ PayerTaskHolds(at, pay[p][o])
  BY DEF PayerPlaces, PayerTaskHolds
<1>6. PayersHold'
  BY <1>1, <1>2, <1>3, <1>4, <1>5, MoveKeeps
<1>7. PurseHolds(p) /\ SendHolds(p, o)
  BY DEF PayInv, MintHolds
<1>8. InPayment(p, o)' = InPayment(p, o) /\ SendOutputs(p, o) \subseteq InPayment(p, o)
  BY <1>2 DEF InPayment, Has
<1>9. PurseHolds(p)'
  <2>1. purse'[p] \subseteq signed' \ spent'
    BY <1>1, <1>2, <1>3, <1>7 DEF PurseHolds, Spends, PaymentHolds
  <2> QED
    BY <1>2, <1>3, <1>8, <2>1, MovePurse
<1>10. SendHolds(p, o)'
  BY <1>1, <1>2, <1>7 DEF SendHolds, MintSwap, mint
<1>11. MintHolds'
  BY <1>2, <1>3, <1>9, <1>10, MoveMint
<1>12. RelayHolds' /\ ToldGrows
  BY StillRelay
<1> QED
  BY <1>2, <1>6, <1>11, <1>12, MoveHolds

LEMMA TakePrepare == ASSUME PayInv, NEW p \in Payers, NEW o \in Orders, Prepare(p, o) PROVE PayInv'
<1>1. /\ UNCHANGED vendor /\ UNCHANGED relay /\ At(p, "preparing", o) /\ PayersHold
      /\ ptask[p].op = o
  BY Zenon DEF Prepare, PayInv, At
<1>2. pay[p][o].swap # {}
  BY <1>1, PayerTaskFacts DEF PayerTaskHolds
<1>3. ASSUME MintSwap(pay[p][o].swap, SendOutputs(p, o)), Ready(p, o), UNCHANGED faults
      PROVE  PayInv'
  <2>1. signed' = signed \cup SendOutputs(p, o) /\ spent' = spent \cup pay[p][o].swap
    BY <1>3 DEF MintSwap
  <2> QED
    BY <1>1, <1>2, <1>3, <2>1, ReadyHolds
<1>4. ASSUME MintSwap(pay[p][o].swap, SendOutputs(p, o)) \/ UNCHANGED mint, Goto(p, "restoring"),
             UNCHANGED pay, UNCHANGED purse, Fault \/ UNCHANGED faults
      PROVE  PayInv'
  <2>1. GoesTo(p, o, "restoring")
    BY <1>1, <1>4, Going
  <2> QED
    BY <1>1, <1>2, <1>4, <2>1, UnansweredSend
<1>5. UNCHANGED <<pay, purse>> => UNCHANGED pay /\ UNCHANGED purse
  OBVIOUS
<1>6. UNCHANGED <<mint, faults>> => UNCHANGED mint /\ UNCHANGED faults
  OBVIOUS
<1> QED
  BY <1>3, <1>4, <1>5, <1>6, Zenon DEF Prepare

LEMMA TakeRestoreSend ==
  ASSUME PayInv, NEW p \in Payers, NEW o \in Orders, RestoreSend(p, o) PROVE PayInv'
<1>1. /\ UNCHANGED vendor /\ UNCHANGED mint /\ UNCHANGED relay /\ At(p, "restoring", o)
      /\ PayersHold /\ ptask[p].op = o
  BY DEF RestoreSend, PayInv, At
<1>2. pay[p][o].swap # {}
  BY <1>1, PayerTaskFacts DEF PayerTaskHolds
<1>3. /\ PaymentHolds(p, pay[p][o], purse[p]) /\ pay[p][o] \in PaymentRecord
      /\ ~pay[p][o].token /\ pay[p][o].retry = "unset" /\ ~pay[p][o].delivered
      /\ pay[p][o].state # "none"
  BY <1>2, SendFacts
<1>4. ASSUME SendOutputs(p, o) \subseteq signed, Ready(p, o), UNCHANGED faults PROVE PayInv'
  <2>1. pay[p][o].swap \subseteq spent
    BY <1>4 DEF PayInv, MintHolds, SendHolds, SendOutputs
  <2>2. signed' = signed \cup SendOutputs(p, o) /\ spent' = spent \cup pay[p][o].swap
    BY <1>1, <1>4, <2>1 DEF mint
  <2> QED
    BY <1>1, <1>2, <1>4, <2>2, ReadyHolds
<1>5. ASSUME UNCHANGED pay, Stop(p), UNCHANGED purse, Fault \/ UNCHANGED faults PROVE PayInv'
  <2>1. GoesTo(p, o, "idle")
    BY <1>1, <1>5, Stopping
  <2> QED
    BY <1>1, <1>2, <1>5, <2>1, UnansweredSend
<1>6. ASSUME Record(p, o, [pay[p][o] EXCEPT !.state = "recoverable"]), Stop(p), UNCHANGED purse,
             Fault \/ UNCHANGED faults
      PROVE  PayInv'
  <2> DEFINE rec == [pay[p][o] EXCEPT !.state = "recoverable"]
  <2>1. /\ rec \in PaymentRecord /\ rec.state = "recoverable" /\ rec.swap = pay[p][o].swap
        /\ ~rec.token /\ rec.retry = "unset" /\ ~rec.delivered
    BY <1>3 DEF PaymentRecord, PaymentStates
  <2>2. Record(p, o, rec)
    BY <1>6
  <2> HIDE DEF rec
  <2>3. PaymentHolds(p, rec, purse[p])
    BY <1>2, <1>3, <2>1 DEF PaymentHolds
  <2>4. Moves(p, o) /\ pay'[p][o] = rec /\ purse'[p] = purse[p]
    BY <1>1, <1>6, <2>1, <2>2, MovedOn
  <2>5. GoesTo(p, o, "idle") /\ "idle" \in PayerPlaces /\ PayerTaskHolds("idle", rec)
    BY <1>1, <1>6, Stopping
  <2>6. PayersHold' /\ MintHolds'
    BY <1>1, <1>3, <2>1, <2>3, <2>4, <2>5, QuietPayer
  <2>7. RelayHolds' /\ ToldGrows
    BY <1>1, StillRelay
  <2> QED
    BY <1>3, <1>6, <2>1, <2>4, <2>6, <2>7, MoveHolds
<1> QED
  BY <1>4, <1>5, <1>6, Zenon DEF RestoreSend

(* An attendee's tab closes, with or without its request.                  *)
LEMMA TakeClosePayer == ASSUME PayInv, NEW p \in Payers, ClosePayer(p) PROVE PayInv'
<1> DEFINE o == ptask[p].op
<1>1. /\ UNCHANGED vendor /\ UNCHANGED pay /\ UNCHANGED purse /\ Stop(p) /\ Fault /\ PayersHold
      /\ PayerRequest(p, o) \/ UNCHANGED <<mint, relay>>
  BY Zenon DEF ClosePayer, PayInv
<1>2. o \in Orders /\ PayerTaskHolds(ptask[p].at, pay[p][o])
  BY DEF ClosePayer, PayInv, PayersHold, PayerHolds
<1>3. GoesTo(p, o, "idle") /\ "idle" \in PayerPlaces /\ PayerTaskHolds("idle", pay[p][o])
  BY <1>1, <1>2, Stopping
<1> HIDE DEF o
<1>4. ASSUME ptask[p].at = "preparing", MintSwap(pay[p][o].swap, SendOutputs(p, o)), UNCHANGED relay
      PROVE  PayInv'
  <2>1. pay[p][o].swap # {}
    BY <1>2, <1>4 DEF PayerTaskHolds
  <2> QED
    BY <1>1, <1>2, <1>3, <1>4, <2>1, UnansweredSend
<1>5. ASSUME Relay!Deliver(o, Payload(o, Token(p, o))) \/ UNCHANGED relay, UNCHANGED mint
      PROVE  PayInv'
  <2>1. Moves(p, o) /\ pay'[p][o] = pay[p][o] /\ purse'[p] = purse[p]
    BY <1>1, <1>2, Waited
  <2>2. PaymentHolds(p, pay[p][o], purse[p])
    BY <1>1, <1>2, PayerFacts
  <2>3. PayersHold' /\ MintHolds'
    BY <1>2, <1>3, <1>5, <2>1, <2>2, QuietPayer
  <2>4. RelayHolds' /\ ToldGrows
    <3>1. CASE Relay!Deliver(o, Payload(o, Token(p, o)))
      BY <1>2, <3>1, Kinds, DeliverHolds DEF PayInv
    <3> QED
      BY <1>5, <3>1, StillRelay
  <2> QED
    BY <1>1, <1>2, <2>1, <2>3, <2>4, MoveHolds
<1>6. UNCHANGED <<mint, relay>> => UNCHANGED mint /\ UNCHANGED relay
  OBVIOUS
<1> QED
  BY <1>1, <1>4, <1>5, <1>6, Zenon DEF PayerRequest
-----------------------------------------------------------------------------
(* The initial states.                                                     *)
LEMMA InitVendor == Init => VendorHolds
<1> SUFFICES ASSUME Init PROVE VendorHolds
  OBVIOUS
<1> DEFINE rec == [state |-> "none", key |-> FALSE, cap |-> FALSE, registered |-> FALSE,
                   acked |-> FALSE, token |-> None, swap |-> FALSE, expiresAt |-> 0]
<1>1. orders = [o \in Orders |-> rec] /\ vtask = Idle
  BY DEF Init
<1>2. rec \in OrderRecord
  BY DEF OrderRecord, OrderStates
<1>3. /\ rec.state = "none" /\ ~rec.key /\ ~rec.cap /\ ~rec.registered /\ rec.token = None
      /\ ~rec.swap /\ rec.expiresAt = 0
  OBVIOUS
<1> HIDE DEF rec
<1>4. \A o \in Orders : OrderHolds(o, rec)
  <2>1. rec.expiresAt <= MaxTime + Ttl
    BY <1>3, Numbers
  <2> QED
    BY <1>2, <1>3, <2>1 DEF OrderHolds
<1>5. vtask \in [at : VendorPlaces, op : 0 .. MaxOrders]
  BY <1>1, Numbers DEF Idle, VendorPlaces
<1> QED
  BY <1>1, <1>2, <1>4, <1>5 DEF VendorHolds

LEMMA InitPayers == Init => PayersHold
<1> SUFFICES ASSUME Init PROVE PayersHold
  OBVIOUS
<1> DEFINE rec == [state |-> "none", swap |-> {}, token |-> FALSE, retry |-> "unset",
                   delivered |-> FALSE]
<1>1. /\ pay = [p \in Payers |-> [o \in Orders |-> rec]] /\ purse = [p \in Payers |-> {Seed(p)}]
      /\ ptask = [p \in Payers |-> NoTask] /\ spent = {}
  BY DEF Init
<1>2. rec \in PaymentRecord
  BY DEF PaymentRecord, PaymentStates
<1>3. rec.state = "none" /\ rec.swap = {} /\ ~rec.token /\ rec.retry = "unset" /\ ~rec.delivered
  OBVIOUS
<1> HIDE DEF rec
<1>4. \A p \in Payers : PaymentHolds(p, rec, purse[p])
  BY <1>2, <1>3 DEF PaymentHolds
<1>5. ASSUME NEW p \in Payers, NEW o \in Orders PROVE ChangeHolds(p, o)
  BY <1>1, <1>3, Names DEF ChangeHolds
<1>6. NoTask \in [at : PayerPlaces, op : 0 .. MaxOrders, first : BOOLEAN]
  BY Numbers DEF NoTask, PayerPlaces
<1>7. ASSUME NEW p \in Payers PROVE PayerHolds(p)
  BY <1>1, <1>2, <1>3, <1>4, <1>5, <1>6 DEF PayerHolds, Funds
<1>8. purse \in [Payers -> SUBSET Proofs]
  BY <1>1 DEF Proofs
<1> QED
  BY <1>1, <1>2, <1>7, <1>8 DEF PayersHold

LEMMA InitMint == Init => MintHolds
<1> SUFFICES ASSUME Init PROVE MintHolds
  OBVIOUS
<1>1. /\ signed = {Seed(p) : p \in Payers} /\ spent = {} /\ till = {}
      /\ purse = [p \in Payers |-> {Seed(p)}]
      /\ \A o \in Orders : orders[o].state = "none" /\ ~orders[o].swap
  BY DEF Init
<1>2. ASSUME NEW o \in Orders PROVE SwapHolds(o)
  BY <1>1, Names DEF SwapHolds, SpentBy
<1>3. ASSUME NEW p \in Payers PROVE PurseHolds(p)
  BY <1>1, Names DEF PurseHolds, Funds
<1>4. ASSUME NEW p \in Payers, NEW o \in Orders PROVE SendHolds(p, o)
  BY <1>1, Names DEF SendHolds
<1>5. signed \subseteq Proofs
  BY <1>1 DEF Proofs
<1> QED
  BY <1>1, <1>2, <1>3, <1>4, <1>5 DEF MintHolds

LEMMA InitRelay == Init => RelayHolds
<1> SUFFICES ASSUME Init PROVE RelayHolds
  OBVIOUS
<1>1. R!Init /\ DOMAIN slots = {}
  BY DEF Init, Relay!Init, R!Init
<1> QED
  BY <1>1, RelayAssumed, R!SInit DEF RelayHolds, SlotHolds

LEMMA PayInit == Init => PayInv
<1> SUFFICES ASSUME Init PROVE PayInv
  OBVIOUS
<1>1. \A o \in Orders : ToldHolds(o)
  BY DEF Init, ToldHolds
<1>2. faults \in 0 .. MaxFaults
  BY Numbers DEF Init
<1> QED
  BY <1>1, <1>2, InitVendor, InitPayers, InitMint, InitRelay DEF PayInv

LEMMA PayNext == PayInv /\ [Next]_vars => PayInv'
<1> SUFFICES ASSUME PayInv, [Next]_vars PROVE PayInv'
  OBVIOUS
<1>1. ASSUME UNCHANGED vars PROVE PayInv'
  <2>1. UNCHANGED <<vendor, payers, mint>> /\ UNCHANGED relay /\ UNCHANGED faults
    BY <1>1 DEF vars
  <2> QED
    BY <2>1, StillRelay, TakeRelay
<1>2. ASSUME NEW o \in Orders, CreateOrder(o) \/ PollOrder(o) \/ CancelOrder(o) \/ PayElsewhere(o)
      PROVE  PayInv'
  BY <1>2, TakeQuiet, TakePayElsewhere
<1>3. ASSUME VendorStep PROVE PayInv'
  <2>1. PICK o \in Orders :
          \/ Register(o) \/ Read(o) \/ UseRead(o) \/ Acknowledge(o) \/ CleanUp(o)
          \/ Validate(o) \/ Swap(o) \/ Restore(o) \/ Cancel(o)
    BY <1>3, Zenon DEF VendorStep
  <2> QED
    BY <2>1, TakeRegister, TakeQuiet, TakeSwap, TakeRestore, TakeCancel
<1>4. ASSUME CloseVendor PROVE PayInv'
  BY <1>4, TakeCloseVendor
<1>5. ASSUME NEW p \in Payers, NEW o \in Orders, NEW send \in SUBSET purse[p],
             ConfirmPayment(p, o, send)
      PROVE  PayInv'
  BY <1>5, TakeConfirm
<1>6. ASSUME NEW p \in Payers, NEW o \in Orders, RetryDelivery(p, o) \/ CheckPayment(p, o)
      PROVE  PayInv'
  BY <1>6, TakeRetry, TakeCheck
<1>7. ASSUME NEW p \in Payers, PayerStep(p) \/ ClosePayer(p) PROVE PayInv'
  BY <1>7, TakePrepare, TakeRestoreSend, TakeDeliver, TakeClosePayer DEF PayerStep
<1>8. ASSUME RelayStep PROVE PayInv'
  BY <1>8, TakeRelayStep
<1> QED
  BY <1>1, <1>2, <1>3, <1>4, <1>5, <1>6, <1>7, <1>8, Zenon DEF Next

LEMMA PayInductive == Spec => []PayInv
BY PayInit, PayNext, PTL DEF Spec
-----------------------------------------------------------------------------
(* A handler that awaits the mint's swap has stored what restores it, and  *)
(* every record has the fields of its type: settleOrder, confirmPayment.   *)
THEOREM PaymentTypes == Spec => []TypeOK
<1>1. PayInv => TypeOK
  <2> SUFFICES ASSUME PayInv PROVE TypeOK
    OBVIOUS
  <2>1. orders \in [Orders -> OrderRecord] /\ pay \in [Payers -> [Orders -> PaymentRecord]]
    BY DEF PayInv, VendorHolds, PayersHold
  <2>2. till \subseteq Proofs /\ purse \in [Payers -> SUBSET Proofs]
    <3>1. till \subseteq Proofs
      BY Kinds DEF PayInv, MintHolds, Proofs
    <3> QED
      BY <3>1 DEF PayInv, PayersHold
  <2>3. signed \subseteq Proofs /\ spent \subseteq Proofs
    <3>1. \A p \in Payers : Funds(p) \subseteq Proofs
      BY DEF Funds, Proofs
    <3> QED
      BY <3>1 DEF PayInv, MintHolds, Proofs
  <2>4. vtask.op \in 0 .. MaxOrders /\ \A p \in Payers : ptask[p].op \in 0 .. MaxOrders
    BY DEF PayInv, VendorHolds, PayersHold, PayerHolds
  <2>5. vtask.at \in {"swapping", "restoring"} => orders[vtask.op].swap
    <3>1. vtask = Idle => vtask.at = "idle"
      BY DEF Idle
    <3>2. vtask = Idle \/ TaskHolds(vtask.at, orders[vtask.op])
      BY DEF PayInv, VendorHolds
    <3> QED
      BY <3>1, <3>2 DEF TaskHolds
  <2>6. Relay!TypeOK
    BY SameTypes DEF PayInv, RelayHolds, R!SInv
  <2>7. faults \in 0 .. MaxFaults
    BY DEF PayInv
  <2> QED
    BY <2>1, <2>2, <2>3, <2>4, <2>5, <2>6, <2>7 DEF TypeOK, OrderRecord, PaymentRecord
<1> QED
  BY <1>1, PayInductive, PTL

LEMMA OrderNormal ==
  ASSUME NEW o \in Orders, NEW order, OrderHolds(o, order), order.state # "none"
  PROVE  Storage!OrderIsNormal(order.state, OrderFields(order))
<1>1. order.state \in Storage!OrderStates
  BY DEF OrderHolds, OrderRecord, OrderStates, Storage!OrderStates
<1>2. order.state \in {"registering", "awaiting_payment", "cancelling"} => order.key /\ order.cap
  BY DEF OrderHolds
<1>3. order.state \in {"payload_received", "validating", "swapping"} =>
        order.key /\ order.token # None
  BY DEF OrderHolds
<1>4. order.state = "swapping" => order.swap
  BY DEF OrderHolds
<1>5. order.state \in {"settled", "cancelled", "expired"} =>
        ~order.key /\ order.token = None /\ ~order.swap
  BY DEF OrderHolds
<1> QED
  BY <1>1, <1>2, <1>3, <1>4, <1>5 DEF Storage!OrderIsNormal, OrderFields, Has

LEMMA PaymentNormal ==
  ASSUME NEW p \in Payers, NEW payment, NEW balance, PaymentHolds(p, payment, balance),
         payment.state # "none"
  PROVE  Storage!PaymentIsNormal(payment.state, PaymentFields(payment))
<1>1. payment.state \in Storage!PaymentStates
  BY DEF PaymentHolds, PaymentRecord, PaymentStates, Storage!PaymentStates
<1>2. payment.state = "preparing" => payment.swap # {}
  BY DEF PaymentHolds
<1>3. payment.state \in {"delivering", "delivered", "unspent"} => payment.token
  BY DEF PaymentHolds
<1>4. payment.state = "recoverable" => payment.swap # {} \/ payment.token
  BY DEF PaymentHolds
<1>5. payment.state = "spent" => payment.swap = {} /\ ~payment.token
  BY DEF PaymentHolds
<1>6. payment.retry = "no" => payment.state = "recoverable"
  BY DEF PaymentHolds
<1>7. payment.delivered => payment.token \/ payment.state = "spent"
  BY DEF PaymentHolds
<1>8. payment.state \notin {"ready_to_deliver", "pending"}
  BY DEF PaymentHolds, PaymentRecord, PaymentStates
<1> DEFINE has == PaymentFields(payment)
<1>9. /\ payment.state # "spent" => {"request", "deliveryUrl"} \subseteq has
      /\ payment.swap # {} => "swap" \in has
      /\ payment.token => {"token", "payloadJson"} \subseteq has
      /\ "notRetryable" \in has => payment.retry = "no"
      /\ "deliveredAt" \in has => payment.delivered
      /\ payment.state = "spent" /\ payment.swap = {} /\ ~payment.token =>
           has \cap {"token", "payloadJson", "swap", "request", "deliveryUrl"} = {}
  BY DEF PaymentFields, Has
<1> HIDE DEF has
<1>10. Storage!PaymentIsNormal(payment.state, has)
  BY <1>1, <1>2, <1>3, <1>4, <1>5, <1>6, <1>7, <1>8, <1>9 DEF Storage!PaymentIsNormal
<1> QED
  BY <1>10 DEF has

(* Every snapshot the market writes is one it accepts when it loads it, so *)
(* no commit throws after the mint or the relay has acted: normalizeOrder, *)
(* normalizePayment and assertSpendableProofsAreNotReserved of storage.ts. *)
THEOREM ReadableTheorem == Spec => []StoredIsReadable
<1>1. PayInv => StoredIsReadable
  <2> SUFFICES ASSUME PayInv PROVE StoredIsReadable
    OBVIOUS
  <2>1. \A o \in Orders :
          orders[o].state # "none" => Storage!OrderIsNormal(orders[o].state, OrderFields(orders[o]))
    BY OrderFacts, OrderNormal DEF PayInv
  <2>2. Storage!ProofsAreNormal(till, {}, {Fresh(o) : o \in {o \in Orders : orders[o].swap}})
    <3>1. \A o \in Orders : orders[o].swap => Fresh(o) \notin till
      BY OrderFacts DEF PayInv, MintHolds, SwapHolds, OrderHolds
    <3> QED
      BY <3>1 DEF Storage!ProofsAreNormal
  <2>3. ASSUME NEW p \in Payers, NEW o \in Orders, pay[p][o].state # "none"
        PROVE  Storage!PaymentIsNormal(pay[p][o].state, PaymentFields(pay[p][o]))
    BY <2>3, PayerFacts, PaymentNormal DEF PayInv
  <2>4. ASSUME NEW p \in Payers
        PROVE  LET preparing == {o \in Orders : pay[p][o].swap # {}} IN
               Storage!ProofsAreNormal(purse[p], UNION {pay[p][o].swap : o \in preparing},
                                       {Change(p, o) : o \in preparing})
    <3>1. \A o \in Orders : pay[p][o].swap \cap purse[p] = {}
      BY PayerFacts DEF PayInv
    <3>2. \A o \in Orders : pay[p][o].swap # {} => Change(p, o) \notin purse[p]
      BY SendFacts
    <3> QED
      BY <3>1, <3>2 DEF Storage!ProofsAreNormal
  <2> QED
    BY <2>1, <2>2, <2>3, <2>4 DEF StoredIsReadable
<1> QED
  BY <1>1, PayInductive, PTL

(* Where value is.                                                         *)
LEMMA ValueIsPlaced == PayInv => ValueIsRecoverable
<1> SUFFICES ASSUME PayInv PROVE ValueIsRecoverable
  OBVIOUS
<1>1. ASSUME NEW p \in Payers, NEW c \in Funds(p), c \in signed \ spent PROVE c \in Recoverable
  <2>1. c \in purse[p] \/ \E o \in Orders : c \in InPayment(p, o)
    BY <1>1 DEF PayInv, MintHolds, PurseHolds
  <2> QED
    BY <2>1 DEF Recoverable
<1>2. ASSUME NEW p \in Payers, NEW o \in Orders, Token(p, o) \in signed \ spent
      PROVE  Token(p, o) \in Recoverable
  <2>1. pay[p][o].swap # {} \/ pay[p][o].token
    BY <1>2 DEF PayInv, MintHolds, SendHolds
  <2>2. Token(p, o) \in InPayment(p, o)
    BY <2>1 DEF InPayment, Has, SendOutputs
  <2> QED
    BY <2>2 DEF Recoverable
<1>3. ASSUME NEW o \in Orders, Fresh(o) \in signed PROVE Fresh(o) \in Recoverable
  <2>1. orders[o].swap \/ orders[o].state = "settled"
    BY <1>3 DEF PayInv, MintHolds, SwapHolds
  <2>2. orders[o].state = "settled" => Fresh(o) \in till
    BY DEF PayInv, MintHolds, SwapHolds
  <2> QED
    BY <2>1, <2>2 DEF Has, Recoverable
<1>4. signed \subseteq Proofs
  BY DEF PayInv, MintHolds
<1>5. signed \ spent \subseteq Recoverable
  <2> SUFFICES ASSUME NEW c \in signed \ spent PROVE c \in Recoverable
    OBVIOUS
  <2>1. \/ \E p \in Payers : c \in Funds(p)
        \/ \E p \in Payers, o \in Orders : c = Token(p, o)
        \/ \E o \in Orders : c = Fresh(o)
    BY <1>4 DEF Proofs, OwnTokens, Funds
  <2> QED
    BY <1>1, <1>2, <1>3, <2>1
<1>6. till \cup (UNION {purse[p] : p \in Payers}) \subseteq signed \ spent
  <2>1. \A o \in Orders : Fresh(o) \in till => Fresh(o) \in signed
    BY DEF PayInv, MintHolds, SwapHolds
  <2>2. \A o \in Orders : Fresh(o) \notin spent
    BY Names DEF PayInv, MintHolds, OwnTokens, Funds
  <2>3. till \subseteq signed \ spent
    BY <2>1, <2>2 DEF PayInv, MintHolds
  <2> QED
    BY <2>3 DEF PayInv, MintHolds, PurseHolds
<1> QED
  BY <1>5, <1>6 DEF ValueIsRecoverable

(* No value is lost between the browsers, whatever is lost between them: a *)
(* live proof is spendable in one of them or in a record that can recover  *)
(* it, and what is spendable is live.                                      *)
THEOREM RecoverableTheorem == Spec => []ValueIsRecoverable
BY ValueIsPlaced, PayInductive, PTL

(* The browsers agree on how a payment ended: cancelOrder and the relay's  *)
(* one winner, settleOrder's one swap, and its checks of a token.          *)
THEOREM AgreeTheorem == Spec => []OutcomesAgree
<1>1. PayInv => OutcomesAgree
  <2> SUFFICES ASSUME PayInv, NEW o \in Orders
               PROVE  LET spentTokens == {p \in Payers : Token(p, o) \in spent} IN
                      /\ orders[o].state = "cancelled" =>
                           spentTokens = {} /\ \A p \in Payers : ~pay[p][o].delivered
                      /\ orders[o].state = "settled" =>
                           Cardinality(spentTokens) = 1 /\ Fresh(o) \in till
                      /\ spentTokens # {} => orders[o].swap \/ orders[o].state = "settled"
                      /\ orders[o].state = "rejected" => orders[o].token \notin OwnTokens
    BY DEF OutcomesAgree
  <2>1. SwapHolds(o) /\ OrderHolds(o, orders[o]) /\ ToldHolds(o)
    BY OrderFacts DEF PayInv, MintHolds
  <2>2. SpentBy(o) # {} => orders[o].swap \/ orders[o].state = "settled"
    BY <2>1 DEF SwapHolds
  <2>3. orders[o].state = "cancelled" => ~orders[o].swap
    BY <2>1 DEF OrderHolds
  <2>4. orders[o].state = "settled" => Cardinality(SpentBy(o)) = 1 /\ Fresh(o) \in till
    BY <2>1, FS_Singleton DEF SwapHolds
  <2>5. orders[o].state = "rejected" => orders[o].token \notin OwnTokens
    BY <2>1 DEF OrderHolds
  <2>6. orders[o].state = "cancelled" => \A p \in Payers : ~pay[p][o].delivered
    BY <2>1 DEF ToldHolds
  <2> QED
    BY <2>2, <2>3, <2>4, <2>5, <2>6 DEF SpentBy
<1> QED
  BY <1>1, PayInductive, PTL
-----------------------------------------------------------------------------
(* The funds of two attendees have nothing in common.                      *)
LEMMA FundsApart ==
  ASSUME NEW p \in Payers, NEW q \in Payers, p # q
  PROVE  Funds(p) \cap Funds(q) = {}
BY DEF Funds, Seed, Change

(* The vault.  What PayInv says of each party places the value of all: what*)
(* is set aside is exactly what is live and not spendable.                 *)
LEMMA AsideIsApart ==
  ASSUME PayInv, NEW c \in SetAside
  PROVE  c \notin Spendable
<1>1. ASSUME NEW o \in Orders, orders[o].swap PROVE Fresh(o) \notin Spendable
  <2>1. Fresh(o) \notin till
    BY <1>1, OrderFacts DEF PayInv, MintHolds, SwapHolds, OrderHolds
  <2>2. \A p \in Payers : Fresh(o) \notin purse[p]
    BY Kinds, PayerFacts DEF PayInv
  <2> QED
    BY <2>1, <2>2 DEF Spendable
<1>2. ASSUME NEW p \in Payers, NEW c1 \in Funds(p), c1 \notin purse[p] PROVE c1 \notin Spendable
  <2>1. c1 \notin till
    BY <1>2, Kinds DEF PayInv, MintHolds
  <2>2. \A q \in Payers : purse[q] \subseteq Funds(q)
    BY DEF PayInv, PayersHold, PayerHolds
  <2>3. ASSUME NEW q \in Payers PROVE c1 \notin purse[q]
    BY <1>2, <2>2, FundsApart
  <2> QED
    BY <2>1, <2>3 DEF Spendable
<1>3. ASSUME NEW p \in Payers, NEW o \in Orders PROVE Token(p, o) \notin Spendable
  <2>1. Token(p, o) \notin till
    BY Names DEF PayInv, MintHolds
  <2>2. \A q \in Payers : Token(p, o) \notin purse[q]
    BY Names, PayerFacts DEF PayInv, Funds
  <2> QED
    BY <2>1, <2>2 DEF Spendable
<1>4. ASSUME NEW p \in Payers, NEW o \in Orders, c \in InPayment(p, o) PROVE c \notin Spendable
  <2>1. CASE c \in pay[p][o].swap
    BY <1>2, <2>1, PayerFacts DEF PayInv
  <2>2. CASE pay[p][o].swap # {} /\ c = Change(p, o)
    BY <1>2, <2>2, SendFacts, Kinds
  <2> QED
    BY <1>3, <1>4, <2>1, <2>2 DEF InPayment, Has, SendOutputs
<1>5. \/ \E o \in Orders : orders[o].swap /\ c = Fresh(o)
      \/ \E p \in Payers, o \in Orders : c \in InPayment(p, o)
  BY DEF SetAside, Has
<1> QED
  BY <1>1, <1>4, <1>5

(* The mint signs both outputs of an attendee's swap, and spends only what *)
(* it signed.                                                              *)
DrawnTogether ==
  /\ spent \subseteq signed
  /\ \A p \in Payers, o \in Orders : Change(p, o) \in signed => Token(p, o) \in signed

VaultInv == PayInv /\ DrawnTogether

Parts ==
  /\ SetAside = (signed \ spent) \ Spendable
  /\ Spendable \subseteq signed \ spent /\ spent \subseteq signed

LEMMA PartsAre == VaultInv => Parts
<1> SUFFICES ASSUME VaultInv PROVE Parts
  OBVIOUS
<1>1. ValueIsRecoverable
  BY ValueIsPlaced DEF VaultInv
<1>2. (signed \ spent) \ Spendable \subseteq SetAside
  BY <1>1 DEF ValueIsRecoverable, Recoverable, Spendable, SetAside
<1>3. SetAside \subseteq (signed \ spent) \ Spendable
  BY AsideIsApart DEF VaultInv, SetAside
<1> QED
  BY <1>1, <1>2, <1>3 DEF Parts, VaultInv, DrawnTogether, ValueIsRecoverable, Spendable

(* The steps: a browser takes from a balance or adds to it, and the mint   *)
(* swaps, for outputs of which some are shown at once.                     *)
BrowserStep == UNCHANGED mint /\ (Spendable' \subseteq Spendable \/ Spendable \subseteq Spendable')

Outputs == {{Fresh(o)} : o \in Orders} \cup {SendOutputs(p, o) : p \in Payers, o \in Orders}

MintStep ==
  \E inputs, outputs :
    /\ outputs \in Outputs
    /\ MintSwap(inputs, outputs) /\ outputs \cap signed = {}
    /\ Spendable \subseteq Spendable' /\ Spendable' \subseteq Spendable \cup outputs

LEMMA BrowserMoves == ASSUME Parts, Parts', BrowserStep PROVE Vault!Next
<1>0. /\ SetAside = (signed \ spent) \ Spendable /\ SetAside' = (signed \ spent) \ Spendable'
      /\ Spendable \subseteq signed \ spent /\ Spendable' \subseteq signed \ spent
      /\ UNCHANGED <<signed, spent>>
  BY DEF Parts, BrowserStep, mint
<1>1. CASE Spendable' \subseteq Spendable
  <2> DEFINE S == Spendable \ Spendable'
  <2>1. S \in SUBSET Spendable /\ Spendable' = Spendable \ S /\ SetAside' = SetAside \cup S
    BY <1>0, <1>1
  <2> QED
    BY <1>0, <2>1 DEF Vault!Next, Vault!SetAside
<1>2. CASE Spendable \subseteq Spendable'
  <2> DEFINE S == Spendable' \ Spendable
  <2>1. S \in SUBSET SetAside /\ Spendable' = Spendable \cup S /\ SetAside' = SetAside \ S
    BY <1>0, <1>2
  <2> QED
    BY <1>0, <2>1 DEF Vault!Next, Vault!Credit
<1> QED
  BY <1>1, <1>2 DEF BrowserStep

LEMMA MintMoves == ASSUME Parts, Parts', MintStep PROVE Vault!Next
<1>0. /\ SetAside = (signed \ spent) \ Spendable /\ SetAside' = (signed' \ spent') \ Spendable'
      /\ Spendable \subseteq signed \ spent /\ Spendable' \subseteq signed' \ spent'
      /\ spent \subseteq signed
  BY DEF Parts
<1>1. PICK inputs, outputs :
        /\ MintSwap(inputs, outputs) /\ outputs \cap signed = {}
        /\ Spendable \subseteq Spendable' /\ Spendable' \subseteq Spendable \cup outputs
  BY DEF MintStep
<1>2. /\ inputs \subseteq signed \ spent /\ signed' = signed \cup outputs
      /\ spent' = spent \cup inputs
  BY <1>1 DEF MintSwap
<1>3. inputs \in SUBSET SetAside
  BY <1>0, <1>1, <1>2
<1>4. SetAside' = (SetAside \ inputs) \cup ((signed' \ signed) \ (Spendable' \ Spendable))
  BY <1>0, <1>1, <1>2
<1>5. Spendable' \ Spendable \subseteq signed' \ signed
  BY <1>1, <1>2
<1> QED
  BY <1>1, <1>2, <1>3, <1>4, <1>5 DEF Vault!Next, Vault!Exchange

LEMMA DrawnNext == ASSUME DrawnTogether, BrowserStep \/ MintStep PROVE DrawnTogether'
<1>1. CASE BrowserStep
  BY <1>1 DEF BrowserStep, DrawnTogether, mint
<1>2. CASE MintStep
  <2>1. PICK inputs, outputs : outputs \in Outputs /\ MintSwap(inputs, outputs)
    BY <1>2 DEF MintStep
  <2>2. spent' \subseteq signed' /\ signed' = signed \cup outputs
    BY <2>1 DEF DrawnTogether, MintSwap
  <2>3. ASSUME NEW p \in Payers, NEW o \in Orders, Change(p, o) \in outputs
        PROVE  Token(p, o) \in outputs
    <3>1. \A r \in Orders : outputs # {Fresh(r)}
      BY <2>3, Names
    <3>2. PICK q \in Payers, r \in Orders : outputs = {Token(q, r), Change(q, r)}
      BY <2>1, <3>1 DEF Outputs, SendOutputs
    <3> QED
      BY <2>3, <3>2, Names
  <2> QED
    BY <2>2, <2>3 DEF DrawnTogether
<1> QED
  BY <1>1, <1>2

LEMMA SameBalances == ASSUME UNCHANGED <<till, purse>> PROVE Spendable' = Spendable
BY DEF Spendable

LEMMA SameStep == ASSUME UNCHANGED till, UNCHANGED payers, UNCHANGED mint PROVE BrowserStep
BY SameBalances DEF BrowserStep, payers

LEMMA LostStep ==
  ASSUME UNCHANGED <<till, purse>>, NEW inputs, NEW outputs \in Outputs,
         MintSwap(inputs, outputs), outputs \cap signed = {}
  PROVE  MintStep
BY SameBalances DEF MintStep

(* What the vendor's swap and an attendee's are about to be signed had not *)
(* been signed: their inputs are unspent.                                  *)
LEMMA FreshIsNew ==
  ASSUME PayInv, NEW o \in Orders, vtask.at = "swapping", vtask.op = o,
         MintSwap({orders[o].token}, {Fresh(o)})
  PROVE  {Fresh(o)} \cap signed = {} /\ {Fresh(o)} \in Outputs
<1>1. orders[o].state # "settled" /\ orders[o].token \notin spent
  BY SwapFacts DEF MintSwap
<1> QED
  BY <1>1 DEF PayInv, MintHolds, SwapHolds, Outputs

LEMMA SendIsNew ==
  ASSUME VaultInv, NEW p \in Payers, NEW o \in Orders, pay[p][o].swap # {},
         MintSwap(pay[p][o].swap, SendOutputs(p, o))
  PROVE  SendOutputs(p, o) \cap signed = {} /\ SendOutputs(p, o) \in Outputs
<1>1. ~(pay[p][o].swap \subseteq spent)
  BY DEF MintSwap
<1>2. Token(p, o) \notin signed
  BY <1>1 DEF VaultInv, PayInv, MintHolds, SendHolds
<1> QED
  BY <1>2 DEF VaultInv, DrawnTogether, SendOutputs, Outputs

LEMMA BalanceMoved ==
  ASSUME PayersHold, NEW p \in Payers, NEW balance, Balances(p, balance), till' = till
  PROVE  /\ balance \subseteq purse[p] => Spendable' \subseteq Spendable
         /\ \A more : balance = purse[p] \cup more => Spendable' = Spendable \cup more
<1>1. purse'[p] = balance /\ \A q \in Payers : q # p => purse'[q] = purse[q]
  BY DEF Balances, PayersHold
<1>2. balance \subseteq purse[p] => Spendable' \subseteq Spendable
  BY <1>1 DEF Spendable
<1>3. ASSUME NEW more, balance = purse[p] \cup more PROVE Spendable' = Spendable \cup more
  <2>1. UNION {purse'[q] : q \in Payers} = (UNION {purse[q] : q \in Payers}) \cup more
    BY <1>1, <1>3
  <2> QED
    BY <2>1 DEF Spendable
<1> QED
  BY <1>2, <1>3

LEMMA VendorMoves ==
  ASSUME PayInv, NEW o \in Orders, Swap(o) \/ Restore(o) PROVE BrowserStep \/ MintStep
<1>1. UNCHANGED purse
  BY DEF Swap, Restore, payers
<1>2. ASSUME till' = till \cup {Fresh(o)} PROVE Spendable' = Spendable \cup {Fresh(o)}
  BY <1>1, <1>2 DEF Spendable
<1>3. CASE Swap(o)
  <2>1. vtask.at = "swapping" /\ vtask.op = o
    BY <1>3 DEF Swap
  <2>2. ASSUME MintSwap({orders[o].token}, {Fresh(o)}), Settle(o) \/ UNCHANGED till PROVE MintStep
    <3>1. Spendable' = Spendable \cup {Fresh(o)} \/ Spendable' = Spendable
      BY <1>1, <1>2, <2>2, SameBalances DEF Settle
    <3> QED
      BY <2>1, <2>2, <3>1, FreshIsNew DEF MintStep
  <2>3. ASSUME UNCHANGED mint, UNCHANGED till PROVE BrowserStep
    BY <1>1, <2>3, SameBalances DEF BrowserStep
  <2> QED
    BY <1>3, <2>2, <2>3 DEF Swap
<1>4. CASE Restore(o)
  <2>1. UNCHANGED mint /\ (till' = till \cup {Fresh(o)} \/ UNCHANGED till)
    BY <1>4 DEF Restore, Settle
  <2> QED
    BY <1>1, <1>2, <2>1, SameBalances DEF BrowserStep
<1> QED
  BY <1>3, <1>4

LEMMA PayerMoves ==
  ASSUME VaultInv, NEW p \in Payers, NEW o \in Orders, Prepare(p, o) \/ RestoreSend(p, o)
  PROVE  BrowserStep \/ MintStep
<1>1. PayInv /\ PayersHold /\ till' = till
  BY DEF VaultInv, PayInv, Prepare, RestoreSend, vendor
<1>2. ASSUME Ready(p, o) PROVE Spendable' = Spendable \cup {Change(p, o)}
  <2>1. Balances(p, purse[p] \cup {Change(p, o)})
    BY <1>2 DEF Ready, Balances
  <2> QED
    BY <1>1, <2>1, BalanceMoved
<1>3. CASE Prepare(p, o)
  <2>1. pay[p][o].swap # {}
    BY <1>1, <1>3, PayerTaskFacts DEF Prepare, At, PayerTaskHolds
  <2>2. ASSUME MintSwap(pay[p][o].swap, SendOutputs(p, o)), Ready(p, o) \/ UNCHANGED purse
        PROVE  MintStep
    <3>1. Spendable' = Spendable \cup {Change(p, o)} \/ Spendable' = Spendable
      BY <1>1, <1>2, <2>2, SameBalances
    <3>2. Change(p, o) \in SendOutputs(p, o)
      BY DEF SendOutputs
    <3> QED
      BY <2>1, <2>2, <3>1, <3>2, SendIsNew DEF MintStep
  <2>3. ASSUME UNCHANGED mint, UNCHANGED purse PROVE BrowserStep
    BY <1>1, <2>3, SameBalances DEF BrowserStep
  <2> QED
    BY <1>3, <2>2, <2>3 DEF Prepare
<1>4. CASE RestoreSend(p, o)
  <2>1. UNCHANGED mint /\ (Ready(p, o) \/ UNCHANGED purse)
    BY <1>4 DEF RestoreSend
  <2> QED
    BY <1>1, <1>2, <2>1, SameBalances DEF BrowserStep
<1> QED
  BY <1>3, <1>4

LEMMA ClosingMoves ==
  ASSUME VaultInv, CloseVendor \/ \E p \in Payers : ClosePayer(p) PROVE BrowserStep \/ MintStep
<1>1. UNCHANGED <<till, purse>> /\ PayInv
  BY DEF VaultInv, CloseVendor, ClosePayer, payers, vendor
<1>2. CASE CloseVendor
  <2> DEFINE o == vtask.op
  <2>1. o \in Orders
    BY <1>1, <1>2 DEF PayInv, VendorHolds, CloseVendor
  <2>2. \/ UNCHANGED mint
        \/ vtask.at = "swapping" /\ MintSwap({orders[o].token}, {Fresh(o)})
    BY <1>2 DEF CloseVendor, VendorRequest
  <2> HIDE DEF o
  <2>3. CASE vtask.at = "swapping" /\ MintSwap({orders[o].token}, {Fresh(o)})
    BY <1>1, <2>1, <2>3, FreshIsNew, LostStep DEF o
  <2> QED
    BY <1>1, <2>2, <2>3, SameBalances DEF BrowserStep
<1>3. ASSUME NEW p \in Payers, ClosePayer(p) PROVE BrowserStep \/ MintStep
  <2> DEFINE o == ptask[p].op
  <2>1. o \in Orders /\ PayerTaskHolds(ptask[p].at, pay[p][o])
    BY <1>1, <1>3 DEF PayInv, PayersHold, PayerHolds, ClosePayer
  <2>2. \/ UNCHANGED mint
        \/ ptask[p].at = "preparing" /\ MintSwap(pay[p][o].swap, SendOutputs(p, o))
    BY <1>3 DEF ClosePayer, PayerRequest
  <2> HIDE DEF o
  <2>3. CASE ptask[p].at = "preparing" /\ MintSwap(pay[p][o].swap, SendOutputs(p, o))
    <3>1. pay[p][o].swap # {}
      BY <2>1, <2>3 DEF PayerTaskHolds
    <3> QED
      BY <1>1, <2>1, <2>3, <3>1, SendIsNew, LostStep
  <2> QED
    BY <1>1, <2>2, <2>3, SameBalances DEF BrowserStep
<1> QED
  BY <1>2, <1>3

LEMMA ConfirmMoves ==
  ASSUME PayInv, NEW p \in Payers, NEW o \in Orders, NEW send, ConfirmPayment(p, o, send)
  PROVE  BrowserStep
<1>1. PayersHold /\ till' = till /\ UNCHANGED mint /\ Balances(p, purse[p] \ send)
  BY DEF PayInv, ConfirmPayment, Balances, vendor
<1>2. Spendable' \subseteq Spendable
  BY <1>1, BalanceMoved
<1> QED
  BY <1>1, <1>2 DEF BrowserStep

(* Every step is one of the two.                                           *)
LEMMA StepMoves == VaultInv /\ [Next]_vars => BrowserStep \/ MintStep
<1> SUFFICES ASSUME VaultInv, [Next]_vars PROVE BrowserStep \/ MintStep
  OBVIOUS
<1>0. PayInv
  BY DEF VaultInv
<1>1. ASSUME NEW o \in Orders, CreateOrder(o) \/ PollOrder(o) \/ CancelOrder(o) \/ PayElsewhere(o)
      PROVE  BrowserStep
  <2>1. UNCHANGED till /\ UNCHANGED payers /\ UNCHANGED mint
    BY <1>1, Zenon DEF CreateOrder, PollOrder, CancelOrder, PayElsewhere, vendor
  <2> QED
    BY <2>1, SameStep
<1>2. ASSUME NEW o \in Orders,
             \/ Register(o) \/ Read(o) \/ UseRead(o) \/ Acknowledge(o) \/ CleanUp(o)
             \/ Validate(o) \/ Cancel(o)
      PROVE  BrowserStep
  <2>1. UNCHANGED till /\ UNCHANGED payers /\ UNCHANGED mint
    BY <1>2, Zenon DEF Register, Read, UseRead, Acknowledge, CleanUp, Validate, Cancel
  <2> QED
    BY <2>1, SameStep
<1>3. ASSUME VendorStep PROVE BrowserStep \/ MintStep
  BY <1>0, <1>2, <1>3, VendorMoves DEF VendorStep
<1>4. ASSUME NEW p \in Payers, NEW o \in Orders,
             RetryDelivery(p, o) \/ CheckPayment(p, o) \/ Deliver(p, o)
      PROVE  BrowserStep
  <2>1. UNCHANGED till /\ UNCHANGED purse /\ UNCHANGED mint
    BY <1>4, Zenon DEF RetryDelivery, CheckPayment, Deliver, vendor
  <2> QED
    BY <2>1, SameBalances DEF BrowserStep
<1>5. ASSUME NEW p \in Payers, PayerStep(p) \/ ClosePayer(p) PROVE BrowserStep \/ MintStep
  BY <1>4, <1>5, PayerMoves, ClosingMoves DEF PayerStep
<1>6. ASSUME RelayStep \/ UNCHANGED vars PROVE BrowserStep
  <2>1. UNCHANGED till /\ UNCHANGED payers /\ UNCHANGED mint
    BY <1>6 DEF RelayStep, vars, vendor
  <2> QED
    BY <2>1, SameStep
<1> QED
  BY <1>0, <1>1, <1>3, <1>4, <1>5, <1>6, ConfirmMoves, ClosingMoves DEF Next

LEMMA VaultInvInit == Init => VaultInv
<1> SUFFICES ASSUME Init PROVE DrawnTogether
  BY PayInit DEF VaultInv
<1>1. signed = {Seed(p) : p \in Payers} /\ spent = {}
  BY DEF Init
<1> QED
  BY <1>1, Names DEF DrawnTogether

LEMMA VaultInvNext == VaultInv /\ [Next]_vars => VaultInv'
BY PayNext, StepMoves, DrawnNext DEF VaultInv

LEMMA VaultNext == VaultInv /\ [Next]_vars => [Vault!Next]_(Vault!vault)
<1> SUFFICES ASSUME VaultInv, [Next]_vars PROVE Vault!Next
  OBVIOUS
<1>1. Parts /\ Parts'
  <2>1. VaultInv'
    BY VaultInvNext
  <2>2. VaultInv' => Parts'
    BY PartsAre, PTL
  <2> QED
    BY <2>1, <2>2, PartsAre
<1> QED
  BY <1>1, StepMoves, BrowserMoves, MintMoves

LEMMA VaultInit == Init => Vault!Init
<1> SUFFICES ASSUME Init PROVE Vault!Init
  OBVIOUS
<1>1. Parts
  BY VaultInvInit, PartsAre
<1>2. /\ signed = {Seed(p) : p \in Payers} /\ spent = {} /\ till = {}
      /\ purse = [p \in Payers |-> {Seed(p)}]
  BY DEF Init
<1>3. signed = Spendable
  BY <1>2 DEF Spendable
<1> QED
  BY <1>1, <1>2, <1>3 DEF Vault!Init, Parts

(* The browsers of a sale keep a vault between them, for any attendees,    *)
(* orders, lost answers and closed tabs: a payment leaves a balance for a  *)
(* record, and is in one until it is spent or given back; and what is      *)
(* spent does not come back.                                               *)
THEOREM PaymentVault == Spec => ImplementsVault
<1>1. Spec => []VaultInv
  BY VaultInvInit, VaultInvNext, PTL DEF Spec
<1> QED
  BY <1>1, VaultInit, VaultNext, PTL DEF Spec, ImplementsVault, Vault!Spec
===============================================================================
