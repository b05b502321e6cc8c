----------------------------- MODULE EventRequest -----------------------------
(***************************************************************************)
(* What each party of a market payment accepts from the one before it: the *)
(* vendor's cart, the request made from it, the attendee's review of that  *)
(* request, the relay's parsing of what both post, and the vendor's checks *)
(* of what arrives.  Unit, mint and relay are those of the event manifest, *)
(* which is part of the build that both browsers run.                      *)
(***************************************************************************)
EXTENDS Naturals, FiniteSets
LOCAL INSTANCE FiniteSetsExt

CONSTANTS
  Catalog,      (* price and length of the label, by item                  *)
  Lifetime,     (* 300: the seconds a vendor lets an order be paid in      *)
  Window,       (* 600: the longest lifetime an attendee accepts           *)
  TtlLimit,     (* the longest lifetime the relay accepts                  *)
  MemoLimit,    (* 280: the longest memo the relay accepts                 *)
  MaxSafe       (* Number.MAX_SAFE_INTEGER                                 *)

(* Catalogue prices are positive and labels not empty.                     *)
CatalogAssumption ==
  \A item \in DOMAIN Catalog : Catalog[item].price > 0 /\ Catalog[item].label > 0

(* A cart has a quantity for each of its items.                            *)
Total(cart) == MapThenSumSet(LAMBDA item : cart[item] * Catalog[item].price, DOMAIN cart)

CartIsValid(cart) ==
  /\ DOMAIN cart # {}
  /\ \A item \in DOMAIN cart : cart[item] > 0
  /\ Total(cart) \in 1 .. MaxSafe

(* The length of "coffee, 2x snack".                                       *)
Listing(cart) ==
  MapThenSumSet(LAMBDA item : Catalog[item].label + (IF cart[item] = 1 THEN 0 ELSE 3),
                DOMAIN cart)
    + 2 * (Cardinality(DOMAIN cart) - 1)

(* orderDescription                                                        *)
Description(cart) == IF Listing(cart) \in 0 .. MemoLimit THEN Listing(cart) ELSE MemoLimit

(* createVendorRequest                                                     *)
VendorRequest(id, cap, cart, clock) ==
  [id |-> id, amount |-> Total(cart), description |-> Description(cart), transport |-> "relay",
   cap |-> cap, expiresAt |-> clock + Lifetime, lock |-> "vendor key"]

(* What the wallet's receive screen makes: no transport and no lock.       *)
WalletRequest(id, amount, description) ==
  [id |-> id, amount |-> amount, description |-> description, transport |-> "none",
   cap |-> id, expiresAt |-> 0, lock |-> "none"]

(* Seeded fault: the last second counts as open.                           *)
LastSecondIsValid(expiresAt, clock) == clock <= expiresAt /\ expiresAt <= clock + Window

LifetimeIsValid(expiresAt, clock) == clock < expiresAt /\ expiresAt <= clock + Window

(* decodePaymentRequest                                                    *)
Decodes(request) == request.amount \in 1 .. MaxSafe

(* validatePaymentRequest                                                  *)
IsAffordable(request, balance) == request.amount <= balance

HasEventTransport(request) == request.transport = "relay"

HasVendorLock(request) == request.lock = "vendor key"

(* validateEventPaymentRequest                                             *)
ReviewAccepts(request, balance, clock) ==
  /\ Decodes(request)
  /\ IsAffordable(request, balance)
  /\ HasEventTransport(request)
  /\ LifetimeIsValid(request.expiresAt, clock)
  /\ HasVendorLock(request)

(* createPaymentPayload                                                    *)
PayloadOf(request, amount) ==
  [id |-> request.id, memo |-> request.description, amount |-> amount]

(* parseRegistration                                                       *)
RegistrationIsValid(request, clock) ==
  /\ request.amount \in 1 .. MaxSafe
  /\ clock < request.expiresAt /\ request.expiresAt <= clock + TtlLimit

(* parsePaymentPayload                                                     *)
PayloadIsValid(payload) == payload.memo <= MemoLimit /\ payload.amount > 0

(* What deliver compares with the row.                                     *)
PayloadMatches(request, payload) ==
  payload.id = request.id /\ payload.amount = request.amount

(* pollOrder and settleOrder: what the vendor's swap yields is the total.  *)
VendorAccepts(request, payload, fee) ==
  /\ PayloadMatches(request, payload)
  /\ payload.amount - fee = request.amount

(* deliveryCanRetry                                                        *)
CanRetry(status) == status \in {408, 429} \/ status >= 500
===============================================================================
