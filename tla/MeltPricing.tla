----------------------------- MODULE MeltPricing -----------------------------
(***************************************************************************)
(* The numbers of one melt, from its quote to what the wallet is charged:  *)
(* get_payment_quote prices the invoice from the node's dry run,           *)
(* make_payment turns the reserve into the node's fee ceiling, the node    *)
(* routes the payment for some fee under the ceiling it derives, and       *)
(* payment_response says what was spent.  The concurrency of the melt is   *)
(* the subject of FiberMelt; here the amounts take every value.            *)
(***************************************************************************)
EXTENDS FiberAmount

CONSTANTS
  Amounts,       (* invoice amounts, in base units                         *)
  Fees,          (* fees a dry run may report, in base units               *)
  Scales,        (* values of FiberConfig.unit_scale                       *)
  Percents,      (* values of FiberConfig.fee_percent                      *)
  Floors         (* values of FiberConfig.min_fee_reserve                  *)

(* unit_scale is a divisor: the code does not check that it is positive,   *)
(* and every conversion panics when it is zero.                            *)
ASSUME PricingAssumption ==
  /\ Amounts \subseteq U128
  /\ Fees \subseteq U128
  /\ Scales \subseteq U64 \ {0}
  /\ Percents \subseteq U8
  /\ Floors \subseteq U64

VARIABLES
  config,   (* the unit_scale, fee_percent and min_fee_reserve in force    *)
  stage,    (* how far the melt is                                         *)
  amount,   (* the invoice's amount, in base units                         *)
  probed,   (* the fee of the dry run, in base units                       *)
  quote,    (* the ecash amount and fee reserve the mint quoted            *)
  ceiling,  (* the fee the node will not exceed, in base units             *)
  fee,      (* the fee the payment cost, in base units                     *)
  charged   (* total_spent: what the wallet pays, in ecash units           *)

pricing == <<config, stage, amount, probed, quote, ceiling, fee, charged>>

Stages == {"start", "quoted", "dispatched", "settled",
           "charged", "charged_late", "refused"}

PricingInit ==
  /\ config \in [scale : Scales, percent : Percents, floor : Floors]
  /\ stage = "start"
  /\ amount = 0
  /\ probed = 0
  /\ quote = [amount |-> 0, reserve |-> 0]
  /\ ceiling = 0
  /\ fee = 0
  /\ charged = 0

(* get_payment_quote: both numbers must fit in a u64 or there is no quote. *)
PriceQuote(a, f) ==
  LET ecash == FromBaseCeil(a, config.scale)
      reserve == FeeReserve(f, config.scale, config.percent, config.floor)
  IN  /\ stage = "start"
      /\ amount' = a
      /\ probed' = f
      /\ IF ecash = Overflow \/ reserve = Overflow
         THEN stage' = "refused" /\ UNCHANGED quote
         ELSE stage' = "quoted" /\ quote' = [amount |-> ecash, reserve |-> reserve]
      /\ UNCHANGED <<config, ceiling, fee, charged>>

(* External: what the node makes of the ceiling and the rate it is given.  *)
(* docs/integration-contract.md, section 6, quotes the node's min().       *)
NodeCeiling(amountBase, maxFeeBase, rate) ==
  LET perMille == IF rate = NoRate THEN DefaultRate ELSE rate
      byRate == (amountBase * perMille) \div Denominator
  IN  IF maxFeeBase <= byRate THEN maxFeeBase ELSE byRate

(* Seeded fault: max_fee_amount is not passed on.                          *)
CeilingByRate(amountBase, reserve) == (amountBase * DefaultRate) \div Denominator

(* The mint passes the quoted reserve as max_fee_amount, make_payment      *)
(* scales it and raises the rate to match.                                 *)
Ceiling(amountBase, reserve) ==
  LET maxFee == ToBase(reserve, config.scale)
  IN  NodeCeiling(amountBase, maxFee, MaxFeeRateFor(amountBase, maxFee))

(* make_payment up to send_payment.                                        *)
MakePayment ==
  /\ stage = "quoted"
  /\ ceiling' = Ceiling(amount, quote.reserve)
  /\ stage' = "dispatched"
  /\ UNCHANGED <<config, amount, probed, quote, fee, charged>>

(* External: the node settles for some fee under the ceiling.              *)
Settle(f) ==
  /\ stage = "dispatched"
  /\ f <= ceiling
  /\ fee' = f
  /\ stage' = "settled"
  /\ UNCHANGED <<config, amount, probed, quote, ceiling, charged>>

(* payment_response for a Success; amountBase is the caller's argument.    *)
(* The sum is checked in a u128, its conversion in a u64.                  *)
TotalSpent(amountBase, feeBase) ==
  IF amountBase + feeBase > U128Max
  THEN Overflow
  ELSE FromBaseCeil(amountBase + feeBase, config.scale)

Report(total, reported) ==
  /\ stage = "settled"
  /\ IF total = Overflow
     THEN stage' = "refused" /\ UNCHANGED charged
     ELSE stage' = reported /\ charged' = total
  /\ UNCHANGED <<config, amount, probed, quote, ceiling, fee>>

(* make_payment saw the payment settle before its deadline, or found the   *)
(* settled session of an earlier call: it knows the invoice's amount.      *)
ReportMake == Report(TotalSpent(amount, fee), "charged")

(* check_outgoing_payment has no invoice and passes an amount of zero.     *)
ReportCheck == Report(TotalSpent(0, fee), "charged_late")

PricingNext ==
  \/ \E a \in Amounts, f \in Fees : PriceQuote(a, f)
  \/ MakePayment
  \/ \E f \in 0 .. ceiling : Settle(f)
  \/ ReportMake
  \/ ReportCheck

PricingSpec == PricingInit /\ [][PricingNext]_pricing
-----------------------------------------------------------------------------
PricingTypeOK ==
  /\ config \in [scale : U64 \ {0}, percent : U8, floor : U64]
  /\ stage \in Stages
  /\ amount \in U128
  /\ probed \in U128
  /\ quote \in [amount : U64, reserve : U64]
  /\ ceiling \in Nat
  /\ fee \in Nat
  /\ charged \in U64

(* The rate make_payment asks for is enough for the node's min() to leave  *)
(* the quoted reserve alone, so that a route that still costs what the dry *)
(* run said is never refused for its fee.  The two exceptions are the code's *)
(* own: an empty invoice, and a rate too large for a u64 or a u128.        *)
RateFits ==
  LET maxFee == ToBase(quote.reserve, config.scale)
  IN  /\ amount > 0
      /\ maxFee * Denominator <= U128Max
      /\ DivCeil(maxFee * Denominator, amount) <= U64Max

ProbedFeeIsPayable ==
  stage = "dispatched" /\ RateFits => probed <= ceiling

(* A melt reported by make_payment never charges less than it cost, and a  *)
(* melt reported by either path never charges more than the wallet put up: *)
(* the change the mint returns is not negative.                            *)
ChargeCoversSpend ==
  stage = "charged" => amount + fee <= ToBase(charged, config.scale)

ChargeWithinQuote ==
  stage \in {"charged", "charged_late"} =>
    charged <= quote.amount + quote.reserve

(* What is charged for a melt is between what it cost and what was put up  *)
(* for it, through the roundings, for every scale and policy.              *)
ChargeIsSound == ChargeCoversSpend /\ ChargeWithinQuote

(* docs/spec.md, section 4: amounts charged round up, to "never            *)
(* under-charge a payment the mint must make".  Stated of both paths.      *)
NeverUnderCharged ==
  stage \in {"charged", "charged_late"} =>
    amount + fee <= ToBase(charged, config.scale)
==============================================================================
