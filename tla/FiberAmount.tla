----------------------------- MODULE FiberAmount -----------------------------
(***************************************************************************)
(* Conversion between ecash units and Fiber base units, as written in      *)
(* mint/cdk-fiber/src/amount.rs.  A Rust Result or Option is a number that *)
(* is negative when there is no value: no amount of the code is negative.  *)
(***************************************************************************)
EXTENDS Integers

CONSTANTS
  U64Max,   (* the largest value of Rust's u64                             *)
  U128Max   (* the largest value of Rust's u128                            *)

(* The widths the code relies on: a product of two u64 fits in a u128, and *)
(* so does the product of a u64 and a percentage of at most 255.           *)
ASSUME WidthAssumption ==
  /\ U64Max \in Nat
  /\ U128Max \in Nat
  /\ U64Max * U64Max <= U128Max
  /\ U64Max * 355 <= U128Max

U64 == 0 .. U64Max
U128 == 0 .. U128Max
U8 == 0 .. 255

Overflow == -1   (* Err(Error::AmountOverflow) *)
NoRate == -1     (* None: the node's default rate applies *)

(* u128::div_ceil *)
DivCeil(a, b) == (a + b - 1) \div b

ToBase(ecash, scale) == ecash * scale

(* Seeded fault: the result of a division is taken to fit.                 *)
Unnarrowed(n) == n

Narrowed(n) == IF n <= U64Max THEN n ELSE Overflow

FromBaseFloor(base, scale) == Narrowed(base \div scale)

FromBaseCeil(base, scale) == Narrowed(DivCeil(base, scale))

FeeReserve(routedFee, scale, percent, floor) ==
  LET routed == FromBaseCeil(routedFee, scale)
      cushioned == Narrowed(DivCeil(routed * (100 + percent), 100))
  IN  IF routed = Overflow \/ cushioned = Overflow
      THEN Overflow
      ELSE IF cushioned >= floor THEN cushioned ELSE floor

DefaultRate == 5
Denominator == 1000

(* Seeded fault: the rate is left to the node.                             *)
KeepDefaultRate(amountBase, maxFeeBase) == NoRate

MaxFeeRateFor(amountBase, maxFeeBase) ==
  LET needed == DivCeil(maxFeeBase * Denominator, amountBase)
  IN  IF \/ amountBase = 0
         \/ maxFeeBase * Denominator > U128Max
         \/ needed <= DefaultRate
         \/ needed > U64Max
      THEN NoRate
      ELSE needed
==============================================================================
