----------------------------- MODULE FaucetStore -----------------------------
(***************************************************************************)
(* The faucet's table of claims, faucet/src/database.ts, as operators on   *)
(* its rows: each is one synchronous statement or transaction of SQLite,   *)
(* and the state machines of the faucet apply it in the step that runs it. *)
(***************************************************************************)
EXTENDS Integers, FiniteSets

CONSTANTS
  Quotes,          (* mint quotes: the key of the table                    *)
  MaxTime,         (* bound on the clock                                   *)
  Gone,            (* a column scrub set to NULL                           *)
  Cooldown,        (* clientCooldownSeconds                                *)
  Retention,       (* sensitiveRetentionSeconds                            *)
  Day,             (* 86400: the seconds of a UTC day                      *)
  NetworkLimit,    (* networkDailyClaimLimit                               *)
  DailyLimit       (* dailyClaimLimit                                      *)

(* loadConfig refuses a retention shorter than the cooldown.               *)
ASSUME StoreAssumption ==
  /\ {Cooldown, Retention, Day, NetworkLimit, DailyLimit} \subseteq Nat \ {0}
  /\ Retention >= Cooldown

VARIABLES
  claims,          (* the rows of faucet_claims, by quote                  *)
  now              (* the clock the statements are given                   *)

Stored == DOMAIN claims

Never == -1

Open == {"dispatching", "pending", "recoverable"}
States == Open \cup {"paid", "issued", "failed"}

(* The failure codes told apart: "review" stands for the codes that take a *)
(* claim out of open, "mismatch" for the one that reconcile obeys as well, *)
(* "transient" for the others.                                             *)
Held == {"review", "mismatch"}
Codes == {"none", "transient"} \cup Held

(* startOfUtcDay *)
StartOfDay(t) == (t \div Day) * Day
-----------------------------------------------------------------------------
(* What concerns the payment of a claim.                                   *)
NewPayment(t) ==
  [state |-> "dispatching", code |-> "none", attempts |-> 0, attemptedAt |-> Never,
   updatedAt |-> t, known |-> TRUE]

MarkAttempt(row, t) ==
  [row EXCEPT !.state = "dispatching", !.code = "none", !.updatedAt = t,
              !.attempts = @ + 1, !.attemptedAt = t]

Transition(row, state, code, t) ==
  [row EXCEPT !.state = state, !.code = code, !.updatedAt = t]

(* Seeded fault: the timer does not look at payments in flight.            *)
OpenUnlessPending(row) ==
  row.state \in {"dispatching", "recoverable"} /\ row.known /\ row.code \notin Held

IsOpen(row) == row.state \in Open /\ row.known /\ row.code \notin Held

(* scrub: known says whether the identifiers are still there.              *)
Expired(row, t) == row.known /\ row.updatedAt <= t - Retention

ScrubPayment(row, t) ==
  IF Expired(row, t)
  THEN [row EXCEPT !.known = FALSE,
                   !.state = IF @ \in {"dispatching", "pending"} THEN "recoverable" ELSE @]
  ELSE row
-----------------------------------------------------------------------------
(* What concerns who is given a claim: the limits of reserve.              *)
NewClaim(c, n, t) ==
  [client |-> c, network |-> n, createdAt |-> t, updatedAt |-> t, known |-> TRUE]

(* Seeded fault: the time of the claim goes with its identifiers.          *)
ScrubTimes(row, t) ==
  IF Expired(row, t)
  THEN [row EXCEPT !.known = FALSE, !.client = Gone, !.network = Gone, !.createdAt = Gone]
  ELSE row

ScrubClaim(row, t) ==
  IF Expired(row, t)
  THEN [row EXCEPT !.known = FALSE, !.client = Gone, !.network = Gone]
  ELSE row

Today(rows, t) == {q \in DOMAIN rows : rows[q].createdAt >= StartOfDay(t)}

(* Seeded faults: the cooldown ends at midnight, and the limits are        *)
(* compared with the claims there are without the one that is asked for.   *)
CooledDownAtMidnight(rows, c, t) == \A q \in Today(rows, t) : rows[q].client # c

NetworkNotOver(rows, n, t) ==
  Cardinality({q \in Today(rows, t) : rows[q].network = n}) <= NetworkLimit

DayNotOver(rows, t) == Cardinality(Today(rows, t)) <= DailyLimit

CooledDown(rows, c, t) ==
  \A q \in DOMAIN rows : rows[q].client = c => rows[q].createdAt <= t - Cooldown

NetworkHasRoom(rows, n, t) ==
  Cardinality({q \in Today(rows, t) : rows[q].network = n}) < NetworkLimit

DayHasRoom(rows, t) == Cardinality(Today(rows, t)) < DailyLimit

Admits(rows, c, n, t) ==
  CooledDown(rows, c, t) /\ NetworkHasRoom(rows, n, t) /\ DayHasRoom(rows, t)
==============================================================================
