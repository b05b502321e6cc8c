---------------------------- MODULE FaucetBudget ----------------------------
(***************************************************************************)
(* Who the faucet gives claims to: the limits store.reserve applies while  *)
(* claims are made, touched by their payments and scrubbed, and days pass. *)
(* What the payments do is the subject of FaucetClaims; here a payment is  *)
(* no more than the updates it makes to updated_at.                        *)
(***************************************************************************)
EXTENDS FaucetStore

CONSTANTS
  Clients,    (* browsers, by client hash                                  *)
  Networks    (* network addresses, by network hash                        *)

ASSUME BudgetAssumption ==
  /\ MaxTime \in Nat
  /\ Gone \notin Clients \cup Networks
  /\ IsFiniteSet(Quotes)

VARIABLE
  given     (* history: who was given a claim, and when                    *)

budgets == <<claims, given, now>>

BudgetInit ==
  /\ claims = [q \in {} |-> Gone]
  /\ given = [q \in {} |-> Gone]
  /\ now = 0

With(rows, q, row) == [r \in DOMAIN rows \cup {q} |-> IF r = q THEN row ELSE rows[r]]

(* store.reserve for a quote it has no row of.                             *)
ReserveClaim(q, c, n) ==
  /\ q \notin Stored
  /\ Admits(claims, c, n, now)
  /\ claims' = With(claims, q, NewClaim(c, n, now))
  /\ given' = With(given, q, [client |-> c, network |-> n, at |-> now])
  /\ UNCHANGED now

(* store.transition or store.markAttempt.                                  *)
Touch(q) ==
  /\ q \in Stored
  /\ claims' = [claims EXCEPT ![q].updatedAt = now]
  /\ UNCHANGED <<given, now>>

(* store.scrub *)
Scrub ==
  /\ claims' = [q \in Stored |-> ScrubClaim(claims[q], now)]
  /\ UNCHANGED <<given, now>>

BudgetTick ==
  /\ now < MaxTime
  /\ now' = now + 1
  /\ UNCHANGED <<claims, given>>

BudgetNext ==
  \/ \E q \in Quotes, c \in Clients, n \in Networks : ReserveClaim(q, c, n)
  \/ \E q \in Quotes : Touch(q)
  \/ Scrub
  \/ BudgetTick

BudgetSpec == BudgetInit /\ [][BudgetNext]_budgets
-----------------------------------------------------------------------------
BudgetTypeOK ==
  /\ Stored \subseteq Quotes
  /\ \A q \in Stored :
       claims[q] \in [client : Clients \cup {Gone}, network : Networks \cup {Gone},
                     createdAt : Nat, updatedAt : Nat, known : BOOLEAN]
  /\ DOMAIN given = Stored
  /\ \A q \in Stored : given[q] \in [client : Clients, network : Networks, at : Nat]
  /\ now \in 0 .. MaxTime

(* Two claims of one browser are a cooldown apart, whatever was scrubbed   *)
(* in between: the retention the config insists on outlives the cooldown.  *)
CooldownHolds ==
  \A q, r \in Stored :
    q # r /\ given[q].client = given[r].client =>
      \/ given[q].at >= given[r].at + Cooldown
      \/ given[r].at >= given[q].at + Cooldown

(* The claims given on the day of a claim.                                 *)
SameDay(q) == {r \in Stored : StartOfDay(given[r].at) = StartOfDay(given[q].at)}

(* The global budget bounds every day, whenever its rows are scrubbed.     *)
DailyBudgetHolds == \A q \in Stored : Cardinality(SameDay(q)) <= DailyLimit

(* faucet/tests/service.test.ts: one network address cannot consume the    *)
(* whole daily budget.                                                     *)
NetworkBudgetHolds ==
  \A q \in Stored :
    Cardinality({r \in SameDay(q) : given[r].network = given[q].network}) <= NetworkLimit

(* Whatever is scrubbed, no browser, day or network is given too much.     *)
LimitsHold == CooldownHolds /\ DailyBudgetHolds /\ NetworkBudgetHolds
==============================================================================
