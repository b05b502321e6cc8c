----------------------------- MODULE FaucetClaims -----------------------------
(***************************************************************************)
(* How the faucet pays a claim: FaucetService (faucet/src/service.ts) and  *)
(* the reconciliation timer (index.ts) over the rows of FaucetStore.       *)
(* JavaScript runs one handler at a time, so a step ends at an await, and  *)
(* the store's statements belong to the step that makes them.  The mint    *)
(* that issued the quotes and the payer node are external.  Who may claim  *)
(* is the subject of FaucetBudget: here a reservation succeeds or not.     *)
(***************************************************************************)
EXTENDS FaucetStore, Functions

CONSTANTS
  None,            (* no record, or no quote                               *)
  RecoveryDelay,   (* recoveryDelaySeconds                                 *)
  Margin,          (* 15: the seconds a new claim's quote must still have  *)
  Expiry,          (* when the quotes expire                               *)
  MaxFaults        (* bound on upstream errors, lost answers and crashes   *)

ASSUME ClaimAssumption ==
  /\ RecoveryDelay \in Nat \ {0}
  /\ {Margin, Expiry, MaxTime, MaxFaults} \subseteq Nat
  /\ None \notin Quotes

VARIABLES
  task,     (* FaucetService.inFlight: the one task a quote may have       *)
  loop,     (* the reconciliation pass: its snapshot and the quote at hand *)
  mint,     (* the mint's quote: unpaid, paid or issued                    *)
  payer,    (* the payer node's payment session                            *)
  faults

upstream == <<mint, payer>>
vars == <<claims, task, loop, upstream, now, faults>>

Sessions == {"none", "Inflight", "Success", "Failed"}
Steps == {"idle", "newquote", "invoice", "quote", "payment", "send"}

(* What reconcile reads of the record it was given.                        *)
ReadBy(row) ==
  [state |-> row.state, code |-> row.code,
   attempts |-> row.attempts, attemptedAt |-> row.attemptedAt]

Resting == [pc |-> "idle", rec |-> None]
NoPass == [running |-> FALSE, snap |-> <<>>, cur |-> None]

Init ==
  /\ claims = <<>>
  /\ task = [q \in Quotes |-> Resting]
  /\ loop = NoPass
  /\ mint = [q \in Quotes |-> "unpaid"]
  /\ payer = [q \in Quotes |-> "none"]
  /\ now = 0
  /\ faults = 0

Fault == faults < MaxFaults /\ faults' = faults + 1

At(q, pc) == task[q].pc = pc

(* A task goes on with its record; once it waits for sendPayment it uses   *)
(* nothing but the hashes of the record.                                   *)
Goto(q, pc) ==
  /\ task' = [task EXCEPT ![q] = [pc |-> pc, rec |-> IF pc = "send" THEN None ELSE @.rec]]
  /\ UNCHANGED loop

(* The finally of claim and of reconcileOpenClaims, which goes on with the *)
(* next record of its snapshot when it was its own task that ended.        *)
Finish(q) ==
  /\ task' = [task EXCEPT ![q] = Resting]
  /\ loop' = IF loop.cur = q THEN [loop EXCEPT !.cur = None] ELSE loop

Conclude(q, state, code) ==
  /\ claims' = [claims EXCEPT ![q] = Transition(@, state, code, now)]
  /\ Finish(q)
-----------------------------------------------------------------------------
(* claim and claimExclusive up to mint.getQuote.  A second request for a   *)
(* quote in flight joins its task or is rejected, one of another browser   *)
(* is rejected, and one for a claim that is issued or scrubbed is answered *)
(* from the row: none of them changes state.                               *)
StartClaim(q) ==
  /\ At(q, "idle")
  /\ q \in Stored => claims[q].state # "issued" /\ claims[q].known
  /\ task' = [task EXCEPT ![q] =
       IF q \in Stored THEN [pc |-> "quote", rec |-> ReadBy(claims[q])]
                       ELSE [pc |-> "newquote", rec |-> None]]
  /\ UNCHANGED <<claims, loop, upstream, now, faults>>

(* HttpMintClient.getQuote: the phase of the quote, the phase of one that  *)
(* is not the recorded one, or no quote at all.                            *)
QuoteAnswers(q) == {mint[q], "changed", "error"}

(* HttpFiberClient.getPayment: the session, one of another hash, or an     *)
(* error, which only "payment session not found" is not.                   *)
PaymentAnswers(q) == {payer[q], "mismatch", "error"}

(* claimExclusive and validateQuote of an answer to a new claim.           *)
Payable(answer) == answer = "unpaid" /\ Expiry > now + Margin

(* The quote of a new claim has come back: one that cannot be paid, and    *)
(* any other answer, is an error that stores nothing.                      *)
NewQuoteAnswered(q) ==
  /\ At(q, "newquote")
  /\ \E answer \in QuoteAnswers(q) :
       IF Payable(answer) THEN Goto(q, "invoice") ELSE Finish(q)
  /\ UNCHANGED <<claims, upstream, now, faults>>

Insert(q, row) ==
  claims' = [r \in Stored \cup {q} |-> IF r = q THEN row ELSE claims[r]]

CrashNow ==
  /\ task' = [q \in Quotes |-> Resting]
  /\ loop' = NoPass
  /\ Fault

(* The invoice is decoded: reserve, and dispatch of the new row up to      *)
(* sendPayment; or the invoice or a limit is against the claim.  The       *)
(* process can stop between the insert and markAttempt.  The row cannot    *)
(* be there already: a quote has one task.                                 *)
Reserve(q) ==
  /\ At(q, "invoice")
  /\ \/ /\ Insert(q, MarkAttempt(NewPayment(now), now))
        /\ Goto(q, "send")
        /\ UNCHANGED faults
     \/ Insert(q, NewPayment(now)) /\ CrashNow
     \/ Finish(q) /\ UNCHANGED <<claims, faults>>
  /\ UNCHANGED <<upstream, now>>

(* reconcileStored and reconcile up to fiber.getPayment.  The record is    *)
(* the one the task began with.  "review" answers a quote whose invoice,   *)
(* key or expiry is not the recorded one.                                  *)
QuoteAnswered(q) ==
  /\ At(q, "quote")
  /\ \E answer \in QuoteAnswers(q) :
       \/ answer \in {"issued", "paid"} /\ Conclude(q, answer, "none") /\ UNCHANGED faults
       \/ /\ answer = "unpaid"
          /\ IF task[q].rec.state = "failed" THEN Finish(q) ELSE Goto(q, "payment")
          /\ UNCHANGED <<claims, faults>>
       \/ answer = "changed" /\ Conclude(q, "recoverable", "review") /\ Fault
       \/ answer = "error" /\ Finish(q) /\ Fault /\ UNCHANGED claims
  /\ UNCHANGED <<upstream, now>>

(* Seeded fault: the node's status is stored as it is.                     *)
RawStatus(session) == session

(* applyPayment *)
StateOf(session) ==
  IF session = "Success" THEN "paid" ELSE IF session = "Failed" THEN "failed" ELSE "pending"

ApplyPayment(q, session) ==
  Conclude(q, StateOf(session), IF session = "Failed" THEN "transient" ELSE "none")

AttemptedRecently(rec) ==
  rec.attemptedAt # Never /\ now - rec.attemptedAt < RecoveryDelay

MaxAttempts == 2

(* Seeded fault: a call without an answer counts as a failed payment.      *)
UnknownIsFailed(q) == Conclude(q, "failed", "transient")

(* The answer to a call that did not say what became of the payment.       *)
Unknown(q) == Conclude(q, "recoverable", "transient")

(* dispatch of a stored row up to sendPayment.                             *)
Dispatch(q) ==
  claims' = [claims EXCEPT ![q] = MarkAttempt(@, now)] /\ Goto(q, "send")

(* The rest of reconcile when the payer node knows no session.             *)
NoSession(q) ==
  LET rec == task[q].rec
  IN  IF rec.code = "mismatch" THEN Finish(q) /\ UNCHANGED claims
      ELSE IF AttemptedRecently(rec) THEN Unknown(q)
      ELSE IF Expiry <= now THEN Conclude(q, "failed", "transient")
      ELSE IF rec.attempts >= MaxAttempts THEN Conclude(q, "recoverable", "review")
      ELSE Dispatch(q)

(* Seeded fault: what getPayment answered is not looked at.                *)
SendBlindly(q) == At(q, "payment") /\ Dispatch(q) /\ UNCHANGED <<upstream, now, faults>>

PaymentAnswered(q) ==
  /\ At(q, "payment")
  /\ \E answer \in PaymentAnswers(q) :
       \/ answer \in Sessions \ {"none"} /\ ApplyPayment(q, answer) /\ UNCHANGED faults
       \/ answer = "none" /\ NoSession(q) /\ UNCHANGED faults
       \/ answer = "error" /\ Unknown(q) /\ Fault
       \/ answer = "mismatch" /\ Conclude(q, "recoverable", "mismatch") /\ Fault
  /\ UNCHANGED <<upstream, now>>

(* External: the payer node pays a hash it has no live session for, unless *)
(* the invoice was paid by someone else.                                   *)
NodeAccepts(q, session) ==
  /\ payer[q] \in {"none", "Failed"}
  /\ mint[q] # "unpaid" => session = "Failed"
  /\ payer' = [payer EXCEPT ![q] = session]

(* HttpFiberClient.sendPayment, which has a deadline: an answer, an answer *)
(* that was lost, or an error of the node, which took no payment on.       *)
Answered(q) == \E session \in Sessions \ {"none"} :
  NodeAccepts(q, session) /\ ApplyPayment(q, session) /\ UNCHANGED faults

Refused(q) == Unknown(q) /\ UNCHANGED <<payer, faults>>

AnswerLost(q) ==
  /\ \E session \in Sessions \ {"none"} : NodeAccepts(q, session)
  /\ Unknown(q)
  /\ Fault

(* sendPayment ends, perhaps with an answer about another hash.            *)
SendAnswered(q) ==
  /\ At(q, "send")
  /\ \/ Answered(q) \/ Refused(q) \/ AnswerLost(q)
     \/ Conclude(q, "recoverable", "mismatch") /\ Fault /\ UNCHANGED payer
  /\ UNCHANGED <<mint, now>>

(* reconcileOpenClaims: the rows of store.open, oldest update first, are   *)
(* read once, and each waits for the task of the one before it.  The pass  *)
(* serves every claim of the table, so it can be held up at other records  *)
(* before it reaches the first of these Quotes, and after the last.        *)
LoopStart ==
  /\ ~loop.running
  /\ loop' = [running |-> TRUE, cur |-> None,
              snap |-> Restrict(claims, {q \in Stored : IsOpen(claims[q])})]
  /\ UNCHANGED <<claims, task, upstream, now, faults>>

LoopNext(q) ==
  LET left == DOMAIN loop.snap
      free == At(q, "idle")
  IN  /\ loop.running
      /\ loop.cur = None
      /\ q \in left
      /\ \A r \in left : loop.snap[q].updatedAt <= loop.snap[r].updatedAt
      /\ loop' = [loop EXCEPT !.snap = Restrict(@, left \ {q}), !.cur = IF free THEN q ELSE None]
      /\ task' = IF free THEN [task EXCEPT ![q] = [pc |-> "quote", rec |-> ReadBy(loop.snap[q])]]
                         ELSE task
      /\ UNCHANGED <<claims, upstream, now, faults>>

(* The pass ends with store.scrub.                                         *)
LoopEnd ==
  /\ loop.running
  /\ loop.cur = None
  /\ DOMAIN loop.snap = {}
  /\ loop' = NoPass
  /\ claims' = [q \in Stored |-> ScrubPayment(claims[q], now)]
  /\ UNCHANGED <<task, upstream, now, faults>>

(* External: the payer node's payment moves; the mint sees the invoice     *)
(* paid, by the faucet or by the wallet itself, and issues.                *)
PayerProgress(q) ==
  /\ payer[q] = "Inflight"
  /\ \/ mint[q] = "unpaid" /\ payer' = [payer EXCEPT ![q] = "Success"]
     \/ payer' = [payer EXCEPT ![q] = "Failed"]
  /\ UNCHANGED <<claims, task, loop, mint, now, faults>>

MintProgress(q) ==
  /\ \/ mint[q] = "unpaid" /\ mint' = [mint EXCEPT ![q] = "paid"]
     \/ mint[q] = "paid" /\ mint' = [mint EXCEPT ![q] = "issued"]
  /\ UNCHANGED <<claims, task, loop, payer, now, faults>>

Tick ==
  /\ now < MaxTime
  /\ now' = now + 1
  /\ UNCHANGED <<claims, task, loop, upstream, faults>>

Crash ==
  /\ loop.running \/ \E q \in Quotes : ~At(q, "idle")
  /\ CrashNow
  /\ UNCHANGED <<claims, upstream, now>>

TaskStep(q) ==
  \/ NewQuoteAnswered(q) \/ Reserve(q) \/ QuoteAnswered(q)
  \/ PaymentAnswered(q) \/ SendAnswered(q)

LoopStep == LoopStart \/ LoopEnd \/ \E q \in Quotes : LoopNext(q)

Next ==
  \/ \E q \in Quotes : StartClaim(q) \/ TaskStep(q) \/ PayerProgress(q) \/ MintProgress(q)
  \/ LoopStep
  \/ Tick
  \/ Crash

Spec == Init /\ [][Next]_vars

(* Upstream calls end, if only by their timeout, and the timer repeats.    *)
FairSpec == Spec /\ WF_vars(LoopStep) /\ \A q \in Quotes : WF_vars(TaskStep(q))
-----------------------------------------------------------------------------
Attempted == [state : States, code : Codes, attempts : Nat, attemptedAt : Nat \cup {Never}]

TypeOK ==
  /\ Stored \subseteq Quotes
  /\ \A q \in Stored :
       claims[q] \in [state : States, code : Codes, attempts : Nat,
                     attemptedAt : Nat \cup {Never}, updatedAt : Nat, known : BOOLEAN]
  /\ task \in [Quotes -> [pc : Steps, rec : {None} \cup Attempted]]
  /\ \A q \in Quotes : At(q, "quote") \/ At(q, "payment") => task[q].rec \in Attempted
  /\ loop.running \in BOOLEAN
  /\ loop.cur \in Quotes \cup {None}
  /\ DOMAIN loop.snap \subseteq Stored
  /\ mint \in [Quotes -> {"unpaid", "paid", "issued"}]
  /\ payer \in [Quotes -> Sessions]
  /\ now \in 0 .. MaxTime
  /\ faults \in 0 .. MaxFaults

(* An unknown response is reconciled before the invoice is sent again: the *)
(* faucet never asks its node to pay a hash the node is paying or paid.    *)
NeverPaysTwice ==
  \A q \in Quotes : At(q, "send") => payer[q] = "none"

(* What a claim is told holds.  One told to have failed is not paid by the *)
(* faucet afterwards, since the browser may pay the stored invoice from    *)
(* another wallet, and one told to be paid is.                             *)
OutcomeIsTrue ==
  \A q \in Stored :
    /\ claims[q].state = "failed" => payer[q] \in {"none", "Failed"} /\ ~At(q, "send")
    /\ claims[q].state \in {"paid", "issued"} => payer[q] = "Success" \/ mint[q] # "unpaid"

(* What the faucet told a browser stands, whatever its row says later: a   *)
(* claim that failed is never paid by the faucet, since the wallet may     *)
(* have paid the invoice in its place, and one that was paid stays paid.   *)
OutcomesStand ==
  \A q \in Quotes :
    /\ [](q \in Stored /\ claims[q].state = "failed" => [](payer[q] # "Success"))
    /\ [](q \in Stored /\ claims[q].state \in {"paid", "issued"} =>
            [](payer[q] = "Success" \/ mint[q] # "unpaid"))

(* A claim whose payment settled is reported paid, by the browser's next   *)
(* request or by the timer, if it was not taken out of the timer's reach.  *)
Reported(q) ==
  \/ claims[q].state \in {"paid", "issued"}
  \/ claims[q].code \in Held
  \/ ~claims[q].known

SettledIsReported ==
  \A q \in Quotes :
    q \in Stored /\ payer[q] = "Success" ~> q \in Stored /\ Reported(q)
==============================================================================
