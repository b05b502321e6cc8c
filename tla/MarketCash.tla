------------------------------ MODULE MarketCash ------------------------------
(***************************************************************************)
(* Add cash and cash out in one market browser: MarketRuntime's handlers,  *)
(* the tabs of useMarket that run them under one Web Lock, the snapshot    *)
(* they share, and the mint they call.  A tab may close at any await, and  *)
(* a request that moves value may reach the mint after its caller gave up. *)
(***************************************************************************)
EXTENDS Naturals, FiniteSets

Storage == INSTANCE MarketRecords

CONSTANTS
  Tabs,         (* tabs of one browser and role                            *)
  Seeds,        (* proofs the browser holds at the start                   *)
  MaxAdds,      (* bound on add-cash operations                            *)
  MaxOuts,      (* bound on cash-outs                                      *)
  MaxFaults     (* bound on lost calls and closed tabs                     *)

VARIABLES
  proofs,    (* the spendable proofs of the snapshot                       *)
  adds,      (* its add-cash records, by age                               *)
  outs,      (* its cash-out records, by age                               *)
  task,      (* what runs in a tab, and where it waits                     *)
  review,    (* the cash-out review a tab shows, if any                    *)
  quotes,    (* the mint's add-cash quotes                                 *)
  melts,     (* the mint's melts                                           *)
  signed,    (* the outputs the mint has signed: they are proofs           *)
  spent,     (* the proofs it has seen spent                               *)
  late,      (* requests whose callers gave up and that may still arrive   *)
  lapsed,    (* unpaid invoices past their expiry on the browser's clock   *)
  faults

snapshot == <<proofs, adds, outs>>
mint == <<quotes, melts, signed, spent>>
vars == <<proofs, adds, outs, task, review, quotes, melts, signed, spent,
          late, lapsed, faults>>

ASSUME CashAssumption == {MaxAdds, MaxOuts, MaxFaults} \subseteq Nat

Adds == 1 .. MaxAdds
Outs == 1 .. MaxOuts

(* A field that may be absent is a set.  Outputs are named by the record   *)
(* they were drawn for and by how many it had drawn before; once signed    *)
(* they are a proof of that name.                                          *)
Outputs == {"add", "out"} \X Nat \X Nat

ASSUME SeedsAssumption == \A s \in Seeds : s \notin Outputs

Proofs == Seeds \cup Outputs

AddStates == {"none", "awaiting_payment", "payment_observed", "issuing",
              "settled", "expired", "recoverable"}
OutStates == {"none", "dispatching", "pending", "paid", "failed", "unknown"}
UnfinishedAdd == {"awaiting_payment", "payment_observed", "issuing", "recoverable"}
UnfinishedOut == {"dispatching", "pending", "unknown"}

(* The optional fields of a record.                                        *)
Has(condition, fields) == IF condition THEN fields ELSE {}
AddFields(add) == Has(add.source = "faucet", {"fundingSource", "quotePubkey"})
OutFields(out) ==
  Has(out.reserved # {}, {"reservedProofs"}) \cup Has(out.recovery # {}, {"recoverySwap"})

Idle == [job |-> "none", at |-> "idle", op |-> 0]
NoReview == [seen |-> {}, send |-> {}]

Init ==
  /\ proofs = Seeds
  /\ adds = [a \in Adds |-> [state |-> "none", source |-> "payer", key |-> FALSE,
                             outputs |-> {}, drawn |-> 0]]
  /\ outs = [c \in Outs |-> [state |-> "none", reserved |-> {}, change |-> {},
                             recovery |-> {}, drawn |-> 0]]
  /\ task = [t \in Tabs |-> Idle]
  /\ review = [t \in Tabs |-> NoReview]
  /\ quotes = [a \in Adds |-> "unpaid"]
  /\ melts = [c \in Outs |-> [state |-> "unpaid", inputs |-> {}, outputs |-> {}]]
  /\ signed = Seeds
  /\ spent = {}
  /\ late = {}
  /\ lapsed = {}
  /\ faults = 0
-----------------------------------------------------------------------------
(* The mint: a request is served whole or refused whole.                   *)
Held == UNION {melts[c].inputs : c \in {c \in Outs : melts[c].state = "pending"}}
Live(S) == S \subseteq signed \ (spent \cup Held)

Request(kind, op, inputs, outputs) ==
  [kind |-> kind, op |-> op, inputs |-> inputs, outputs |-> outputs]

Serves(r) ==
  CASE r.kind = "issue" -> quotes[r.op] = "paid"
    [] r.kind = "melt"  -> melts[r.op].state = "unpaid" /\ Live(r.inputs)
    [] r.kind = "swap"  -> Live(r.inputs)

Serve(r) ==
  /\ Serves(r)
  /\ quotes' = IF r.kind = "issue" THEN [quotes EXCEPT ![r.op] = "issued"] ELSE quotes
  /\ melts' = IF r.kind = "melt"
              THEN [melts EXCEPT ![r.op] = [state |-> "pending", inputs |-> r.inputs,
                                            outputs |-> r.outputs]]
              ELSE melts
  /\ signed' = IF r.kind = "melt" THEN signed ELSE signed \cup r.outputs
  /\ spent' = IF r.kind = "swap" THEN spent \cup r.inputs ELSE spent

(* Somebody pays the invoice of an add-cash quote.                         *)
Pay(a) ==
  /\ adds[a].state # "none" /\ quotes[a] = "unpaid"
  /\ quotes' = [quotes EXCEPT ![a] = "paid"]
  /\ lapsed' = lapsed \ {a}
  /\ UNCHANGED <<snapshot, task, review, melts, signed, spent, late, faults>>

(* A melt ends: paid, with change for what it did not use, or returned.    *)
Resolve(c) ==
  /\ melts[c].state = "pending"
  /\ \/ /\ melts' = [melts EXCEPT ![c].state = "paid"]
        /\ spent' = spent \cup melts[c].inputs
        /\ \/ signed' = signed \cup melts[c].outputs
           \/ UNCHANGED signed
     \/ /\ melts' = [melts EXCEPT ![c] = [state |-> "unpaid", inputs |-> {}, outputs |-> {}]]
        /\ UNCHANGED <<signed, spent>>
  /\ UNCHANGED <<snapshot, task, review, quotes, late, lapsed, faults>>

(* A request given up by its caller arrives, or is lost for good.          *)
Arrive(r) ==
  /\ r \in late
  /\ late' = late \ {r}
  /\ \/ Serve(r)
     \/ UNCHANGED mint
  /\ UNCHANGED <<snapshot, task, review, lapsed, faults>>

(* The invoice's expiry passes on the browser's clock.                     *)
Lapse(a) ==
  /\ adds[a].state # "none" /\ quotes[a] = "unpaid" /\ a \notin lapsed
  /\ lapsed' = lapsed \cup {a}
  /\ UNCHANGED <<snapshot, task, review, mint, late, faults>>
-----------------------------------------------------------------------------
(* The tabs: one task each (inFlightRef), one lock between them.           *)
Locked == \E t \in Tabs : task[t].at \notin {"idle", "waiting"}
Free(t) == task[t].at = "idle"

Ask(t, job, op) == task' = [task EXCEPT ![t] = [job |-> job, at |-> "waiting", op |-> op]]
Goto(t, place) == task' = [task EXCEPT ![t].at = place]
Done(t) == task' = [task EXCEPT ![t] = Idle]

Fault == faults < MaxFaults /\ faults' = faults + 1

(* Check now, Check claim: the buttons of a record that is not finished,   *)
(* in the tab's view; by the time it has the lock the record may be.       *)
AskRefresh(t) ==
  /\ Free(t)
  /\ \/ \E a \in Adds : /\ adds[a].state \in UnfinishedAdd
                        /\ \/ Ask(t, "add", a)
                           \/ adds[a].source = "faucet" /\ Ask(t, "fund", a)
     \/ \E c \in Outs : outs[c].state \in UnfinishedOut /\ Ask(t, "out", c)
  /\ UNCHANGED <<snapshot, review, mint, late, lapsed, faults>>

(* resume: the timer and the focus event take the newest unfinished add,   *)
(* and a cash-out only when there is none.                                 *)
Resume(t) ==
  LET pendingAdds == {a \in Adds : adds[a].state \in UnfinishedAdd}
      pendingOuts == {c \in Outs : outs[c].state \in UnfinishedOut}
  IN
  /\ Free(t)
  /\ \/ \E a \in pendingAdds : (\A b \in pendingAdds : b <= a) /\ Ask(t, "add", a)
     \/ /\ pendingAdds = {}
        /\ \E c \in pendingOuts : (\A d \in pendingOuts : d <= c) /\ Ask(t, "out", c)
  /\ UNCHANGED <<snapshot, review, mint, late, lapsed, faults>>

(* Seeded fault: the lock is not taken.                                    *)
StartsUnlocked(t, job) == task[t].at = "waiting" /\ task[t].job = job

(* runLocked: the lock is granted, the snapshot reloaded, and the task     *)
(* starts with its first call.                                             *)
Starts(t, job) == task[t].at = "waiting" /\ task[t].job = job /\ ~Locked
-----------------------------------------------------------------------------
(* requestAddCash and requestTestCash: nothing is stored until the mint    *)
(* has answered.  A test-cash quote is locked to a key of this browser,    *)
(* and the tab asks the faucet to pay it next.                             *)
RequestCash(t, a, source) ==
  /\ Free(t) /\ ~Locked
  /\ adds[a].state = "none" /\ \A b \in Adds : b < a => adds[b].state # "none"
  /\ adds' = [adds EXCEPT ![a].state = "awaiting_payment", ![a].source = source,
                          ![a].key = (source = "faucet")]
  /\ IF source = "faucet" THEN Ask(t, "fund", a) ELSE UNCHANGED task
  /\ UNCHANGED <<proofs, outs, review, mint, late, lapsed, faults>>

(* What the faucet says of a claim: paying, paid, issued and recoverable   *)
(* are one here.                                                           *)
ClaimAnswers == {"accepted", "failed", "error"}

(* fundTestCash: a claim the faucet calls failed makes the record          *)
(* recoverable, whatever it was.  The quote is checked after any claim.    *)
Claim(t) ==
  /\ Starts(t, "fund")
  /\ \E answer \in ClaimAnswers :
       /\ IF answer = "error" THEN Fault /\ Done(t)
                              ELSE Ask(t, "add", task[t].op) /\ UNCHANGED faults
       /\ adds' = IF answer = "failed" THEN [adds EXCEPT ![task[t].op].state = "recoverable"]
                                       ELSE adds
  /\ UNCHANGED <<proofs, outs, review, mint, late, lapsed>>

(* refreshAddCash up to its first commit.                                  *)
CheckQuote(t) ==
  LET a == task[t].op IN
  /\ Starts(t, "add")
  /\ \/ /\ quotes[a] = "unpaid"
        /\ IF a \in lapsed THEN adds' = [adds EXCEPT ![a].state = "expired"]
                           ELSE UNCHANGED adds
        /\ Done(t) /\ UNCHANGED faults
     \/ /\ quotes[a] # "unpaid"
        /\ adds' = [adds EXCEPT ![a].state = "payment_observed"]
        /\ Goto(t, IF adds[a].outputs = {} THEN "preparing" ELSE "issuing")
        /\ UNCHANGED faults
     \/ Fault /\ adds' = [adds EXCEPT ![a].state = "recoverable"] /\ Done(t)
  /\ UNCHANGED <<proofs, outs, review, mint, late, lapsed>>

(* prepareMint, and the commit of its outputs before they are sent.  The   *)
(* key signs the outputs once and is then forgotten.                       *)
Prepare(t) ==
  LET a == task[t].op
      r == adds[a]
  IN
  /\ task[t].at = "preparing"
  /\ \/ /\ r.source = "faucet" /\ ~r.key
        /\ adds' = [adds EXCEPT ![a].state = "recoverable"]
        /\ Done(t)
     \/ /\ r.source = "faucet" => r.key
        /\ adds' = [adds EXCEPT ![a] = [r EXCEPT !.state = "issuing", !.key = FALSE,
                                          !.outputs = {<<"add", a, r.drawn>>},
                                          !.drawn = @ + 1]]
        /\ Goto(t, "issuing")
  /\ UNCHANGED <<proofs, outs, review, mint, late, lapsed, faults>>

Settle(t, a) ==
  /\ adds' = [adds EXCEPT ![a].state = "settled", ![a].outputs = {}]
  /\ proofs' = proofs \cup adds[a].outputs
  /\ Done(t)

IssueRequest(a) == Request("issue", a, {}, adds[a].outputs)

(* completeMint: the answer is stored; a refusal, or no answer, turns to   *)
(* the restoration of the same outputs.                                    *)
Issue(t) ==
  LET a == task[t].op IN
  /\ task[t].at = "issuing"
  /\ \/ Serve(IssueRequest(a)) /\ Settle(t, a) /\ UNCHANGED <<late, faults>>
     \/ /\ \/ ~Serves(IssueRequest(a)) /\ UNCHANGED <<late, faults>>
           \/ Fault /\ late' = late \cup {IssueRequest(a)}
        /\ Goto(t, "restoring add")
        /\ UNCHANGED <<proofs, adds, mint>>
  /\ UNCHANGED <<outs, review, lapsed>>

(* tryRestoreOutputs, and the end of refreshAddCash either way.            *)
RestoreAdd(t) ==
  LET a == task[t].op IN
  /\ task[t].at = "restoring add"
  /\ \/ adds[a].outputs \subseteq signed /\ Settle(t, a) /\ UNCHANGED faults
     \/ /\ \/ ~(adds[a].outputs \subseteq signed) /\ UNCHANGED faults
           \/ Fault
        /\ adds' = [adds EXCEPT ![a].state = "recoverable"]
        /\ Done(t) /\ UNCHANGED proofs
  /\ UNCHANGED <<outs, review, mint, late, lapsed>>
-----------------------------------------------------------------------------
(* quoteCashOut and reviewCashOut: proofs are selected, without the lock.  *)
ReviewCashOut(t, send) ==
  /\ Free(t)
  /\ send # {}
  /\ \E c \in Outs : outs[c].state = "none"
  /\ review' = [review EXCEPT ![t] = [seen |-> proofs, send |-> send]]
  /\ UNCHANGED <<snapshot, task, mint, late, lapsed, faults>>

AskConfirm(t) ==
  /\ Free(t) /\ review[t] # NoReview
  /\ Ask(t, "confirm", 0)
  /\ UNCHANGED <<snapshot, review, mint, late, lapsed, faults>>

(* Seeded fault: the fingerprint is not compared.                          *)
AnyProofs(t) == TRUE

(* proofFingerprint *)
SameProofs(t) == proofs = review[t].seen

(* confirmCashOut up to the dispatch: refused when the proofs are not the  *)
(* ones reviewed, otherwise they are set aside in a record with the        *)
(* outputs for the change.                                                 *)
Confirm(t) ==
  /\ Starts(t, "confirm")
  /\ \/ /\ ~SameProofs(t)
        /\ Done(t)
        /\ UNCHANGED <<proofs, outs, review>>
     \/ /\ SameProofs(t)
        /\ \E c \in Outs :
             /\ outs[c].state = "none" /\ \A d \in Outs : d < c => outs[d].state # "none"
             /\ outs' = [outs EXCEPT ![c] = [state |-> "dispatching",
                                             reserved |-> review[t].send,
                                             change |-> {<<"out", c, 0>>},
                                             recovery |-> {}, drawn |-> 1]]
             /\ task' = [task EXCEPT ![t].at = "melting", ![t].op = c]
        /\ proofs' = review[t].seen \ review[t].send
        /\ review' = [review EXCEPT ![t] = NoReview]
  /\ UNCHANGED <<adds, mint, late, lapsed, faults>>

MeltRequest(c) == Request("melt", c, outs[c].reserved, outs[c].change)

Ended(c, state, gained) ==
  /\ outs' = [outs EXCEPT ![c] = [@ EXCEPT !.state = state, !.reserved = {},
                                           !.change = {}, !.recovery = {}]]
  /\ proofs' = proofs \cup gained

Unclear(c, state) ==
  /\ outs' = [outs EXCEPT ![c].state = state]
  /\ UNCHANGED proofs

(* Seeded fault: an error of the melt is taken for an unpaid invoice.      *)
GiveUpFailed(c) == Ended(c, "failed", outs[c].reserved)

(* The catch of confirmCashOut.                                            *)
GiveUp(c) == Unclear(c, "unknown")

(* executeMelt: an error leaves the outcome unknown.                       *)
Melt(t) ==
  LET c == task[t].op IN
  /\ task[t].at = "melting"
  /\ \/ /\ Serve(MeltRequest(c))
        /\ Goto(t, "melted")
        /\ UNCHANGED <<proofs, outs, late, faults>>
     \/ /\ \/ UNCHANGED <<late, faults>>
           \/ Fault /\ late' = late \cup {MeltRequest(c)}
        /\ GiveUp(c) /\ Done(t) /\ UNCHANGED mint
  /\ UNCHANGED <<adds, review, lapsed>>

MeltAnswer(t) ==
  LET c == task[t].op IN
  /\ task[t].at = "melted"
  /\ \/ /\ melts[c].state = "paid"
        /\ Ended(c, "paid", outs[c].change \cap signed)
        /\ UNCHANGED faults
     \/ melts[c].state = "pending" /\ Unclear(c, "pending") /\ UNCHANGED faults
     \/ melts[c].state = "unpaid" /\ Unclear(c, "unknown") /\ UNCHANGED faults
     \/ Fault /\ Unclear(c, "unknown")
  /\ Done(t)
  /\ UNCHANGED <<adds, review, mint, late, lapsed>>

(* What refreshCashOut does when the quote is unpaid.                      *)
Reclaim(t, c) ==
  IF outs[c].reserved = {}
  THEN Unclear(c, "unknown") /\ Done(t)
  ELSE /\ Goto(t, IF outs[c].recovery = {} THEN "inspecting" ELSE "recovering")
       /\ UNCHANGED <<proofs, outs>>

(* refreshCashOut up to its first commit or its next call.                 *)
CheckMelt(t) ==
  LET c == task[t].op
      r == outs[c]
      returned == melts[c].outputs \cap signed
  IN
  /\ Starts(t, "out")
  /\ \/ /\ melts[c].state = "paid"
        /\ IF returned # {} /\ r.change = {} THEN Unclear(c, "unknown")
           ELSE Ended(c, "paid", r.change \cap returned)
        /\ Done(t) /\ UNCHANGED faults
     \/ /\ melts[c].state = "pending"
        /\ Unclear(c, "pending")
        /\ Done(t) /\ UNCHANGED faults
     \/ /\ melts[c].state = "unpaid"
        /\ Reclaim(t, c) /\ UNCHANGED faults
     \/ Fault /\ Unclear(c, "unknown") /\ Done(t)
  /\ UNCHANGED <<adds, review, mint, late, lapsed>>

(* checkProofsState, prepareReceive, and the commit of the recovery.       *)
Inspect(t) ==
  LET c == task[t].op
      r == outs[c]
  IN
  /\ task[t].at = "inspecting"
  /\ \/ /\ Live(r.reserved)
        /\ outs' = [outs EXCEPT ![c] = [r EXCEPT !.state = "unknown",
                                          !.recovery = {<<"out", c, r.drawn>>},
                                          !.drawn = @ + 1]]
        /\ Goto(t, "recovering") /\ UNCHANGED <<proofs, faults>>
     \/ /\ \/ ~Live(r.reserved) /\ UNCHANGED faults
           \/ Fault
        /\ Unclear(c, "unknown") /\ Done(t)
  /\ UNCHANGED <<adds, review, mint, late, lapsed>>

SwapRequest(c) == Request("swap", c, outs[c].reserved, outs[c].recovery)

(* completePreparedReceive, as completeMint.                               *)
Recover(t) ==
  LET c == task[t].op IN
  /\ task[t].at = "recovering"
  /\ \/ /\ Serve(SwapRequest(c))
        /\ Ended(c, "failed", outs[c].recovery)
        /\ Done(t) /\ UNCHANGED <<late, faults>>
     \/ /\ \/ ~Serves(SwapRequest(c)) /\ UNCHANGED <<late, faults>>
           \/ Fault /\ late' = late \cup {SwapRequest(c)}
        /\ Goto(t, "restoring out")
        /\ UNCHANGED <<proofs, outs, mint>>
  /\ UNCHANGED <<adds, review, lapsed>>

(* Seeded fault: outputs that could not be restored are forgotten.         *)
KeepTryingAfresh(c) ==
  /\ outs' = [outs EXCEPT ![c].state = "unknown", ![c].recovery = {}]
  /\ UNCHANGED proofs

(* The catch of refreshCashOut.                                            *)
KeepTrying(c) == Unclear(c, "unknown")

(* tryRestoreSwap, and the end of refreshCashOut either way.               *)
RestoreOut(t) ==
  LET c == task[t].op IN
  /\ task[t].at = "restoring out"
  /\ \/ /\ outs[c].recovery \subseteq signed
        /\ Ended(c, "failed", outs[c].recovery)
        /\ UNCHANGED faults
     \/ /\ \/ ~(outs[c].recovery \subseteq signed) /\ UNCHANGED faults
           \/ Fault
        /\ KeepTrying(c)
  /\ Done(t)
  /\ UNCHANGED <<adds, review, mint, late, lapsed>>

(* A tab closes or reloads; what it was sending may or may not be sent.    *)
Close(t) ==
  LET c == task[t].op
      sending == CASE task[t].at = "issuing"    -> {IssueRequest(c)}
                   [] task[t].at = "melting"    -> {MeltRequest(c)}
                   [] task[t].at = "recovering" -> {SwapRequest(c)}
                   [] OTHER                     -> {}
  IN
  /\ task[t] # Idle
  /\ Fault
  /\ \E sent \in SUBSET sending : late' = late \cup sent
  /\ Done(t)
  /\ review' = [review EXCEPT ![t] = NoReview]
  /\ UNCHANGED <<snapshot, mint, lapsed>>
-----------------------------------------------------------------------------
Start(t) == Claim(t) \/ CheckQuote(t) \/ Confirm(t) \/ CheckMelt(t)

Step(t) ==
  \/ Prepare(t) \/ Issue(t) \/ RestoreAdd(t)
  \/ Melt(t) \/ MeltAnswer(t) \/ Inspect(t) \/ Recover(t) \/ RestoreOut(t)

Next ==
  \/ \E t \in Tabs :
       \/ \E a \in Adds, source \in {"payer", "faucet"} : RequestCash(t, a, source)
       \/ \E send \in SUBSET proofs : ReviewCashOut(t, send)
       \/ AskRefresh(t) \/ AskConfirm(t) \/ Resume(t)
       \/ Start(t) \/ Step(t) \/ Close(t)
  \/ \E a \in Adds : Pay(a) \/ Lapse(a)
  \/ \E c \in Outs : Resolve(c)
  \/ \E r \in late : Arrive(r)

(* A tab's calls have an end; the lock is granted in turn; the timer fires *)
(* when the person leaves the tab alone; clocks advance; the mint ends its *)
(* melts.                                                                  *)
Fairness ==
  /\ \A t \in Tabs : /\ WF_vars(Step(t))
                     /\ SF_vars(Start(t))
                     /\ SF_vars(Resume(t))
  /\ \A a \in Adds : WF_vars(Lapse(a))
  /\ \A c \in Outs : WF_vars(Resolve(c))

Spec == Init /\ [][Next]_vars /\ Fairness
-----------------------------------------------------------------------------
Places == {"idle", "waiting", "preparing", "issuing", "restoring add", "melting",
           "melted", "inspecting", "recovering", "restoring out"}

(* What an add and a cash-out may still restore.                           *)
Awaited ==
  (UNION {adds[a].outputs : a \in Adds})
    \cup (UNION {outs[c].change \cup outs[c].recovery : c \in Outs})

(* Every commit is one the storage accepts: what is reserved is not        *)
(* spendable, and no proof is added twice.                                 *)
StoredIsReadable ==
  /\ \A a \in Adds :
       adds[a].state # "none" => Storage!AddIsNormal(adds[a].state, AddFields(adds[a]))
  /\ \A c \in Outs :
       outs[c].state # "none" => Storage!CashOutIsNormal(outs[c].state, OutFields(outs[c]))
  /\ Storage!ProofsAreNormal(proofs, UNION {outs[c].reserved : c \in Outs}, Awaited)

(* At most one tab has the lock, and what it commits can be stored.        *)
TypeOK ==
  /\ proofs \subseteq Proofs
  /\ adds \in [Adds -> [state : AddStates, source : {"payer", "faucet"}, key : BOOLEAN,
                        outputs : SUBSET Outputs, drawn : Nat]]
  /\ outs \in [Outs -> [state : OutStates, reserved : SUBSET Proofs,
                        change : SUBSET Outputs, recovery : SUBSET Outputs, drawn : Nat]]
  /\ task \in [Tabs -> [job : {"none", "fund", "add", "out", "confirm"}, at : Places,
                        op : Nat]]
  /\ review \in [Tabs -> [seen : SUBSET Proofs, send : SUBSET Proofs]]
  /\ quotes \in [Adds -> {"unpaid", "paid", "issued"}]
  /\ melts \in [Outs -> [state : {"unpaid", "pending", "paid"}, inputs : SUBSET Proofs,
                         outputs : SUBSET Outputs]]
  /\ signed \subseteq Proofs /\ spent \subseteq Proofs
  /\ late \subseteq [kind : {"issue", "melt", "swap"}, op : Adds \cup Outs,
                     inputs : SUBSET Proofs, outputs : SUBSET Outputs]
  /\ lapsed \subseteq Adds /\ faults \in 0 .. MaxFaults
  /\ \A t, u \in Tabs : {task[t].at, task[u].at} \cap {"idle", "waiting"} = {} => t = u
  /\ StoredIsReadable

(* The balance is real: a proof shown as spendable is one the mint would   *)
(* accept now, is reserved by no record, and is in no request of the past  *)
(* that may still arrive.  "Reserved proofs stay outside the spendable     *)
(* balance until the mint reports paid or authoritatively unpaid."         *)
BalanceIsReal ==
  /\ Live(proofs)
  /\ \A c \in Outs : proofs \cap outs[c].reserved = {}
  /\ \A r \in late : proofs \cap r.inputs = {}

(* No value is lost or doubled: whatever the mint has signed and not seen  *)
(* spent is spendable in this browser or in a record it recovers from,     *)
(* through lost answers, closed tabs and reviews that another tab made     *)
(* stale, and the balance is real.                                         *)
ValueIsInOnePlace ==
  /\ signed \ spent \subseteq
       proofs \cup (UNION {adds[a].outputs : a \in Adds})
              \cup (UNION {outs[c].reserved \cup outs[c].change \cup outs[c].recovery : c \in Outs})
  /\ BalanceIsReal

(* A record that reads paid or settled is, and one that reads failed can   *)
(* no longer be paid: its proofs were spent by their own recovery.         *)
OutcomeIsFinal ==
  /\ \A a \in Adds : adds[a].state = "settled" => quotes[a] = "issued"
  /\ \A c \in Outs :
       /\ outs[c].state = "paid" => melts[c].state = "paid"
       /\ outs[c].state = "failed" =>
            /\ melts[c].state = "unpaid"
            /\ \A r \in late : r.kind = "melt" /\ r.op = c => r.inputs \subseteq spent

(* A refresh that waited for the lock while another tab finished the same  *)
(* record: an issued quote with outputs the mint never signed, or a        *)
(* cash-out whose proofs are gone.  Neither can end.                       *)
Regressed ==
  \/ \E a \in Adds : /\ quotes[a] = "issued" /\ adds[a].state \in UnfinishedAdd
                     /\ adds[a].outputs \cap signed = {}
  \/ \E c \in Outs : outs[c].state \in UnfinishedOut /\ outs[c].reserved = {}

(* A cash-out reaches its end, and an add whose payment the mint has seen  *)
(* is issued, unless a record has regressed and stands before it.          *)
OperationsEnd ==
  /\ \A c \in Outs : outs[c].state \in UnfinishedOut
                       ~> outs[c].state \in {"paid", "failed"} \/ Regressed
  /\ \A a \in Adds : quotes[a] = "paid" /\ adds[a].state \in UnfinishedAdd
                       ~> adds[a].state = "settled" \/ Regressed

(* What the browser has set aside: the proofs in its records that the mint *)
(* has signed and not seen spent.                                          *)
SetAside ==
  (signed \ spent) \cap
    ((UNION {adds[a].outputs : a \in Adds})
       \cup (UNION {outs[c].reserved \cup outs[c].change \cup outs[c].recovery : c \in Outs}))

Vault == INSTANCE Vault WITH made <- signed, spendable <- proofs, aside <- SetAside

(* The browser keeps a vault: no lost answer, late request, stale review   *)
(* or closed tab spends what is spendable, drops what a record holds, or   *)
(* brings back what was spent (the commits of confirmCashOut,              *)
(* refreshAddCash and refreshCashOut around their calls).                  *)
ImplementsVault == Vault!Spec
==============================================================================
