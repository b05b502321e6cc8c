------------------------------- MODULE WalletOps -------------------------------
(***************************************************************************)
(* One tab of the wallet: the operations of App.tsx on its snapshot, and   *)
(* the mint.  An operation may be worked on by the handler that created it *)
(* and by a refresh, from the timer or a button; refreshes and receipts    *)
(* take the operation's lock, createOutgoing and confirmCashOut do not.    *)
(* The tab may reload at any await, and a request may reach the mint after *)
(* its caller gave up.                                                     *)
(***************************************************************************)
EXTENDS Naturals, FiniteSets

CONSTANTS
  Sends,        (* outgoing tokens                                         *)
  Receives,     (* incoming tokens                                         *)
  Adds,         (* add-cash operations                                     *)
  Outs,         (* cash-outs                                               *)
  Seeds,        (* the proofs of the wallet at the start                   *)
  Overlap,      (* may a refresh find the creating handler still at work?  *)
  MaxOps,       (* bound on the operations that are started                *)
  MaxFaults     (* bound on lost calls and reloads                         *)

VARIABLES
  held,      (* the snapshot's proofs: how often each is in it             *)
  ops,       (* its operations                                             *)
  run,       (* who works on an operation, where it waits, and the record  *)
             (* it holds                                                   *)
  drawn,     (* how many outputs were drawn for an operation               *)
  given,     (* proofs that somebody else has seen                         *)
  quotes,    (* the mint's add-cash quotes                                 *)
  melts,     (* the mint's melts                                           *)
  signed,    (* the proofs the mint has signed                             *)
  spent,     (* those it has seen spent                                    *)
  late,      (* requests whose callers gave up and that may still arrive   *)
  faults

snapshot == <<held, ops>>
mint == <<quotes, melts, signed, spent>>
vars == <<snapshot, run, drawn, given, mint, late, faults>>

Ops == Sends \cup Receives \cup Adds \cup Outs

ASSUME WalletAssumption == Overlap \in BOOLEAN /\ {MaxOps, MaxFaults} \subseteq Nat

ASSUME KindsAssumption ==
  /\ Sends \cap (Receives \cup Adds \cup Outs) = {}
  /\ Receives \cap (Adds \cup Outs) = {}
  /\ Adds \cap Outs = {}

(* Proofs by what they were drawn for.  "in" is a token somebody made for  *)
(* this wallet.                                                            *)
Token(o) == <<"token", o, 0>>
Change(o) == <<"change", o, 0>>
Fresh(o, n) == <<"fresh", o, n>>
Incoming(o) == <<"in", o, 0>>

Start == {<<"seed", s, 0>> : s \in Seeds}
Proofs == Start \cup ({"token", "change", "in", "fresh"} \X Ops \X (0 .. 1))

SendStates == {"preparing", "awaiting_acceptance", "accepted", "reclaiming", "reclaimed",
               "recovery_required"}
ReceiveStates == {"checking", "securing", "settled", "recoverable", "failed"}
AddStates == {"awaiting_payment", "payment_observed", "issuing", "settled", "expired",
              "recoverable"}
OutStates == {"dispatching", "pending", "paid", "failed", "unknown"}

(* operationNeedsAttention *)
Attention == {"preparing", "awaiting_acceptance", "reclaiming", "recovery_required",
              "checking", "securing", "recoverable", "awaiting_payment",
              "payment_observed", "issuing", "dispatching", "pending", "unknown"}

(* kept: a bearer token, or the reserved proofs of a cash-out.  inputs and *)
(* outputs: a prepared swap or issue.  change: outputs besides.            *)
Blank == [state |-> "none", kept |-> {}, inputs |-> {}, outputs |-> {}, change |-> {}]
Idle == [at |-> "idle", seen |-> Blank]

Handlers == {"make", "refresh"}

Init ==
  /\ held = [p \in Proofs |-> IF p \in Start THEN 1 ELSE 0]
  /\ ops = [o \in Ops |-> Blank]
  /\ run = [w \in Handlers |-> [o \in Ops |-> Idle]]
  /\ drawn = [o \in Ops |-> 0]
  /\ given = {Incoming(o) : o \in Receives}
  /\ quotes = [a \in Adds |-> "unpaid"]
  /\ melts = [c \in Outs |-> [state |-> "unpaid", inputs |-> {}, outputs |-> {}]]
  /\ signed = Start \cup given
  /\ spent = {}
  /\ late = {}
  /\ faults = 0
-----------------------------------------------------------------------------
(* The mint: a request is served whole or refused whole.                   *)
Reserved == UNION {melts[c].inputs : c \in {c \in Outs : melts[c].state = "pending"}}
Live(S) == S \subseteq signed \ (spent \cup Reserved)

Request(kind, o, inputs, outputs) ==
  [kind |-> kind, op |-> o, inputs |-> inputs, outputs |-> outputs]

Serves(r) ==
  CASE r.kind = "issue" -> quotes[r.op] = "paid"
    [] r.kind = "melt"  -> melts[r.op].state = "unpaid" /\ Live(r.inputs)
    [] r.kind = "swap"  -> Live(r.inputs)

Serve(r) ==
  /\ Serves(r)
  /\ quotes' = IF r.kind = "issue" THEN [quotes EXCEPT ![r.op] = "issued"] ELSE quotes
  /\ melts' = IF r.kind = "melt"
              THEN [melts EXCEPT ![r.op] = [state |-> "pending", inputs |-> r.inputs,
                                            outputs |-> r.outputs]]
              ELSE melts
  /\ signed' = IF r.kind = "melt" THEN signed ELSE signed \cup r.outputs
  /\ spent' = IF r.kind = "swap" THEN spent \cup r.inputs ELSE spent

Arrive(r) ==
  /\ r \in late
  /\ late' = late \ {r}
  /\ Serve(r) \/ UNCHANGED mint
  /\ UNCHANGED <<snapshot, run, drawn, given, faults>>

(* Somebody pays the invoice of a quote, or spends a proof they were shown.*)
Pay(a) ==
  /\ ops[a].state # "none" /\ quotes[a] = "unpaid"
  /\ quotes' = [quotes EXCEPT ![a] = "paid"]
  /\ UNCHANGED <<snapshot, run, drawn, given, melts, signed, spent, late, faults>>

Spend(p) ==
  /\ p \in given /\ Live({p})
  /\ spent' = spent \cup {p}
  /\ UNCHANGED <<snapshot, run, drawn, given, quotes, melts, signed, late, faults>>

(* A melt ends: paid, with change for what it did not use, or returned.    *)
Resolve(c) ==
  /\ melts[c].state = "pending"
  /\ \/ /\ melts' = [melts EXCEPT ![c].state = "paid"]
        /\ spent' = spent \cup melts[c].inputs
        /\ signed' \in {signed, signed \cup melts[c].outputs}
     \/ /\ melts' = [melts EXCEPT ![c].state = "unpaid"]
        /\ UNCHANGED <<signed, spent>>
  /\ UNCHANGED <<snapshot, run, drawn, given, quotes, late, faults>>
-----------------------------------------------------------------------------
(* persistOperation                                                        *)
Persist(o, record) == ops' = [ops EXCEPT ![o] = record]
Gain(S) == held' = [p \in Proofs |-> IF p \in S THEN held[p] + 1 ELSE held[p]]
Lose(S) == held' = [p \in Proofs |-> IF p \in S THEN held[p] - 1 ELSE held[p]]
Spendable == {p \in Proofs : held[p] > 0}

At(w, o, place) == run[w][o].at = place
Goto(w, o, place, record) ==
  run' = [run EXCEPT ![w][o] = [at |-> place, seen |-> record]]
Stay(w, o, place) == run' = [run EXCEPT ![w][o].at = place]
Done(w, o) == run' = [run EXCEPT ![w][o] = Idle]
Fault == faults < MaxFaults /\ faults' = faults + 1

New(o) == ops[o].state = "none" /\ Cardinality({p \in Ops : ops[p].state # "none"}) < MaxOps

(* A swap, an issue or a melt is sent: with its answer, refused, or given  *)
(* up.                                                                     *)
Answered(r) == Serve(r) /\ UNCHANGED <<late, faults>>
Refused(r) == ~Serves(r) /\ UNCHANGED <<mint, late, faults>>
GivenUp(r) == Fault /\ late' = late \cup {r} /\ UNCHANGED mint

(* checkProofsState: whoever else has seen a token may have it pending in a*)
(* melt of their own, or have spent a part of it.                          *)
Elsewhere(S) == S \subseteq given /\ ~(S \subseteq spent) /\ UNCHANGED faults

(* tryRestoreOutputs: the mint answers with those it has signed, in an     *)
(* order of its own; matchRestoredSignatures wants every one of them.      *)
RestoreResponse(S) == S \cap signed
Matched(S, response) == response = S

Restored(S) == Matched(S, RestoreResponse(S)) /\ UNCHANGED faults
NotRestored(S) == (~Matched(S, RestoreResponse(S)) /\ UNCHANGED faults) \/ Fault

(* prepareSend, prepareMelt: which proofs cover an amount is left open, and*)
(* so is whether they cover it exactly.                                    *)
Selections == (SUBSET Spendable) \ {{}}
-----------------------------------------------------------------------------
(* createOutgoing: an exact selection is the token; otherwise a swap is    *)
(* stored and sent, without the operation's lock.                          *)
CreateOffline(o, send) ==
  /\ New(o)
  /\ Persist(o, [Blank EXCEPT !.state = "awaiting_acceptance", !.kept = send])
  /\ Lose(send)
  /\ given' = given \cup send
  /\ UNCHANGED <<run, drawn, mint, late, faults>>

PreparedSend(o, send) ==
  [Blank EXCEPT !.state = "preparing", !.inputs = send, !.outputs = {Token(o)},
                !.change = {Change(o)}]

CreateOutgoing(o, send) ==
  LET record == PreparedSend(o, send) IN
  /\ New(o)
  /\ Persist(o, record)
  /\ Lose(send)
  /\ Goto("make", o, "sending", record)
  /\ UNCHANGED <<drawn, given, mint, late, faults>>

SendRequest(r, o) == Request("swap", o, r.inputs, r.outputs \cup r.change)

(* The token is stored with the change.                                    *)
Ready(w, o, r) ==
  /\ Persist(o, [Blank EXCEPT !.state = "awaiting_acceptance", !.kept = r.outputs])
  /\ Gain(r.change)
  /\ given' = given \cup r.outputs
  /\ Done(w, o)

(* completePreparedSend, for createOutgoing and refreshSend                *)
Send(w, o) ==
  LET r == run[w][o].seen IN
  /\ At(w, o, "sending")
  /\ \/ Answered(SendRequest(r, o)) /\ Ready(w, o, r)
     \/ /\ Refused(SendRequest(r, o)) \/ GivenUp(SendRequest(r, o))
        /\ Stay(w, o, "restoring send") /\ UNCHANGED <<snapshot, given>>
  /\ UNCHANGED drawn

RestoreSend(w, o) ==
  LET r == run[w][o].seen IN
  /\ At(w, o, "restoring send")
  /\ \/ Restored(r.outputs \cup r.change) /\ Ready(w, o, r)
     \/ /\ NotRestored(r.outputs \cup r.change)
        /\ Persist(o, [r EXCEPT !.state = "recovery_required"])
        /\ Done(w, o) /\ UNCHANGED <<held, given>>
  /\ UNCHANGED <<drawn, mint, late>>
-----------------------------------------------------------------------------
(* runLocked: one refresh of an operation at a time.                       *)
Free(o) == At("refresh", o, "idle") /\ (Overlap \/ At("make", o, "idle"))

(* The start of settleReceive.                                             *)
BeginSettle(o, r) ==
  IF r.outputs # {}
  THEN Goto("refresh", o, "swapping", r) /\ Persist(o, r)
  ELSE LET checking == [r EXCEPT !.state = "checking"] IN
       Goto("refresh", o, "checking token", checking) /\ Persist(o, checking)

(* receiveToken: from somebody else, or a token of this wallet's own.      *)
ReceiveToken(o, token) ==
  /\ New(o) /\ Free(o)
  /\ token # {}
  /\ BeginSettle(o, [Blank EXCEPT !.kept = token])
  /\ UNCHANGED <<held, drawn, given, mint, late, faults>>

(* refreshOperation, from refreshUnresolved or Check status.               *)
Refresh(o) ==
  LET r == ops[o] IN
  /\ Free(o)
  /\ r.state \in Attention
  /\ \/ o \in Sends /\ UNCHANGED ops
        /\ \/ r.outputs # {} /\ Goto("refresh", o, IF r.kept = {} THEN "sending" ELSE "swapping", r)
           \/ r.outputs = {} /\ r.kept # {} /\ Goto("refresh", o, "asking", r)
     \/ o \in Receives /\ BeginSettle(o, r)
     \/ o \in Adds /\ Goto("refresh", o, "checking quote", r) /\ UNCHANGED ops
     \/ o \in Outs /\ Goto("refresh", o, "checking melt", r) /\ UNCHANGED ops
  /\ UNCHANGED <<held, drawn, given, mint, late, faults>>

(* refreshSend of a token that was produced.                               *)
AskToken(o) ==
  LET r == run["refresh"][o].seen IN
  /\ At("refresh", o, "asking")
  /\ \/ /\ r.kept \subseteq spent
        /\ Persist(o, [r EXCEPT !.state = "accepted", !.kept = {}]) /\ UNCHANGED faults
     \/ /\ Cardinality(r.kept) > 1 /\ Elsewhere(r.kept)
        /\ Persist(o, [r EXCEPT !.state = "recovery_required"])
     \/ r.kept \cap spent = {} /\ UNCHANGED <<ops, faults>>
     \/ Fault /\ UNCHANGED ops
  /\ Done("refresh", o)
  /\ UNCHANGED <<held, drawn, given, mint, late>>

(* Seeded fault: the swap is sent and not stored.                          *)
SecureUnsaved(o, state, r) ==
  /\ drawn[o] < 2
  /\ drawn' = [drawn EXCEPT ![o] = @ + 1]
  /\ Persist(o, [r EXCEPT !.state = state])
  /\ Goto("refresh", o, "swapping", [r EXCEPT !.state = state, !.inputs = r.kept,
                                             !.outputs = {Fresh(o, drawn[o])}])

(* prepareReceive: a swap of what the record keeps into fresh proofs, which*)
(* is stored before it is sent.                                            *)
PreparedReceive(o, r) == [r EXCEPT !.inputs = r.kept, !.outputs = {Fresh(o, drawn[o])}]

Secure(o, state, r) ==
  LET swap == [PreparedReceive(o, r) EXCEPT !.state = state] IN
  /\ drawn[o] < 2
  /\ drawn' = [drawn EXCEPT ![o] = @ + 1]
  /\ Persist(o, swap)
  /\ Goto("refresh", o, "swapping", swap)

(* reclaimSend, behind a button.                                           *)
Reclaim(o) ==
  /\ Free(o)
  /\ ops[o].state \in {"awaiting_acceptance", "recovery_required"}
  /\ ops[o].kept # {} /\ ops[o].outputs = {}
  /\ Goto("refresh", o, "reclaiming", ops[o])
  /\ UNCHANGED <<snapshot, drawn, given, mint, late, faults>>

CheckReclaim(o) ==
  LET r == run["refresh"][o].seen IN
  /\ At("refresh", o, "reclaiming")
  /\ \/ /\ r.kept \subseteq spent
        /\ Persist(o, [r EXCEPT !.state = "accepted", !.kept = {}])
        /\ Done("refresh", o) /\ UNCHANGED <<drawn, faults>>
     \/ Live(r.kept) /\ Secure(o, "reclaiming", r) /\ UNCHANGED faults
     \/ /\ Elsewhere(r.kept) \/ Fault
        /\ Done("refresh", o) /\ UNCHANGED <<ops, drawn>>
  /\ UNCHANGED <<held, given, mint, late>>

(* settleReceive up to its swap.  A token of another amount or of a keyset *)
(* the wallet does not know is refused.                                    *)
CheckToken(o) ==
  LET r == run["refresh"][o].seen
      ends(state) == Persist(o, [r EXCEPT !.state = state]) /\ Done("refresh", o) /\ UNCHANGED drawn
  IN
  /\ At("refresh", o, "checking token")
  /\ \/ ends("failed") /\ UNCHANGED faults
     \/ Live(r.kept) /\ Secure(o, "securing", r) /\ UNCHANGED faults
     \/ (Elsewhere(r.kept) \/ Fault) /\ ends("recoverable")
  /\ UNCHANGED <<held, given, mint, late>>

(* Seeded fault: a token is removed although its swap has started.         *)
DiscardAlways(o) ==
  /\ Free(o)
  /\ ops[o].kept # {} /\ ops[o].state # "settled"
  /\ Persist(o, [ops[o] EXCEPT !.state = "failed", !.kept = {}])
  /\ UNCHANGED <<held, run, drawn, given, mint, late, faults>>

(* discardIncomingToken: not once a swap was stored.                       *)
Discard(o) ==
  /\ Free(o)
  /\ ops[o].kept # {} /\ ops[o].outputs = {} /\ ops[o].state # "settled"
  /\ Persist(o, [ops[o] EXCEPT !.state = "failed", !.kept = {}])
  /\ UNCHANGED <<held, run, drawn, given, mint, late, faults>>

(* How a swap into fresh proofs ends an operation, and where it is left    *)
(* when it does not.                                                       *)
Won(o) == IF o \in Sends THEN "reclaimed" ELSE IF o \in Receives THEN "settled" ELSE "failed"
Stuck(o) == IF o \in Sends THEN "recovery_required"
            ELSE IF o \in Receives THEN "recoverable" ELSE "unknown"

(* Seeded fault: the ended operation keeps its token and its swap.         *)
RecoveredKept(o, r) ==
  /\ Persist(o, [r EXCEPT !.state = Won(o)])
  /\ Gain(r.outputs)
  /\ Done("refresh", o)

Recovered(o, r) ==
  /\ Persist(o, [Blank EXCEPT !.state = Won(o)])
  /\ Gain(r.outputs)
  /\ Done("refresh", o)

SwapRequest(r, o) == Request("swap", o, r.inputs, r.outputs)

(* completePreparedReceive, for reclaimSend, refreshSend, settleReceive    *)
(* and refreshCashOut                                                      *)
Swap(o) ==
  LET r == run["refresh"][o].seen IN
  /\ At("refresh", o, "swapping")
  /\ \/ Answered(SwapRequest(r, o)) /\ Recovered(o, r)
     \/ /\ Refused(SwapRequest(r, o)) \/ GivenUp(SwapRequest(r, o))
        /\ Stay("refresh", o, "restoring") /\ UNCHANGED snapshot
  /\ UNCHANGED <<drawn, given>>

Restore(o) ==
  LET r == run["refresh"][o].seen IN
  /\ At("refresh", o, "restoring")
  /\ \/ Restored(r.outputs) /\ Recovered(o, r)
     \/ /\ NotRestored(r.outputs)
        /\ Persist(o, [r EXCEPT !.state = Stuck(o)])
        /\ Done("refresh", o) /\ UNCHANGED held
  /\ UNCHANGED <<drawn, given, mint, late>>
-----------------------------------------------------------------------------
(* requestAdd, refreshAdd                                                  *)
RequestAdd(o) ==
  /\ New(o)
  /\ Persist(o, [Blank EXCEPT !.state = "awaiting_payment"])
  /\ UNCHANGED <<held, run, drawn, given, mint, late, faults>>

(* mintQuoteIsPaid, prepareMint                                            *)
QuoteIsPaid(o) == quotes[o] # "unpaid"
PreparedMint(o, r) == [r EXCEPT !.outputs = {Fresh(o, 0)}]

(* An unpaid quote may have expired; a paid one has its outputs drawn, if  *)
(* they were not, and stored before they are sent.                         *)
CheckQuote(o) ==
  LET r == run["refresh"][o].seen
      ends(state) == Persist(o, [r EXCEPT !.state = state]) /\ Done("refresh", o)
      issuing == IF r.outputs = {} THEN [PreparedMint(o, r) EXCEPT !.state = "issuing"]
                                   ELSE [r EXCEPT !.state = "payment_observed"]
  IN
  /\ At("refresh", o, "checking quote")
  /\ \/ ~QuoteIsPaid(o) /\ (ends(r.state) \/ ends("expired")) /\ UNCHANGED faults
     \/ /\ QuoteIsPaid(o)
        /\ Persist(o, issuing) /\ Goto("refresh", o, "issuing", issuing) /\ UNCHANGED faults
     \/ Fault /\ ends("recoverable")
  /\ UNCHANGED <<held, drawn, given, mint, late>>

IssueRequest(r, o) == Request("issue", o, {}, r.outputs)

Issued(o, r) ==
  /\ Persist(o, [Blank EXCEPT !.state = "settled"])
  /\ Gain(r.outputs)
  /\ Done("refresh", o)

(* completeMint                                                            *)
Issue(o) ==
  LET r == run["refresh"][o].seen IN
  /\ At("refresh", o, "issuing")
  /\ \/ Answered(IssueRequest(r, o)) /\ Issued(o, r)
     \/ /\ Refused(IssueRequest(r, o)) \/ GivenUp(IssueRequest(r, o))
        /\ Stay("refresh", o, "restoring add") /\ UNCHANGED snapshot
  /\ UNCHANGED <<drawn, given>>

RestoreAdd(o) ==
  LET r == run["refresh"][o].seen IN
  /\ At("refresh", o, "restoring add")
  /\ \/ Restored(r.outputs) /\ Issued(o, r)
     \/ /\ NotRestored(r.outputs)
        /\ Persist(o, [r EXCEPT !.state = "recoverable"])
        /\ Done("refresh", o) /\ UNCHANGED held
  /\ UNCHANGED <<drawn, given, mint, late>>
-----------------------------------------------------------------------------
(* confirmCashOut, without the operation's lock.                           *)
PreparedMelt(o, send) ==
  [Blank EXCEPT !.state = "dispatching", !.kept = send, !.change = {Change(o)}]

ConfirmCashOut(o, send) ==
  LET record == PreparedMelt(o, send) IN
  /\ New(o)
  /\ Persist(o, record)
  /\ Lose(send)
  /\ Goto("make", o, "melting", record)
  /\ UNCHANGED <<drawn, given, mint, late, faults>>

MeltRequest(r, o) == Request("melt", o, r.kept, r.change)

(* recoverMeltChange: the change that the mint has signed.                 *)
MeltChange(r) == r.change \cap signed

Paid(w, o, r) ==
  /\ Persist(o, [Blank EXCEPT !.state = "paid"])
  /\ Gain(MeltChange(r))
  /\ Done(w, o)

Unclear(w, o, r, state) ==
  /\ Persist(o, [r EXCEPT !.state = state])
  /\ Done(w, o) /\ UNCHANGED held

(* executeMelt: a refusal is an error like any other.                      *)
Melt(o) ==
  LET r == run["make"][o].seen IN
  /\ At("make", o, "melting")
  /\ \/ /\ Answered(MeltRequest(r, o))
        /\ Stay("make", o, "melted") /\ UNCHANGED snapshot
     \/ /\ Refused(MeltRequest(r, o)) \/ GivenUp(MeltRequest(r, o))
        /\ Unclear("make", o, r, "unknown")
  /\ UNCHANGED <<drawn, given>>

MeltAnswer(o) ==
  LET r == run["make"][o].seen IN
  /\ At("make", o, "melted")
  /\ \/ melts[o].state = "paid" /\ Paid("make", o, r) /\ UNCHANGED faults
     \/ melts[o].state = "pending" /\ Unclear("make", o, r, "pending") /\ UNCHANGED faults
     \/ melts[o].state = "unpaid" /\ Unclear("make", o, r, "unknown") /\ UNCHANGED faults
     \/ Fault /\ Unclear("make", o, r, "unknown")
  /\ UNCHANGED <<drawn, given, mint, late>>

(* refreshCashOut up to its first commit, or to the state of its proofs.   *)
CheckMelt(o) ==
  LET r == run["refresh"][o].seen IN
  /\ At("refresh", o, "checking melt")
  /\ \/ melts[o].state = "paid" /\ Paid("refresh", o, r) /\ UNCHANGED faults
     \/ melts[o].state = "pending" /\ Unclear("refresh", o, r, "pending") /\ UNCHANGED faults
     \/ /\ melts[o].state = "unpaid"
        /\ Stay("refresh", o, IF r.outputs = {} THEN "inspecting" ELSE "swapping")
        /\ UNCHANGED <<snapshot, faults>>
     \/ Fault /\ Unclear("refresh", o, r, "unknown")
  /\ UNCHANGED <<drawn, given, mint, late>>

Inspect(o) ==
  LET r == run["refresh"][o].seen IN
  /\ At("refresh", o, "inspecting")
  /\ \/ Live(r.kept) /\ Secure(o, "unknown", r) /\ UNCHANGED <<held, faults>>
     \/ /\ (~Live(r.kept) /\ UNCHANGED faults) \/ Fault
        /\ Unclear("refresh", o, r, "unknown") /\ UNCHANGED drawn
  /\ UNCHANGED <<given, mint, late>>
-----------------------------------------------------------------------------
(* The tab reloads: what its handlers were sending may yet arrive.         *)
Sending(w, o) ==
  LET r == run[w][o].seen IN
  CASE run[w][o].at = "sending"  -> {SendRequest(r, o)}
    [] run[w][o].at = "swapping" -> {SwapRequest(r, o)}
    [] run[w][o].at = "issuing"  -> {IssueRequest(r, o)}
    [] run[w][o].at = "melting"  -> {MeltRequest(r, o)}
    [] OTHER                     -> {}

Reload ==
  /\ \E w \in Handlers, o \in Ops : run[w][o] # Idle
  /\ Fault
  /\ \E sent \in SUBSET UNION {Sending(w, o) : w \in Handlers, o \in Ops} : late' = late \cup sent
  /\ run' = [w \in Handlers |-> [o \in Ops |-> Idle]]
  /\ UNCHANGED <<snapshot, drawn, given, mint>>

Next ==
  \/ \E o \in Sends : \/ \E send \in Selections : CreateOffline(o, send) \/ CreateOutgoing(o, send)
                      \/ \E w \in Handlers : Send(w, o) \/ RestoreSend(w, o)
                      \/ AskToken(o) \/ Reclaim(o) \/ CheckReclaim(o)
  \/ \E o \in Receives : \/ \E token \in {{Incoming(o)}} \cup {ops[s].kept : s \in Sends} : ReceiveToken(o, token)
                         \/ CheckToken(o) \/ Discard(o)
  \/ \E o \in Adds : RequestAdd(o) \/ CheckQuote(o) \/ Issue(o) \/ RestoreAdd(o) \/ Pay(o)
  \/ \E o \in Outs : \/ \E send \in Selections : ConfirmCashOut(o, send)
                     \/ Melt(o) \/ MeltAnswer(o) \/ CheckMelt(o) \/ Inspect(o) \/ Resolve(o)
  \/ \E o \in Ops : Refresh(o) \/ Swap(o) \/ Restore(o)
  \/ \E p \in Proofs : Spend(p)
  \/ \E r \in late : Arrive(r)
  \/ Reload

Spec == Init /\ [][Next]_vars
-----------------------------------------------------------------------------
(* The records are what normalizeOperations accepts, and one that ended    *)
(* well holds no bearer secret.                                            *)
TypeOK ==
  /\ held \in [Proofs -> 0 .. 2]
  /\ ops \in [Ops -> [state : {"none"} \cup SendStates \cup ReceiveStates \cup AddStates
                               \cup OutStates,
                      kept : SUBSET Proofs, inputs : SUBSET Proofs,
                      outputs : SUBSET Proofs, change : SUBSET Proofs]]
  /\ \A o \in Ops :
       /\ ops[o].state = "none" \/
            ops[o].state \in IF o \in Sends THEN SendStates
                            ELSE IF o \in Receives THEN ReceiveStates
                            ELSE IF o \in Adds THEN AddStates ELSE OutStates
       /\ ops[o].state \in {"accepted", "reclaimed", "settled", "paid"} =>
            ops[o] = [Blank EXCEPT !.state = ops[o].state]
  /\ DOMAIN run = Handlers
  /\ \A w \in Handlers, o \in Ops : run[w][o].at = "idle" => run[w][o] = Idle
  /\ drawn \in [Ops -> 0 .. 2]
  /\ given \subseteq Proofs /\ signed \subseteq Proofs /\ spent \subseteq signed
  /\ quotes \in [Adds -> {"unpaid", "paid", "issued"}]
  /\ faults \in 0 .. MaxFaults

(* The balance is real: every proof in it is counted once, would be        *)
(* accepted by the mint now, was shown to nobody, and is neither reserved  *)
(* by an operation nor in a request that may still arrive.                 *)
BalanceIsReal ==
  /\ \A p \in Spendable : held[p] = 1
  /\ Live(Spendable)
  /\ Spendable \cap given = {}
  /\ \A o \in Ops : Spendable \cap (ops[o].kept \cup ops[o].inputs) = {}
  /\ \A r \in late : Spendable \cap r.inputs = {}

(* No value is lost or doubled: a proof the mint would still accept is in  *)
(* the balance or in an operation that can recover it, through lost        *)
(* answers, late requests and reloads; and the balance is real.            *)
ValueIsInOnePlace ==
  /\ signed \ (spent \cup {Incoming(o) : o \in Receives}) \subseteq
       Spendable \cup UNION {ops[o].kept \cup ops[o].inputs \cup ops[o].outputs
                               \cup ops[o].change : o \in Ops}
  /\ BalanceIsReal

(* What an ended operation shows is what happened, and stays so.  Activity *)
(* says of an accepted token that the recipient spent it, of a reclaimed   *)
(* one that its value was swapped back, of a failed receipt that it did    *)
(* not settle, and of a failed cash-out that its value was recovered.      *)
OutcomesAreTrue ==
  LET recovered(o) == \E n \in 0 .. 1 : Fresh(o, n) \in signed
      pending(o) == \E r \in late : r.op = o /\ Live(r.inputs)
  IN
  /\ \A o \in Sends :
       /\ ops[o].state = "accepted" => ~recovered(o) /\ ~pending(o)
       /\ ops[o].state = "reclaimed" => recovered(o)
  /\ \A o \in Receives :
       /\ ops[o].state = "settled" => recovered(o)
       /\ ops[o].state = "failed" => ~recovered(o) /\ ~pending(o)
  /\ \A o \in Adds : ops[o].state = "settled" => quotes[o] = "issued"
  /\ \A o \in Outs :
       /\ ops[o].state = "paid" => melts[o].state = "paid"
       /\ ops[o].state = "failed" => recovered(o) /\ melts[o].state = "unpaid" /\ ~pending(o)

(* What the wallet has set aside, and what it has spent: a token somebody  *)
(* else made is neither, even when a record has it.                        *)
Theirs == {Incoming(o) : o \in Receives}
SetAside ==
  (signed \ (spent \cup Theirs)) \cap
    UNION {ops[o].kept \cup ops[o].inputs \cup ops[o].outputs \cup ops[o].change : o \in Ops}

Vault == INSTANCE Vault WITH
  made <- signed \ Theirs,
  spendable <- Spendable,
  aside <- SetAside,
  spent <- spent \ Theirs

(* The wallet keeps a vault: no lost answer, late request, recipient or    *)
(* reload spends what is spendable, drops what an operation holds, or      *)
(* brings back what was spent (App.tsx's saves around its calls).          *)
ImplementsVault == Vault!Spec
==============================================================================
