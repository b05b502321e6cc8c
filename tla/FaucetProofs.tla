---------------------------- MODULE FaucetProofs ----------------------------
(***************************************************************************)
(* Proofs about the faucet, for any quotes, times and limits: FaucetClaims *)
(* sends an invoice to the node only when the node knows no payment of it, *)
(* and what a claim was told holds from then on; FaucetBudget keeps within *)
(* its limits however claims are paid and scrubbed.                        *)
(***************************************************************************)
EXTENDS FaucetClaims, FaucetBudget, FiniteSetTheorems, TLAPS

Row == [state : States, code : Codes, attempts : Nat, attemptedAt : Nat \cup {Never},
        updatedAt : Nat, known : BOOLEAN]

(* The snapshot of a pass has rows of the table, as they once were.        *)
LoopHolds ==
  /\ {"running", "snap", "cur"} \subseteq DOMAIN loop
  /\ \A q \in DOMAIN loop.snap : loop.snap[q] \in Row

(* One task at a time: a new claim has no row until its task inserts it,   *)
(* and the node knows no payment of a quote without a row.                 *)
TaskHolds(q) ==
  /\ task[q].pc \in {"newquote", "invoice"} => q \notin Stored
  /\ task[q].pc \in {"quote", "payment", "send"} => q \in Stored
  /\ q \notin Stored => payer[q] = "none"

(* A row being sent says so, unless scrub has found it meanwhile.          *)
SendHolds(q) ==
  At(q, "send") => payer[q] = "none" /\ claims[q].state \in {"dispatching", "recoverable"}

(* A claim that failed was refused by the node, or was never sent and has  *)
(* an invoice that is too old to be.                                       *)
Hopeless(q) ==
  /\ q \in Stored /\ ~At(q, "send")
  /\ payer[q] = "Failed" \/ (payer[q] = "none" /\ Expiry <= now)

FailedHolds(q) == q \in Stored /\ claims[q].state = "failed" => Hopeless(q)

PaidHolds(q) ==
  q \in Stored /\ claims[q].state \in {"paid", "issued"} =>
    payer[q] = "Success" \/ mint[q] # "unpaid"

QuoteHolds(q) == TaskHolds(q) /\ SendHolds(q) /\ FailedHolds(q) /\ PaidHolds(q)

CInv == TypeOK /\ LoopHolds /\ \A q \in Quotes : QuoteHolds(q)

LEMMA Numbers ==
  /\ {Cooldown, Retention, Day} \subseteq Nat \ {0} /\ RecoveryDelay \in Nat \ {0}
  /\ {Margin, Expiry, MaxTime, MaxFaults} \subseteq Nat /\ None \notin Quotes
  /\ Never \notin Nat
BY StoreAssumption, ClaimAssumption DEF Never
-----------------------------------------------------------------------------
(* What the parts of TypeOK are about.                                     *)
ClaimTypes == Stored \subseteq Quotes /\ \A q \in Stored : claims[q] \in Row

TaskTypes ==
  /\ task \in [Quotes -> [pc : Steps, rec : {None} \cup Attempted]]
  /\ \A q \in Quotes : At(q, "quote") \/ At(q, "payment") => task[q].rec \in Attempted

LoopTypes ==
  /\ loop.running \in BOOLEAN /\ loop.cur \in Quotes \cup {None}
  /\ DOMAIN loop.snap \subseteq Stored /\ LoopHolds

OtherTypes ==
  /\ mint \in [Quotes -> {"unpaid", "paid", "issued"}]
  /\ payer \in [Quotes -> Sessions]
  /\ now \in 0 .. MaxTime /\ faults \in 0 .. MaxFaults

LEMMA Types == CInv <=> /\ ClaimTypes /\ TaskTypes /\ LoopTypes /\ OtherTypes
                        /\ \A q \in Quotes : QuoteHolds(q)
BY DEF CInv, TypeOK, ClaimTypes, TaskTypes, LoopTypes, OtherTypes, Row

LEMMA TypesNext ==
  ClaimTypes' /\ TaskTypes' /\ LoopTypes' /\ OtherTypes' /\ (\A q \in Quotes : QuoteHolds(q)') => CInv'
BY DEF CInv, TypeOK, ClaimTypes, TaskTypes, LoopTypes, OtherTypes, Row

(* A quote that a step leaves alone.                                       *)
Same(q) ==
  /\ q \in Stored' <=> q \in Stored
  /\ q \in Stored => claims'[q] = claims[q]
  /\ task'[q] = task[q] /\ payer'[q] = payer[q] /\ mint'[q] = mint[q] /\ now' = now

LEMMA SameHolds == ASSUME NEW q \in Quotes, QuoteHolds(q), Same(q) PROVE QuoteHolds(q)'
BY DEF Same, QuoteHolds, TaskHolds, SendHolds, FailedHolds, Hopeless, PaidHolds, At
-----------------------------------------------------------------------------
(* What the helpers of the handlers do.                                    *)
LEMMA TransitionRow ==
  ASSUME NEW row \in Row, NEW t \in Nat, NEW state \in States, NEW code \in Codes
  PROVE  Transition(row, state, code, t) \in Row /\ Transition(row, state, code, t).state = state
BY DEF Row, States, Open, Codes, Held, Transition

LEMMA RowSteps ==
  ASSUME NEW row \in Row, NEW t \in Nat
  PROVE  /\ MarkAttempt(row, t) \in Row /\ MarkAttempt(row, t).state = "dispatching"
         /\ NewPayment(t) \in Row /\ NewPayment(t).state = "dispatching"
         /\ ScrubPayment(row, t) \in Row
         /\ ScrubPayment(row, t).state \in {row.state, "recoverable"}
         /\ ReadBy(row) \in Attempted
<1> USE DEF Row, States, Open, Codes, Held
<1>1. MarkAttempt(row, t) \in Row /\ MarkAttempt(row, t).state = "dispatching"
  <2> DEFINE first == [row EXCEPT !.state = "dispatching", !.code = "none", !.updatedAt = t]
             counted == [first EXCEPT !.attempts = @ + 1]
  <2>1. first \in Row /\ first.state = "dispatching"
    OBVIOUS
  <2> HIDE DEF first
  <2>2. counted \in Row /\ counted.state = "dispatching"
    BY <2>1
  <2>3. MarkAttempt(row, t) = [counted EXCEPT !.attemptedAt = t]
    BY DEF MarkAttempt, first
  <2> HIDE DEF counted
  <2> QED
    BY <2>2, <2>3
<1>2. NewPayment(t) \in Row /\ NewPayment(t).state = "dispatching"
  BY DEF NewPayment
<1>3. /\ ScrubPayment(row, t) \in Row
      /\ ScrubPayment(row, t).state \in {row.state, "recoverable"}
  BY DEF ScrubPayment
<1>4. ReadBy(row) \in Attempted
  BY DEF ReadBy, Attempted
<1> QED
  BY <1>1, <1>2, <1>3, <1>4

LEMMA GotoTypes ==
  ASSUME TaskTypes, LoopTypes, NEW q \in Quotes, NEW pc \in Steps, Goto(q, pc),
         pc \in {"quote", "payment"} => task[q].rec \in Attempted
  PROVE  /\ TaskTypes' /\ task'[q].pc = pc /\ loop' = loop
         /\ \A r \in Quotes \ {q} : task'[r] = task[r]
BY DEF TaskTypes, Goto, At

LEMMA FinishTypes ==
  ASSUME TaskTypes, LoopTypes, NEW q \in Quotes, Finish(q), Stored' = Stored
  PROVE  /\ TaskTypes' /\ LoopTypes' /\ task'[q].pc = "idle"
         /\ \A r \in Quotes \ {q} : task'[r] = task[r]
<1>1. TaskTypes' /\ task'[q].pc = "idle" /\ \A r \in Quotes \ {q} : task'[r] = task[r]
  BY DEF TaskTypes, Finish, Resting, At, Steps
<1>2. /\ loop'.running = loop.running /\ loop'.snap = loop.snap /\ loop'.cur \in {loop.cur, None}
      /\ DOMAIN loop' = DOMAIN loop
  BY DEF LoopTypes, LoopHolds, Finish
<1>3. LoopTypes'
  BY <1>2 DEF LoopTypes, LoopHolds
<1> QED
  BY <1>1, <1>3

LEMMA ConcludeTypes ==
  ASSUME CInv, NEW q \in Quotes, q \in Stored, NEW state \in States, NEW code \in Codes,
         Conclude(q, state, code)
  PROVE  /\ ClaimTypes' /\ TaskTypes' /\ LoopTypes' /\ Stored' = Stored
         /\ claims'[q].state = state /\ task'[q].pc = "idle"
         /\ \A r \in Quotes \ {q} : task'[r] = task[r]
         /\ \A r \in Stored \ {q} : claims'[r] = claims[r]
<1>1. ClaimTypes /\ TaskTypes /\ LoopTypes /\ now \in Nat
  BY Types DEF OtherTypes
<1>2. /\ Stored' = Stored /\ claims'[q] = Transition(claims[q], state, code, now)
      /\ \A r \in Stored \ {q} : claims'[r] = claims[r]
  BY DEF Conclude, Stored
<1>3. ClaimTypes' /\ claims'[q].state = state
  BY <1>1, <1>2, TransitionRow DEF ClaimTypes
<1> QED
  BY <1>1, <1>2, <1>3, FinishTypes DEF Conclude
-----------------------------------------------------------------------------
(* A step of one quote.                                                    *)
LEMMA OneQuote ==
  ASSUME CInv, NEW q \in Quotes, ClaimTypes', TaskTypes', LoopTypes', OtherTypes',
         \A r \in Quotes \ {q} : Same(r), QuoteHolds(q)'
  PROVE  CInv'
<1>1. ASSUME NEW r \in Quotes PROVE QuoteHolds(r)'
  BY SameHolds DEF CInv
<1> QED
  BY <1>1, TypesNext

Counted == faults' \in 0 .. MaxFaults

LEMMA Faults == ASSUME CInv, UNCHANGED faults \/ Fault PROVE Counted
BY Numbers DEF CInv, TypeOK, Fault, Counted

(* A task that ends without a word, and one that goes on to a call other   *)
(* than the payment.                                                       *)
LEMMA FinishHolds ==
  ASSUME CInv, NEW q \in Quotes, Finish(q), UNCHANGED <<claims, mint, payer, now>>, Counted
  PROVE  CInv'
<1>1. ClaimTypes' /\ OtherTypes'
  BY Types DEF ClaimTypes, OtherTypes, Stored, Counted
<1>2. /\ TaskTypes' /\ LoopTypes' /\ task'[q].pc = "idle" /\ Stored' = Stored
      /\ \A r \in Quotes \ {q} : Same(r)
  BY Types, FinishTypes DEF Stored, Same
<1>3. QuoteHolds(q)'
  BY <1>2 DEF CInv, QuoteHolds, TaskHolds, SendHolds, FailedHolds, Hopeless, PaidHolds, At
<1> QED
  BY <1>1, <1>2, <1>3, OneQuote

LEMMA GotoHolds ==
  ASSUME CInv, NEW q \in Quotes, NEW pc \in {"invoice", "payment"}, Goto(q, pc),
         UNCHANGED <<claims, mint, payer, now>>, Counted,
         pc = "invoice" => q \notin Stored,
         pc = "payment" => q \in Stored /\ task[q].rec \in Attempted
  PROVE  CInv'
<1>1. ClaimTypes' /\ OtherTypes' /\ Stored' = Stored
  BY Types DEF ClaimTypes, OtherTypes, Stored, Counted
<1>2. /\ TaskTypes' /\ loop' = loop /\ task'[q].pc = pc
      /\ \A r \in Quotes \ {q} : task'[r] = task[r]
  BY Types, GotoTypes DEF Steps
<1>3. LoopTypes' /\ \A r \in Quotes \ {q} : Same(r)
  BY <1>1, <1>2, Types DEF LoopTypes, LoopHolds, Same
<1>4. QuoteHolds(q)'
  BY <1>1, <1>2 DEF CInv, QuoteHolds, TaskHolds, SendHolds, FailedHolds, Hopeless, PaidHolds, At
<1> QED
  BY <1>1, <1>2, <1>3, <1>4, OneQuote

(* A task that ends with an outcome, which the node or the mint bears out. *)
Borne(q, state) ==
  /\ state = "failed" => payer'[q] = "Failed" \/ (payer'[q] = "none" /\ Expiry <= now)
  /\ state \in {"paid", "issued"} => payer'[q] = "Success" \/ mint[q] # "unpaid"

PayerMoves(q) ==
  /\ payer' \in [Quotes -> Sessions]
  /\ \A r \in Quotes \ {q} : payer'[r] = payer[r]

LEMMA ConcludeHolds ==
  ASSUME CInv, NEW q \in Quotes, q \in Stored, NEW state \in States, NEW code \in Codes,
         Conclude(q, state, code), UNCHANGED <<mint, now>>, Counted, PayerMoves(q), Borne(q, state)
  PROVE  CInv'
<1>1. OtherTypes'
  BY Types DEF OtherTypes, Counted, PayerMoves
<1>2. /\ ClaimTypes' /\ TaskTypes' /\ LoopTypes' /\ Stored' = Stored
      /\ claims'[q].state = state /\ task'[q].pc = "idle"
      /\ \A r \in Quotes \ {q} : task'[r] = task[r]
      /\ \A r \in Stored \ {q} : claims'[r] = claims[r]
  BY ConcludeTypes
<1>3. \A r \in Quotes \ {q} : Same(r)
  BY <1>2 DEF Same, PayerMoves
<1>4. QuoteHolds(q)'
  BY <1>2 DEF QuoteHolds, TaskHolds, SendHolds, FailedHolds, Hopeless, PaidHolds, At, Borne
<1> QED
  BY <1>1, <1>2, <1>3, <1>4, OneQuote

(* An invoice is sent for a stored row when the node knows no session.     *)
LEMMA DispatchHolds ==
  ASSUME CInv, NEW q \in Quotes, q \in Stored, payer[q] = "none", Dispatch(q),
         UNCHANGED <<mint, payer, now>>, Counted
  PROVE  CInv'
<1>1. ClaimTypes /\ now \in Nat
  BY Types DEF OtherTypes
<1>2. /\ Stored' = Stored /\ claims'[q] = MarkAttempt(claims[q], now)
      /\ \A r \in Stored \ {q} : claims'[r] = claims[r]
  BY DEF Dispatch, Stored
<1>3. ClaimTypes' /\ claims'[q].state = "dispatching"
  BY <1>1, <1>2, RowSteps DEF ClaimTypes
<1>4. /\ TaskTypes' /\ loop' = loop /\ task'[q].pc = "send"
      /\ \A r \in Quotes \ {q} : task'[r] = task[r]
  BY Types, GotoTypes DEF Dispatch, Steps
<1>5. LoopTypes' /\ OtherTypes'
  BY <1>2, <1>4, Types DEF LoopTypes, LoopHolds, OtherTypes, Counted
<1>6. \A r \in Quotes \ {q} : Same(r)
  BY <1>2, <1>4 DEF Same
<1>7. QuoteHolds(q)'
  BY <1>2, <1>3, <1>4 DEF QuoteHolds, TaskHolds, SendHolds, FailedHolds, PaidHolds, At
<1> QED
  BY <1>3, <1>4, <1>5, <1>6, <1>7, OneQuote
-----------------------------------------------------------------------------
(* The handlers.                                                           *)
LEMMA StartHolds == ASSUME CInv, NEW q \in Quotes, StartClaim(q) PROVE CInv'
<1>1. /\ Stored' = Stored /\ loop' = loop /\ UNCHANGED <<claims, mint, payer, now, faults>>
      /\ task' = [task EXCEPT ![q] = IF q \in Stored THEN [pc |-> "quote", rec |-> ReadBy(claims[q])]
                                                    ELSE [pc |-> "newquote", rec |-> None]]
  BY DEF StartClaim, Stored, upstream
<1>2. /\ q \in Stored => ReadBy(claims[q]) \in Attempted
      /\ ClaimTypes /\ TaskTypes /\ LoopTypes /\ OtherTypes
  BY RowSteps, Types DEF ClaimTypes, OtherTypes
<1>3. TaskTypes' /\ (q \in Stored => task'[q].pc = "quote") /\ (q \notin Stored => task'[q].pc = "newquote")
  BY <1>1, <1>2 DEF TaskTypes, At, Steps
<1>4. \A r \in Quotes \ {q} : Same(r)
  BY <1>1, <1>2 DEF TaskTypes, Same
<1>5. ClaimTypes' /\ LoopTypes' /\ OtherTypes'
  BY <1>1, <1>2 DEF ClaimTypes, LoopTypes, LoopHolds, OtherTypes
<1>6. QuoteHolds(q)'
  BY <1>1, <1>3 DEF CInv, QuoteHolds, TaskHolds, SendHolds, FailedHolds, Hopeless, PaidHolds, At
<1> QED
  BY <1>3, <1>4, <1>5, <1>6, OneQuote

LEMMA NewQuoteHolds == ASSUME CInv, NEW q \in Quotes, NewQuoteAnswered(q) PROVE CInv'
<1>1. UNCHANGED <<claims, mint, payer, now>> /\ Counted /\ q \notin Stored
  BY Faults DEF NewQuoteAnswered, upstream, CInv, QuoteHolds, TaskHolds, At
<1>2. Goto(q, "invoice") \/ Finish(q)
  BY DEF NewQuoteAnswered
<1> QED
  BY <1>1, <1>2, GotoHolds, FinishHolds

(* Without a task, a quote keeps what its row says.                        *)
LEMMA RestHolds ==
  ASSUME CInv, ClaimTypes', task' = [q \in Quotes |-> Resting], loop' = NoPass,
         UNCHANGED <<mint, payer, now>>, Counted, Stored \subseteq Stored',
         \A q \in Stored : claims'[q] = claims[q],
         \A q \in Stored' \ Stored : claims'[q].state = "dispatching"
  PROVE  CInv'
<1>1. TaskTypes'
  BY DEF TaskTypes, Resting, Steps, At
<1>2. LoopTypes'
  BY DEF LoopTypes, LoopHolds, NoPass
<1>3. OtherTypes'
  BY Types DEF OtherTypes, Counted
<1>4. ASSUME NEW q \in Quotes PROVE QuoteHolds(q)'
  <2>1. QuoteHolds(q) /\ task'[q].pc = "idle"
    BY DEF CInv, Resting
  <2>2. q \in Stored' /\ q \notin Stored => claims'[q].state = "dispatching"
    OBVIOUS
  <2> QED
    BY <2>1, <2>2 DEF QuoteHolds, TaskHolds, SendHolds, FailedHolds, Hopeless, PaidHolds, At
<1> QED
  BY <1>1, <1>2, <1>3, <1>4, TypesNext

(* A new claim is inserted and sent, or the process stops in between.      *)
LEMMA ReserveHolds == ASSUME CInv, NEW q \in Quotes, Reserve(q) PROVE CInv'
<1>1. /\ q \notin Stored /\ payer[q] = "none" /\ now \in Nat
      /\ UNCHANGED <<mint, payer, now>>
      /\ ClaimTypes /\ TaskTypes /\ LoopTypes /\ OtherTypes
  BY Types DEF Reserve, upstream, CInv, QuoteHolds, TaskHolds, At, TypeOK
<1>2. ASSUME NEW row \in Row, row.state = "dispatching", Insert(q, row)
      PROVE  /\ Stored' = Stored \cup {q} /\ ClaimTypes' /\ claims'[q].state = "dispatching"
             /\ \A r \in Stored : claims'[r] = claims[r]
  BY <1>1, <1>2 DEF Insert, ClaimTypes, Stored
<1>3. CASE Insert(q, MarkAttempt(NewPayment(now), now)) /\ Goto(q, "send") /\ UNCHANGED faults
  <2>1. /\ NewPayment(now) \in Row /\ MarkAttempt(NewPayment(now), now) \in Row
        /\ MarkAttempt(NewPayment(now), now).state = "dispatching"
    <3>1. \A row \in Row : /\ MarkAttempt(row, now) \in Row
                           /\ MarkAttempt(row, now).state = "dispatching"
      BY <1>1, RowSteps
    <3>2. NewPayment(now) \in Row
      BY <1>1 DEF NewPayment, Row, States, Open, Codes, Held
    <3> QED
      BY <3>1, <3>2
  <2>2. /\ Stored' = Stored \cup {q} /\ ClaimTypes' /\ claims'[q].state = "dispatching"
        /\ \A r \in Stored : claims'[r] = claims[r]
    BY <1>2, <1>3, <2>1
  <2>3. /\ TaskTypes' /\ loop' = loop /\ task'[q].pc = "send"
        /\ \A r \in Quotes \ {q} : task'[r] = task[r]
    BY <1>1, <1>3, GotoTypes DEF Steps
  <2>4. LoopTypes' /\ OtherTypes'
    BY <1>1, <1>3, <2>2, <2>3 DEF LoopTypes, LoopHolds, OtherTypes
  <2>5. \A r \in Quotes \ {q} : Same(r)
    BY <1>1, <2>2, <2>3 DEF Same
  <2>6. QuoteHolds(q)'
    BY <1>1, <2>2, <2>3 DEF QuoteHolds, TaskHolds, SendHolds, FailedHolds, PaidHolds, At
  <2> QED
    BY <2>2, <2>3, <2>4, <2>5, <2>6, OneQuote
<1>4. CASE Insert(q, NewPayment(now)) /\ CrashNow
  <2>1. NewPayment(now) \in Row /\ NewPayment(now).state = "dispatching"
    BY <1>1 DEF NewPayment, Row, States, Open, Codes, Held
  <2>2. /\ Stored' = Stored \cup {q} /\ ClaimTypes' /\ claims'[q].state = "dispatching"
        /\ \A r \in Stored : claims'[r] = claims[r]
    BY <1>2, <1>4, <2>1
  <2>3. Counted /\ loop' = NoPass /\ task' = [r \in Quotes |-> Resting]
    BY <1>4, Faults DEF CrashNow
  <2> QED
    BY <1>1, <2>2, <2>3, RestHolds
<1>5. CASE Finish(q) /\ UNCHANGED <<claims, faults>>
  BY <1>1, <1>5, FinishHolds, Faults
<1> QED
  BY <1>3, <1>4, <1>5 DEF Reserve

LEMMA CrashHolds == ASSUME CInv, Crash PROVE CInv'
<1>1. /\ Counted /\ loop' = NoPass /\ task' = [r \in Quotes |-> Resting]
      /\ UNCHANGED <<claims, mint, payer, now>>
  BY Faults DEF Crash, CrashNow, upstream
<1>2. ClaimTypes' /\ Stored' = Stored /\ \A q \in Stored : claims'[q] = claims[q]
  BY <1>1, Types DEF ClaimTypes, Stored
<1> QED
  BY <1>1, <1>2, RestHolds

LEMMA QuoteAnswerHolds == ASSUME CInv, NEW q \in Quotes, QuoteAnswered(q) PROVE CInv'
<1>1. /\ q \in Stored /\ task[q].rec \in Attempted /\ UNCHANGED <<mint, payer, now>> /\ PayerMoves(q)
      /\ mint[q] \in {"unpaid", "paid", "issued"}
  BY DEF QuoteAnswered, upstream, CInv, QuoteHolds, TaskHolds, At, TypeOK, PayerMoves
<1>2. PICK answer \in QuoteAnswers(q) :
       \/ answer \in {"issued", "paid"} /\ Conclude(q, answer, "none") /\ UNCHANGED faults
       \/ /\ answer = "unpaid"
          /\ IF task[q].rec.state = "failed" THEN Finish(q) ELSE Goto(q, "payment")
          /\ UNCHANGED <<claims, faults>>
       \/ answer = "changed" /\ Conclude(q, "recoverable", "review") /\ Fault
       \/ answer = "error" /\ Finish(q) /\ Fault /\ UNCHANGED claims
  BY DEF QuoteAnswered
<1>3. Counted
  BY <1>2, Faults
<1>4. CASE answer \in {"issued", "paid"} /\ Conclude(q, answer, "none")
  <2>1. mint[q] = answer /\ answer \in States /\ "none" \in Codes
    BY <1>4 DEF QuoteAnswers, States, Codes
  <2> QED
    BY <1>1, <1>3, <1>4, <2>1, ConcludeHolds DEF Borne
<1>5. CASE Conclude(q, "recoverable", "review")
  <2>1. "recoverable" \in States /\ "review" \in Codes
    BY DEF States, Open, Codes, Held
  <2> QED
    BY <1>1, <1>3, <1>5, <2>1, ConcludeHolds DEF Borne
<1>6. CASE (Finish(q) \/ Goto(q, "payment")) /\ UNCHANGED claims
  BY <1>1, <1>3, <1>6, FinishHolds, GotoHolds
<1> QED
  BY <1>2, <1>4, <1>5, <1>6

(* The node's answers: only "none" lets the invoice be sent.               *)
LEMMA AppliedHolds ==
  ASSUME CInv, NEW q \in Quotes, q \in Stored, NEW session \in Sessions \ {"none"},
         ApplyPayment(q, session), UNCHANGED <<mint, now>>, Counted, PayerMoves(q),
         payer'[q] = session
  PROVE  CInv'
<1>1. /\ StateOf(session) \in States
      /\ (IF session = "Failed" THEN "transient" ELSE "none") \in Codes
      /\ Borne(q, StateOf(session))
  BY DEF StateOf, States, Open, Codes, Borne
<1> QED
  BY <1>1, ConcludeHolds DEF ApplyPayment

LEMMA UnknownHolds ==
  ASSUME CInv, NEW q \in Quotes, q \in Stored, NEW code \in Codes,
         Conclude(q, "recoverable", code), UNCHANGED <<mint, now>>, Counted, PayerMoves(q)
  PROVE  CInv'
<1>1. "recoverable" \in States
  BY DEF States, Open
<1> QED
  BY <1>1, ConcludeHolds DEF Borne

LEMMA NoSessionHolds ==
  ASSUME CInv, NEW q \in Quotes, q \in Stored, NoSession(q), payer[q] = "none",
         UNCHANGED <<mint, payer, now>>, Counted, PayerMoves(q)
  PROVE  CInv'
<1>1. \/ Finish(q) /\ UNCHANGED claims
      \/ Conclude(q, "recoverable", "transient")
      \/ Expiry <= now /\ Conclude(q, "failed", "transient")
      \/ Conclude(q, "recoverable", "review")
      \/ Dispatch(q)
  BY DEF NoSession, Unknown
<1>2. {"transient", "review"} \subseteq Codes /\ "failed" \in States
  BY DEF Codes, Held, States
<1>3. Expiry <= now => Borne(q, "failed")
  BY DEF Borne
<1> QED
  BY <1>1, <1>2, <1>3, FinishHolds, UnknownHolds, ConcludeHolds, DispatchHolds

LEMMA PaymentAnswerHolds == ASSUME CInv, NEW q \in Quotes, PaymentAnswered(q) PROVE CInv'
<1>1. /\ q \in Stored /\ UNCHANGED <<mint, payer, now>> /\ PayerMoves(q) /\ payer[q] \in Sessions
  BY DEF PaymentAnswered, upstream, CInv, QuoteHolds, TaskHolds, At, TypeOK, PayerMoves
<1>2. PICK answer \in PaymentAnswers(q) :
       \/ answer \in Sessions \ {"none"} /\ ApplyPayment(q, answer) /\ UNCHANGED faults
       \/ answer = "none" /\ NoSession(q) /\ UNCHANGED faults
       \/ answer = "error" /\ Unknown(q) /\ Fault
       \/ answer = "mismatch" /\ Conclude(q, "recoverable", "mismatch") /\ Fault
  BY DEF PaymentAnswered
<1>3. Counted
  BY <1>2, Faults
<1>4. CASE answer \in Sessions \ {"none"} /\ ApplyPayment(q, answer)
  <2>1. payer'[q] = answer
    BY <1>1, <1>4 DEF PaymentAnswers, Sessions
  <2> QED
    BY <1>1, <1>3, <1>4, <2>1, AppliedHolds
<1>5. CASE answer = "none" /\ NoSession(q)
  <2>1. payer[q] = "none"
    BY <1>5 DEF PaymentAnswers
  <2> QED
    BY <1>1, <1>3, <1>5, <2>1, NoSessionHolds
<1>6. CASE Unknown(q) \/ Conclude(q, "recoverable", "mismatch")
  <2>1. {"transient", "mismatch"} \subseteq Codes
    BY DEF Codes, Held
  <2> QED
    BY <1>1, <1>3, <1>6, <2>1, UnknownHolds DEF Unknown
<1> QED
  BY <1>2, <1>4, <1>5, <1>6

LEMMA SendAnswerHolds == ASSUME CInv, NEW q \in Quotes, SendAnswered(q) PROVE CInv'
<1>1. /\ q \in Stored /\ UNCHANGED <<mint, now>> /\ payer \in [Quotes -> Sessions]
      /\ {"transient", "mismatch"} \subseteq Codes
  BY DEF SendAnswered, CInv, QuoteHolds, TaskHolds, At, TypeOK, Codes, Held
<1>2. ASSUME NEW session \in Sessions \ {"none"}, NodeAccepts(q, session)
      PROVE  PayerMoves(q) /\ payer'[q] = session
  BY <1>1, <1>2 DEF NodeAccepts, PayerMoves, Sessions
<1>3. CASE Answered(q)
  <2>1. PICK session \in Sessions \ {"none"} :
          NodeAccepts(q, session) /\ ApplyPayment(q, session) /\ UNCHANGED faults
    BY <1>3 DEF Answered
  <2>2. PayerMoves(q) /\ payer'[q] = session /\ Counted
    BY <1>2, <2>1, Faults
  <2> QED
    BY <1>1, <2>1, <2>2, AppliedHolds
<1>4. CASE Refused(q)
  <2>1. Counted /\ PayerMoves(q)
    BY <1>1, <1>4, Faults DEF Refused, PayerMoves
  <2> QED
    BY <1>1, <1>4, <2>1, UnknownHolds DEF Refused, Unknown
<1>5. CASE AnswerLost(q)
  <2>1. Counted /\ PayerMoves(q)
    BY <1>2, <1>5, Faults DEF AnswerLost
  <2> QED
    BY <1>1, <1>5, <2>1, UnknownHolds DEF AnswerLost, Unknown
<1>6. CASE Conclude(q, "recoverable", "mismatch") /\ Fault /\ UNCHANGED payer
  <2>1. Counted /\ PayerMoves(q)
    BY <1>1, <1>6, Faults DEF PayerMoves
  <2> QED
    BY <1>1, <1>6, <2>1, UnknownHolds
<1> QED
  BY <1>3, <1>4, <1>5, <1>6 DEF SendAnswered

(* The reconciliation pass.                                                *)
LEMMA LoopStartHolds == ASSUME CInv, LoopStart PROVE CInv'
<1>1. UNCHANGED <<claims, task, mint, payer, now, faults>> /\ Stored' = Stored
  BY DEF LoopStart, upstream, Stored
<1>2. ClaimTypes' /\ TaskTypes' /\ OtherTypes'
  BY <1>1, Types DEF ClaimTypes, TaskTypes, OtherTypes, At
<1>3. /\ DOMAIN loop' = {"running", "cur", "snap"} /\ loop'.running = TRUE /\ loop'.cur = None
      /\ loop'.snap = [q \in {r \in Stored : IsOpen(claims[r])} |-> claims[q]]
  BY DEF LoopStart, Restrict
<1>4. LoopTypes'
  BY <1>1, <1>3, Types DEF LoopTypes, LoopHolds, ClaimTypes
<1>5. \A q \in Quotes : QuoteHolds(q)'
  BY <1>1, SameHolds DEF Same, CInv
<1> QED
  BY <1>2, <1>4, <1>5, TypesNext

LEMMA LoopNextHolds == ASSUME CInv, NEW q \in Quotes, LoopNext(q) PROVE CInv'
<1>1. /\ UNCHANGED <<claims, mint, payer, now, faults>> /\ Stored' = Stored
      /\ q \in DOMAIN loop.snap /\ q \in Stored
      /\ ClaimTypes /\ TaskTypes /\ LoopTypes /\ OtherTypes
  BY Types DEF LoopNext, upstream, Stored, LoopTypes
<1>2. ClaimTypes' /\ OtherTypes'
  BY <1>1 DEF ClaimTypes, OtherTypes
<1>3. /\ DOMAIN loop' = DOMAIN loop /\ loop'.running = loop.running /\ loop'.cur \in {q, None}
      /\ loop'.snap = [r \in DOMAIN loop.snap \ {q} |-> loop.snap[r]]
  BY <1>1 DEF LoopNext, LoopTypes, LoopHolds, Restrict
<1>4. LoopTypes'
  BY <1>1, <1>3 DEF LoopTypes, LoopHolds
<1>5. CASE ~At(q, "idle")
  <2>1. task' = task
    BY <1>5 DEF LoopNext
  <2>2. TaskTypes' /\ \A r \in Quotes : Same(r)
    BY <1>1, <2>1 DEF TaskTypes, At, Same
  <2> QED
    BY <1>2, <1>4, <2>2, SameHolds, TypesNext DEF CInv
<1>6. CASE At(q, "idle")
  <2>1. ReadBy(loop.snap[q]) \in Attempted
    BY <1>1, RowSteps DEF LoopTypes, LoopHolds, OtherTypes
  <2>2. task' = [task EXCEPT ![q] = [pc |-> "quote", rec |-> ReadBy(loop.snap[q])]]
    BY <1>6 DEF LoopNext
  <2>3. TaskTypes' /\ task'[q].pc = "quote" /\ \A r \in Quotes \ {q} : Same(r)
    BY <1>1, <2>1, <2>2 DEF TaskTypes, At, Steps, Same
  <2>4. QuoteHolds(q)'
    BY <1>1, <2>3 DEF CInv, QuoteHolds, TaskHolds, SendHolds, FailedHolds, Hopeless, PaidHolds, At
  <2> QED
    BY <1>2, <1>4, <2>3, <2>4, OneQuote
<1> QED
  BY <1>5, <1>6

LEMMA LoopEndHolds == ASSUME CInv, LoopEnd PROVE CInv'
<1>1. /\ UNCHANGED <<task, mint, payer, now, faults>> /\ loop' = NoPass
      /\ Stored' = Stored /\ \A q \in Stored : claims'[q] = ScrubPayment(claims[q], now)
      /\ ClaimTypes /\ TaskTypes /\ OtherTypes /\ now \in Nat
  BY Types DEF LoopEnd, upstream, Stored, OtherTypes
<1>2. \A q \in Stored : /\ ScrubPayment(claims[q], now) \in Row
                        /\ ScrubPayment(claims[q], now).state \in {claims[q].state, "recoverable"}
  BY <1>1, RowSteps DEF ClaimTypes
<1>3. ClaimTypes' /\ TaskTypes' /\ OtherTypes'
  BY <1>1, <1>2 DEF ClaimTypes, TaskTypes, OtherTypes, At
<1>4. LoopTypes'
  BY <1>1 DEF LoopTypes, LoopHolds, NoPass
<1>5. ASSUME NEW q \in Quotes PROVE QuoteHolds(q)'
  <2>1. q \in Stored => claims'[q].state \in {claims[q].state, "recoverable"}
    BY <1>1, <1>2
  <2> QED
    BY <1>1, <2>1 DEF CInv, QuoteHolds, TaskHolds, SendHolds, FailedHolds, Hopeless, PaidHolds, At
<1> QED
  BY <1>3, <1>4, <1>5, TypesNext

(* The node and the mint go on, and time passes.                           *)
LEMMA OutsideHolds ==
  ASSUME CInv, UNCHANGED <<claims, task, loop, faults>>,
         mint' \in [Quotes -> {"unpaid", "paid", "issued"}], payer' \in [Quotes -> Sessions],
         now' \in now .. MaxTime,
         \A q \in Quotes :
           /\ mint'[q] = "unpaid" => mint[q] = "unpaid"
           /\ payer'[q] = payer[q] \/ payer[q] = "Inflight"
  PROVE  CInv'
<1>1. ClaimTypes' /\ TaskTypes' /\ LoopTypes' /\ Stored' = Stored
  BY Types DEF ClaimTypes, TaskTypes, LoopTypes, LoopHolds, Stored, At
<1>2. OtherTypes' /\ (Expiry <= now => Expiry <= now')
  BY Types, Numbers DEF OtherTypes
<1>3. ASSUME NEW q \in Quotes PROVE QuoteHolds(q)'
  BY <1>1, <1>2 DEF CInv, QuoteHolds, TaskHolds, SendHolds, FailedHolds, Hopeless, PaidHolds, At
<1> QED
  BY <1>1, <1>2, <1>3, TypesNext

LEMMA UpstreamHolds ==
  ASSUME CInv, (\E q \in Quotes : PayerProgress(q) \/ MintProgress(q)) \/ Tick
  PROVE  CInv'
<1>1. /\ now \in 0 .. MaxTime /\ mint \in [Quotes -> {"unpaid", "paid", "issued"}]
      /\ payer \in [Quotes -> Sessions]
  BY DEF CInv, TypeOK
<1>2. ASSUME NEW q \in Quotes, PayerProgress(q) PROVE CInv'
  <2>1. /\ UNCHANGED <<claims, task, loop, mint, now, faults>> /\ payer' \in [Quotes -> Sessions]
        /\ \A r \in Quotes : payer'[r] = payer[r] \/ payer[r] = "Inflight"
    BY <1>1, <1>2 DEF PayerProgress, Sessions
  <2> QED
    BY <1>1, <2>1, Numbers, OutsideHolds
<1>3. ASSUME NEW q \in Quotes, MintProgress(q) PROVE CInv'
  <2>1. /\ UNCHANGED <<claims, task, loop, payer, now, faults>>
        /\ mint' \in [Quotes -> {"unpaid", "paid", "issued"}]
        /\ \A r \in Quotes : mint'[r] = "unpaid" => mint[r] = "unpaid"
    BY <1>1, <1>3 DEF MintProgress
  <2> QED
    BY <1>1, <2>1, Numbers, OutsideHolds
<1>4. ASSUME Tick PROVE CInv'
  <2>1. UNCHANGED <<claims, task, loop, mint, payer, faults>> /\ now' \in now .. MaxTime
    BY <1>1, <1>4, Numbers DEF Tick, upstream
  <2> QED
    BY <1>1, <2>1, OutsideHolds
<1> QED
  BY <1>2, <1>3, <1>4
-----------------------------------------------------------------------------
LEMMA CInvInit == Init => CInv
<1> SUFFICES ASSUME Init PROVE CInv
  OBVIOUS
<1>1. Stored = {} /\ DOMAIN loop.snap = {}
  BY DEF Init, Stored, NoPass
<1>2. TypeOK
  BY <1>1, Numbers DEF Init, TypeOK, NoPass, Resting, Steps, Sessions, At
<1>3. LoopHolds
  BY <1>1 DEF LoopHolds, Init, NoPass
<1>4. ASSUME NEW q \in Quotes PROVE QuoteHolds(q)
  BY <1>1 DEF Init, Resting, QuoteHolds, TaskHolds, SendHolds, FailedHolds, PaidHolds, At
<1> QED
  BY <1>2, <1>3, <1>4 DEF CInv

LEMMA CInvNext == CInv /\ [Next]_vars => CInv'
<1> SUFFICES ASSUME CInv, [Next]_vars PROVE CInv'
  OBVIOUS
<1>1. ASSUME NEW q \in Quotes, StartClaim(q) \/ TaskStep(q) PROVE CInv'
  BY <1>1, StartHolds, NewQuoteHolds, ReserveHolds, QuoteAnswerHolds, PaymentAnswerHolds,
     SendAnswerHolds DEF TaskStep
<1>2. ASSUME LoopStep PROVE CInv'
  BY <1>2, LoopStartHolds, LoopEndHolds, LoopNextHolds DEF LoopStep
<1>3. CASE Crash
  BY <1>3, CrashHolds
<1>4. CASE UNCHANGED vars
  <2>1. UNCHANGED <<claims, task, loop, mint, payer, now, faults>>
    BY <1>4 DEF vars, upstream
  <2>2. /\ now \in 0 .. MaxTime /\ mint \in [Quotes -> {"unpaid", "paid", "issued"}]
        /\ payer \in [Quotes -> Sessions]
    BY DEF CInv, TypeOK
  <2> QED
    BY <2>1, <2>2, Numbers, OutsideHolds
<1> QED
  BY <1>1, <1>2, <1>3, <1>4, UpstreamHolds DEF Next

LEMMA CInvAlways == Spec => []CInv
BY CInvInit, CInvNext, PTL DEF Spec

(* The rows, the tasks and the pass over them have the types of the code's *)
(* records, and a task that reconciles has the record it reconciles.       *)
THEOREM FaucetTypes == Spec => []TypeOK
BY CInvAlways, PTL DEF CInv

(* The faucet asks its node to pay an invoice (dispatch, reconcile) only   *)
(* when the node has no payment of it in flight or settled.                *)
THEOREM PaysOnceTheorem == Spec => []NeverPaysTwice
<1>1. CInv => NeverPaysTwice
  BY DEF CInv, QuoteHolds, SendHolds, NeverPaysTwice
<1> QED
  BY <1>1, CInvAlways, PTL

(* A claim stored as failed is not being paid, and one stored as paid or   *)
(* issued was paid (reconcile, applyPayment).                              *)
THEOREM OutcomeTheorem == Spec => []OutcomeIsTrue
<1>1. CInv => OutcomeIsTrue
  BY Types DEF CInv, QuoteHolds, FailedHolds, PaidHolds, Hopeless, OutcomeIsTrue, ClaimTypes
<1> QED
  BY <1>1, CInvAlways, PTL
-----------------------------------------------------------------------------
(* Why a failure is final: no handler takes a hopeless claim back to the   *)
(* node, and the node does not take up a payment by itself.                *)
Keeps(q) ==
  q \in Stored' /\ payer'[q] = payer[q] /\ now' \in Nat /\ now <= now' /\ task'[q].pc # "send"

LEMMA KeepsHopeless ==
  ASSUME CInv, NEW q \in Quotes, Hopeless(q), Keeps(q) PROVE Hopeless(q)'
BY Numbers DEF Hopeless, Keeps, At, CInv, TypeOK

(* What a task may do: it sends a new claim, or one the node knows nothing *)
(* of while its invoice is good, and only its own sendPayment makes the    *)
(* node move.                                                              *)
Moves(q) ==
  /\ Stored \subseteq Stored' /\ now' = now
  /\ \A r \in Quotes \ {q} : payer'[r] = payer[r] /\ task'[r].pc \in {task[r].pc, "idle"}
  /\ payer'[q] = payer[q] \/ At(q, "send")
  /\ task'[q].pc = "send" => q \notin Stored \/ (payer[q] = "none" /\ Expiry > now)

(* The ways a handler leaves its task.                                     *)
LEMMA EndMoves ==
  ASSUME CInv, NEW q \in Quotes, Finish(q) \/ (\E state \in States, code \in Codes : Conclude(q, state, code)),
         Stored \subseteq Stored', UNCHANGED now, PayerMoves(q), payer'[q] = payer[q] \/ At(q, "send")
  PROVE  Moves(q)
<1>1. task' = [task EXCEPT ![q] = Resting]
  BY DEF Finish, Conclude
<1> QED
  BY <1>1 DEF Moves, PayerMoves, CInv, TypeOK, Resting

LEMMA GoMoves ==
  ASSUME CInv, NEW q \in Quotes, NEW pc \in Steps, Goto(q, pc),
         Stored \subseteq Stored', UNCHANGED <<payer, now>>,
         pc = "send" => q \notin Stored \/ (payer[q] = "none" /\ Expiry > now)
  PROVE  Moves(q)
BY DEF Goto, Moves, CInv, TypeOK

LEMMA Kept ==
  ASSUME NEW q \in Quotes
  PROVE  /\ UNCHANGED claims => Stored \subseteq Stored'
         /\ \A row : Insert(q, row) => Stored \subseteq Stored'
         /\ \A state, code : Conclude(q, state, code) => Stored \subseteq Stored'
         /\ Dispatch(q) => Stored \subseteq Stored'
BY DEF Stored, Insert, Conclude, Dispatch

LEMMA EarlyMoves ==
  ASSUME CInv, NEW q \in Quotes, StartClaim(q) \/ NewQuoteAnswered(q) \/ Reserve(q)
  PROVE  Moves(q)
<1>1. UNCHANGED <<payer, now>> /\ task \in [Quotes -> [pc : Steps, rec : {None} \cup Attempted]]
  BY DEF StartClaim, NewQuoteAnswered, Reserve, upstream, CInv, TypeOK
<1>2. CASE StartClaim(q)
  <2>1. Stored \subseteq Stored' /\ task'[q].pc \in {"quote", "newquote"}
    BY <1>1, <1>2, Kept DEF StartClaim
  <2> QED
    BY <1>1, <1>2, <2>1 DEF StartClaim, Moves
<1>3. CASE NewQuoteAnswered(q)
  <2>1. Stored \subseteq Stored' /\ (Finish(q) \/ Goto(q, "invoice")) /\ PayerMoves(q)
    BY <1>1, <1>3, Kept DEF NewQuoteAnswered, PayerMoves, CInv, TypeOK
  <2> QED
    BY <1>1, <2>1, EndMoves, GoMoves DEF Steps
<1>4. CASE Reserve(q)
  <2>1. q \notin Stored /\ Stored \subseteq Stored' /\ PayerMoves(q)
    BY <1>1, <1>4, Kept DEF Reserve, PayerMoves, CInv, QuoteHolds, TaskHolds, At, TypeOK
  <2>2. Goto(q, "send") \/ Finish(q) \/ task' = [r \in Quotes |-> Resting]
    BY <1>4 DEF Reserve, CrashNow
  <2> QED
    BY <1>1, <2>1, <2>2, EndMoves, GoMoves DEF Steps, Moves, Resting
<1> QED
  BY <1>2, <1>3, <1>4

LEMMA LateMoves ==
  ASSUME CInv, NEW q \in Quotes, QuoteAnswered(q) \/ PaymentAnswered(q) \/ SendAnswered(q)
  PROVE  Moves(q)
<1>1. /\ now' = now /\ q \in Stored /\ payer \in [Quotes -> Sessions]
      /\ {"transient", "review", "mismatch", "none"} \subseteq Codes
      /\ {"recoverable", "paid", "issued", "failed", "pending"} \subseteq States
  BY DEF QuoteAnswered, PaymentAnswered, SendAnswered, upstream, CInv, QuoteHolds, TaskHolds, At,
         TypeOK, Codes, Held, States, Open
<1>2. CASE QuoteAnswered(q)
  <2>1. payer' = payer /\ PayerMoves(q)
    BY <1>1, <1>2 DEF QuoteAnswered, upstream, PayerMoves
  <2>2. \/ UNCHANGED claims /\ (Finish(q) \/ Goto(q, "payment"))
        \/ \E state \in States, code \in Codes : Conclude(q, state, code)
    BY <1>1, <1>2 DEF QuoteAnswered
  <2> QED
    BY <1>1, <2>1, <2>2, Kept, EndMoves, GoMoves DEF Steps
<1>3. CASE PaymentAnswered(q)
  <2>1. payer' = payer /\ PayerMoves(q)
    BY <1>1, <1>3 DEF PaymentAnswered, upstream, PayerMoves
  <2>2. \/ UNCHANGED claims /\ Finish(q)
        \/ \E state \in States, code \in Codes : Conclude(q, state, code)
        \/ payer[q] = "none" /\ Expiry > now /\ Dispatch(q)
    <3>1. /\ \A session : ApplyPayment(q, session) =>
               \E state \in States, code \in Codes : Conclude(q, state, code)
          /\ Unknown(q) => \E state \in States, code \in Codes : Conclude(q, state, code)
      BY <1>1 DEF ApplyPayment, StateOf, Unknown
    <3>2. now \in Nat /\ Expiry \in Nat
      BY Numbers DEF CInv, TypeOK
    <3>3. NoSession(q) => \/ UNCHANGED claims /\ Finish(q)
                          \/ \E state \in States, code \in Codes : Conclude(q, state, code)
                          \/ Expiry > now /\ Dispatch(q)
      <4>1. NoSession(q) => \/ UNCHANGED claims /\ Finish(q)
                            \/ Unknown(q) \/ Conclude(q, "failed", "transient")
                            \/ Conclude(q, "recoverable", "review")
                            \/ Expiry > now /\ Dispatch(q)
        BY <3>2 DEF NoSession
      <4> QED
        BY <1>1, <3>1, <4>1
    <3> QED
      BY <1>1, <1>3, <3>1, <3>3 DEF PaymentAnswered, PaymentAnswers, Sessions
  <2> QED
    BY <1>1, <2>1, <2>2, Kept, EndMoves, GoMoves DEF Steps, Dispatch
<1>4. CASE SendAnswered(q)
  <2>1. At(q, "send") /\ PayerMoves(q)
    BY <1>1, <1>4 DEF SendAnswered, Answered, Refused, AnswerLost, NodeAccepts, PayerMoves
  <2>2. \E state \in States, code \in Codes : Conclude(q, state, code)
    BY <1>1, <1>4 DEF SendAnswered, Answered, Refused, AnswerLost, ApplyPayment, StateOf, Unknown
  <2> QED
    BY <1>1, <2>1, <2>2, Kept, EndMoves
<1> QED
  BY <1>2, <1>3, <1>4

LEMMA HopelessStays ==
  ASSUME CInv, NEW q \in Quotes, Hopeless(q), [Next]_vars
  PROVE  Hopeless(q)'
<1>1. /\ now \in Nat /\ Expiry \in Nat /\ q \in Stored /\ task[q].pc # "send"
      /\ payer[q] = "Failed" \/ (payer[q] = "none" /\ Expiry <= now)
  BY Numbers DEF CInv, TypeOK, Hopeless, At
<1>2. ASSUME NEW r \in Quotes, StartClaim(r) \/ TaskStep(r) PROVE Keeps(q)
  <2>1. Moves(r)
    BY <1>2, EarlyMoves, LateMoves DEF TaskStep
  <2>2. CASE r = q
    BY <1>1, <2>1, <2>2 DEF Moves, Keeps, At
  <2>3. CASE r # q
    BY <1>1, <2>1, <2>3 DEF Moves, Keeps
  <2> QED
    BY <2>2, <2>3
<1>3. ASSUME NEW r \in Quotes, PayerProgress(r) \/ MintProgress(r) PROVE Keeps(q)
  <2>1. Stored' = Stored /\ task' = task /\ now' = now /\ payer'[q] = payer[q]
    BY <1>1, <1>3 DEF PayerProgress, MintProgress, Stored, CInv, TypeOK
  <2> QED
    BY <1>1, <2>1 DEF Keeps
<1>4. ASSUME LoopStep PROVE Keeps(q)
  <2>1. Stored' = Stored /\ payer' = payer /\ now' = now
    BY <1>4 DEF LoopStep, LoopStart, LoopNext, LoopEnd, Stored, upstream
  <2>2. task'[q].pc \in {task[q].pc, "quote"}
    <3>1. CASE LoopStart \/ LoopEnd
      BY <3>1 DEF LoopStart, LoopEnd
    <3>2. ASSUME NEW r \in Quotes, LoopNext(r) PROVE task'[q].pc \in {task[q].pc, "quote"}
      <4> DEFINE rec == ReadBy(loop.snap[r])
      <4>1. task' = task \/ task' = [task EXCEPT ![r] = [pc |-> "quote", rec |-> rec]]
        BY <3>2 DEF LoopNext
      <4> HIDE DEF rec
      <4> QED
        BY <4>1 DEF CInv, TypeOK
    <3> QED
      BY <1>4, <3>1, <3>2 DEF LoopStep
  <2> QED
    BY <1>1, <2>1, <2>2 DEF Keeps
<1>5. ASSUME Tick PROVE Keeps(q)
  BY <1>1, <1>5 DEF Tick, Keeps, Stored, upstream
<1>6. ASSUME Crash PROVE Keeps(q)
  BY <1>1, <1>6 DEF Crash, CrashNow, Resting, Keeps, Stored, upstream
<1>7. ASSUME UNCHANGED vars PROVE Keeps(q)
  BY <1>1, <1>7 DEF vars, upstream, Keeps, Stored
<1>8. Keeps(q)
  BY <1>2, <1>3, <1>4, <1>5, <1>6, <1>7 DEF Next
<1> QED
  BY <1>8, KeepsHopeless

(* And why a payment is: the node sends only what it knows nothing of.     *)
PaidFor(q) == payer[q] = "Success" \/ mint[q] # "unpaid"

LEMMA PaidForStays ==
  ASSUME CInv, NEW q \in Quotes, PaidFor(q), [Next]_vars
  PROVE  PaidFor(q)'
<1>1. /\ At(q, "send") => payer[q] = "none"
      /\ mint \in [Quotes -> {"unpaid", "paid", "issued"}] /\ payer \in [Quotes -> Sessions]
  BY DEF CInv, TypeOK, QuoteHolds, SendHolds
<1>2. ASSUME NEW r \in Quotes, StartClaim(r) \/ TaskStep(r) PROVE PaidFor(q)'
  <2>1. Moves(r) /\ mint' = mint
    BY <1>2, EarlyMoves, LateMoves DEF TaskStep, StartClaim, NewQuoteAnswered, Reserve,
       QuoteAnswered, PaymentAnswered, SendAnswered, upstream
  <2> QED
    BY <1>1, <2>1 DEF Moves, PaidFor
<1>3. ASSUME NEW r \in Quotes, PayerProgress(r) \/ MintProgress(r) PROVE PaidFor(q)'
  BY <1>1, <1>3 DEF PayerProgress, MintProgress, PaidFor
<1>4. ASSUME LoopStep \/ Tick \/ Crash \/ UNCHANGED vars PROVE UNCHANGED <<payer, mint>>
  BY <1>4 DEF LoopStep, LoopStart, LoopNext, LoopEnd, Tick, Crash, vars, upstream
<1> QED
  BY <1>2, <1>3, <1>4 DEF Next, PaidFor

(* Once a claim was stored as failed, the node never comes to have paid    *)
(* its invoice for the faucet, and once it was stored as paid it is, in    *)
(* whatever later requests, timer passes, crashes and late answers do with *)
(* the row.                                                                *)
THEOREM OutcomesTheorem == Spec => OutcomesStand
<1>1. ASSUME NEW q \in Quotes
      PROVE  Spec => [](q \in Stored /\ claims[q].state = "failed" => [](payer[q] # "Success"))
  <2>1. CInv /\ q \in Stored /\ claims[q].state = "failed" => Hopeless(q)
    BY DEF CInv, QuoteHolds, FailedHolds
  <2>2. CInv /\ Hopeless(q) /\ [Next]_vars => Hopeless(q)'
    BY HopelessStays
  <2>3. Hopeless(q) => payer[q] # "Success"
    BY DEF Hopeless
  <2> QED
    BY <2>1, <2>2, <2>3, CInvAlways, PTL DEF Spec
<1>2. ASSUME NEW q \in Quotes
      PROVE  Spec => [](q \in Stored /\ claims[q].state \in {"paid", "issued"} =>
                          [](payer[q] = "Success" \/ mint[q] # "unpaid"))
  <2>1. CInv /\ q \in Stored /\ claims[q].state \in {"paid", "issued"} => PaidFor(q)
    BY DEF CInv, QuoteHolds, PaidHolds, PaidFor
  <2>2. CInv /\ PaidFor(q) /\ [Next]_vars => PaidFor(q)'
    BY PaidForStays
  <2>3. PaidFor(q) => payer[q] = "Success" \/ mint[q] # "unpaid"
    BY DEF PaidFor
  <2> QED
    BY <2>1, <2>2, <2>3, CInvAlways, PTL DEF Spec
<1> QED
  BY <1>1, <1>2 DEF OutcomesStand
-----------------------------------------------------------------------------
(***************************************************************************)
(* FaucetBudget, for any number of quotes, browsers and networks, any      *)
(* limits and any run of the clock: claims of one browser are a cooldown   *)
(* apart, a day's claims stay within the budget, and, if identifiers are   *)
(* kept for a day, so do the claims of one network.                        *)
(***************************************************************************)
(* What a row still says of the claim it was made for.                     *)
RowIsTrue(q) ==
  /\ claims[q].createdAt = given[q].at
  /\ given[q].at <= claims[q].updatedAt
  /\ claims[q].updatedAt <= now

(* Identifiers go no earlier than a retention after the claim.             *)
Scrubbed(q) == given[q].at <= now - Retention

RowIsKept(q) ==
  /\ claims[q].client = given[q].client \/ Scrubbed(q)
  /\ claims[q].network = given[q].network \/ Scrubbed(q)

RowsHold == \A q \in Stored : RowIsTrue(q) /\ RowIsKept(q)

RInv == BudgetTypeOK /\ RowsHold

ClaimRow == [client : Clients \cup {Gone}, network : Networks \cup {Gone},
             createdAt : Nat, updatedAt : Nat, known : BOOLEAN]

LEMMA Times == {Cooldown, Retention, Day, NetworkLimit, DailyLimit} \subseteq Nat \ {0} /\ MaxTime \in Nat
BY StoreAssumption, BudgetAssumption

LEMMA RowsInit == BudgetInit => RInv
<1> SUFFICES ASSUME BudgetInit PROVE RInv
  OBVIOUS
<1>1. DOMAIN claims = {} /\ DOMAIN given = {}
  BY DEF BudgetInit
<1> QED
  BY <1>1, Times DEF BudgetInit, RInv, BudgetTypeOK, RowsHold, Stored

(* A new claim is the one row that is added.                               *)
LEMMA Reserved ==
  ASSUME NEW q \in Quotes, NEW c \in Clients, NEW n \in Networks, BudgetTypeOK, ReserveClaim(q, c, n)
  PROVE  /\ Stored' = Stored \cup {q} /\ DOMAIN given' = Stored \cup {q}
         /\ claims'[q] = NewClaim(c, n, now)
         /\ given'[q] = [client |-> c, network |-> n, at |-> now]
         /\ \A r \in Stored : claims'[r] = claims[r] /\ given'[r] = given[r]
         /\ now' = now
BY DEF ReserveClaim, With, Stored, BudgetTypeOK

LEMMA ReserveRows ==
  ASSUME NEW q \in Quotes, NEW c \in Clients, NEW n \in Networks, RInv, ReserveClaim(q, c, n)
  PROVE  RInv'
<1>1. now \in Nat
  BY Times DEF RInv, BudgetTypeOK
<1>2. /\ Stored' = Stored \cup {q} /\ DOMAIN given' = Stored \cup {q} /\ now' = now
      /\ claims'[q] = NewClaim(c, n, now)
      /\ given'[q] = [client |-> c, network |-> n, at |-> now]
      /\ \A r \in Stored : claims'[r] = claims[r] /\ given'[r] = given[r]
  BY Reserved DEF RInv
<1>3. NewClaim(c, n, now) \in ClaimRow
  BY <1>1 DEF NewClaim, ClaimRow
<1>4. [client |-> c, network |-> n, at |-> now] \in [client : Clients, network : Networks, at : Nat]
  BY <1>1
<1>5. ASSUME NEW r \in Stored'
      PROVE  claims'[r] \in ClaimRow /\ given'[r] \in [client : Clients, network : Networks, at : Nat]
  <2>1. CASE r = q
    BY <1>2, <1>3, <1>4, <2>1
  <2>2. CASE r # q
    <3>1. r \in Stored
      BY <1>2, <1>5, <2>2
    <3> QED
      BY <1>2, <3>1 DEF RInv, BudgetTypeOK, ClaimRow
  <2> QED
    BY <2>1, <2>2
<1>6. BudgetTypeOK'
  BY <1>2, <1>5 DEF RInv, BudgetTypeOK, ClaimRow
<1>7. ASSUME NEW r \in Stored' PROVE RowIsTrue(r)' /\ RowIsKept(r)'
  <2>1. CASE r = q
    <3>1. claims'[r].createdAt = now /\ claims'[r].updatedAt = now
      BY <1>2, <2>1 DEF NewClaim
    <3>2. claims'[r].client = c /\ claims'[r].network = n
      BY <1>2, <2>1 DEF NewClaim
    <3>3. given'[r].at = now /\ given'[r].client = c /\ given'[r].network = n
      BY <1>2, <2>1
    <3> QED
      BY <1>1, <1>2, <3>1, <3>2, <3>3 DEF RowIsTrue, RowIsKept
  <2>2. CASE r # q
    BY <2>2, <1>2, <1>7 DEF RInv, RowsHold, RowIsTrue, RowIsKept, Scrubbed
  <2> QED
    BY <2>1, <2>2
<1> QED
  BY <1>6, <1>7 DEF RInv, RowsHold

LEMMA TouchRows == ASSUME NEW q \in Quotes, RInv, Touch(q) PROVE RInv'
<1>1. now \in Nat
  BY Times DEF RInv, BudgetTypeOK
<1>2. Stored' = Stored /\ given' = given /\ now' = now
  BY DEF Touch, Stored
<1>3. ASSUME NEW r \in Stored
      PROVE  claims'[r] \in ClaimRow /\ RowIsTrue(r)' /\ RowIsKept(r)'
  <2>1. claims[r] \in ClaimRow
    BY <1>3 DEF RInv, BudgetTypeOK, ClaimRow
  <2>2. CASE r = q
    <3>1. claims'[r] = [claims[r] EXCEPT !.updatedAt = now]
      BY <1>3, <2>2 DEF Touch, Stored
    <3>2. /\ claims'[r] \in ClaimRow
          /\ claims'[r].updatedAt = now
          /\ claims'[r].createdAt = claims[r].createdAt
          /\ claims'[r].client = claims[r].client /\ claims'[r].network = claims[r].network
      BY <1>1, <2>1, <3>1 DEF ClaimRow
    <3> QED
      BY <1>1, <1>2, <1>3, <3>2 DEF RInv, BudgetTypeOK, RowsHold, RowIsTrue, RowIsKept, Scrubbed
  <2>3. CASE r # q
    <3>1. claims'[r] = claims[r]
      BY <1>3, <2>3 DEF Touch, Stored
    <3> QED
      BY <1>2, <1>3, <2>1, <3>1 DEF RInv, RowsHold, RowIsTrue, RowIsKept, Scrubbed
  <2> QED
    BY <2>2, <2>3
<1>4. BudgetTypeOK'
  BY <1>2, <1>3 DEF RInv, BudgetTypeOK, ClaimRow
<1> QED
  BY <1>2, <1>3, <1>4 DEF RInv, RowsHold

LEMMA ScrubRows == ASSUME RInv, Scrub PROVE RInv'
<1>1. /\ Stored' = Stored
      /\ \A r \in Stored : claims'[r] = ScrubClaim(claims[r], now)
      /\ given' = given /\ now' = now
  BY DEF Scrub, Stored
<1>2. now \in Nat /\ Retention \in Nat
  BY Times DEF RInv, BudgetTypeOK
<1>3. ASSUME NEW r \in Stored
      PROVE  /\ claims'[r] \in [client : Clients \cup {Gone}, network : Networks \cup {Gone},
                                createdAt : Nat, updatedAt : Nat, known : BOOLEAN]
             /\ RowIsTrue(r)' /\ RowIsKept(r)'
  <2>1. CASE Expired(claims[r], now)
    <3>1. Scrubbed(r)
      BY <1>2, <1>3, <2>1 DEF Expired, RInv, BudgetTypeOK, RowsHold, RowIsTrue, Scrubbed
    <3>2. claims[r] \in ClaimRow /\ RowIsTrue(r)
      BY <1>3 DEF RInv, BudgetTypeOK, RowsHold, ClaimRow
    <3>3. claims'[r] = [claims[r] EXCEPT !.known = FALSE, !.client = Gone, !.network = Gone]
      BY <1>1, <1>3, <2>1 DEF ScrubClaim
    <3>4. claims'[r] \in ClaimRow /\ claims'[r].createdAt = claims[r].createdAt
          /\ claims'[r].updatedAt = claims[r].updatedAt
      BY <3>2, <3>3 DEF ClaimRow
    <3>5. RowIsTrue(r)'
      BY <1>1, <3>2, <3>4 DEF RowIsTrue
    <3>6. RowIsKept(r)'
      BY <1>1, <3>1 DEF RowIsKept, Scrubbed
    <3> QED
      BY <3>4, <3>5, <3>6 DEF ClaimRow
  <2>2. CASE ~Expired(claims[r], now)
    BY <1>1, <1>3, <2>2 DEF ScrubClaim, RInv, BudgetTypeOK, RowsHold, RowIsTrue, RowIsKept, Scrubbed
  <2> QED
    BY <2>1, <2>2
<1>4. BudgetTypeOK'
  BY <1>1, <1>3 DEF RInv, BudgetTypeOK
<1> QED
  BY <1>1, <1>3, <1>4 DEF RInv, RowsHold

LEMMA TickRows == ASSUME RInv, BudgetTick PROVE RInv'
<1>1. now \in Nat /\ now' = now + 1 /\ now' \in 0 .. MaxTime /\ UNCHANGED <<claims, given>>
  BY Times DEF BudgetTick, RInv, BudgetTypeOK
<1>2. BudgetTypeOK'
  BY <1>1 DEF RInv, BudgetTypeOK, Stored
<1>3. ASSUME NEW r \in Stored PROVE RowIsTrue(r)' /\ RowIsKept(r)'
  BY <1>1, <1>3, Times DEF RInv, BudgetTypeOK, RowsHold, RowIsTrue, RowIsKept, Scrubbed
<1> QED
  BY <1>1, <1>2, <1>3 DEF RInv, RowsHold, Stored

LEMMA RowsNext == RInv /\ [BudgetNext]_budgets => RInv'
<1> SUFFICES ASSUME RInv, [BudgetNext]_budgets PROVE RInv'
  OBVIOUS
<1>1. CASE UNCHANGED budgets
  BY <1>1 DEF budgets, RInv, BudgetTypeOK, RowsHold, RowIsTrue, RowIsKept, Scrubbed, Stored
<1> QED
  BY <1>1, ReserveRows, TouchRows, ScrubRows, TickRows DEF BudgetNext

(* The rows keep what they say of the claims, through every step.          *)
THEOREM RowsInvariance == BudgetSpec => []RInv
BY RowsInit, RowsNext, PTL DEF BudgetSpec

(* The rows keep their types, through reservation, update and scrubbing.   *)
THEOREM BudgetTypes == BudgetSpec => []BudgetTypeOK
<1>1. RInv => BudgetTypeOK
  BY DEF RInv
<1> QED
  BY <1>1, RowsInvariance, PTL
-----------------------------------------------------------------------------
(* What the other steps leave alone: the claims given and who has them.    *)
LEMMA GivenOnlyGrows ==
  ASSUME RInv, [BudgetNext]_budgets,
         ~ \E q \in Quotes, c \in Clients, n \in Networks : ReserveClaim(q, c, n)
  PROVE  Stored' = Stored /\ given' = given
<1>1. CASE UNCHANGED budgets
  BY <1>1 DEF budgets, Stored
<1>2. ASSUME NEW q \in Quotes, Touch(q) PROVE Stored' = Stored /\ given' = given
  BY <1>2 DEF Touch, Stored
<1>3. CASE Scrub
  BY <1>3 DEF Scrub, Stored
<1>4. CASE BudgetTick
  BY <1>4 DEF BudgetTick, Stored
<1> QED
  BY <1>1, <1>2, <1>3, <1>4 DEF BudgetNext

(* A browser is admitted a cooldown after every claim it was given: its    *)
(* row still names it, or was scrubbed, which takes longer than that.      *)
LEMMA AdmittedLater ==
  ASSUME RInv, NEW c \in Clients, CooledDown(claims, c, now),
         NEW r \in Stored, given[r].client = c
  PROVE  given[r].at + Cooldown <= now
<1>1. /\ now \in Nat /\ Cooldown \in Nat /\ Retention \in Nat /\ Retention >= Cooldown
      /\ given[r].at \in Nat
  BY Times, StoreAssumption DEF RInv, BudgetTypeOK
<1>2. CASE claims[r].client = c
  <2>1. claims[r].createdAt <= now - Cooldown
    BY <1>2 DEF CooledDown, Stored
  <2> QED
    BY <1>1, <2>1 DEF RInv, RowsHold, RowIsTrue
<1>3. CASE claims[r].client # c
  BY <1>1, <1>3 DEF RInv, RowsHold, RowIsKept, Scrubbed
<1> QED
  BY <1>2, <1>3

CoolInv == RInv /\ CooldownHolds

LEMMA CooldownNext == CoolInv /\ [BudgetNext]_budgets => CoolInv'
<1> SUFFICES ASSUME CoolInv, [BudgetNext]_budgets PROVE CooldownHolds'
  BY RowsNext DEF CoolInv
<1>1. ASSUME NEW q \in Quotes, NEW c \in Clients, NEW n \in Networks, ReserveClaim(q, c, n)
      PROVE  CooldownHolds'
  <2>1. /\ Stored' = Stored \cup {q} /\ now' = now
        /\ given'[q] = [client |-> c, network |-> n, at |-> now]
        /\ \A r \in Stored : given'[r] = given[r]
    BY <1>1, Reserved DEF CoolInv, RInv
  <2>2. \A r \in Stored : given[r].client = c => given[r].at + Cooldown <= now
    BY <1>1, AdmittedLater DEF CoolInv, ReserveClaim, Admits
  <2> SUFFICES ASSUME NEW a \in Stored', NEW b \in Stored', a # b,
                      given'[a].client = given'[b].client
               PROVE  \/ given'[a].at >= given'[b].at + Cooldown
                      \/ given'[b].at >= given'[a].at + Cooldown
    BY DEF CooldownHolds
  <2>3. CASE a = q
    BY <2>1, <2>2, <2>3
  <2>4. CASE b = q
    BY <2>1, <2>2, <2>4
  <2>5. CASE a # q /\ b # q
    BY <2>1, <2>5 DEF CoolInv, CooldownHolds
  <2> QED
    BY <2>3, <2>4, <2>5
<1>2. CASE Stored' = Stored /\ given' = given
  BY <1>2 DEF CoolInv, CooldownHolds
<1> QED
  BY <1>1, <1>2, GivenOnlyGrows DEF CoolInv

(* Two claims of one browser are a cooldown apart: the rows scrub has      *)
(* stripped of their client are older than that, by StoreAssumption.       *)
THEOREM CooldownTheorem == BudgetSpec => []CooldownHolds
<1>1. BudgetInit => CoolInv
  <2>1. BudgetInit => CooldownHolds
    BY DEF BudgetInit, CooldownHolds, Stored
  <2> QED
    BY <2>1, RowsInit DEF CoolInv
<1>2. CoolInv => CooldownHolds
  BY DEF CoolInv
<1> QED
  BY <1>1, <1>2, CooldownNext, PTL DEF BudgetSpec
-----------------------------------------------------------------------------
(* startOfUtcDay is at most a day before the time it is given.             *)
LEMMA DayStarts ==
  ASSUME NEW t \in Nat
  PROVE  StartOfDay(t) \in Nat /\ StartOfDay(t) <= t /\ t < StartOfDay(t) + Day
<1>1. Day \in Nat \ {0}
  BY Times
<1>2. t \div Day \in Int /\ t = Day * (t \div Day) + (t % Day) /\ 0 <= t % Day /\ t % Day < Day
  BY <1>1
<1> QED
  BY <1>1, <1>2 DEF StartOfDay

(* Room for one more is enough for a set that gains at most one element.   *)
LEMMA OneMoreFits ==
  ASSUME NEW Old, NEW New, NEW x, NEW Limit \in Nat,
         IsFiniteSet(Old), Cardinality(Old) < Limit, New \subseteq Old \cup {x}
  PROVE  Cardinality(New) <= Limit
<1> DEFINE More == Old \cup {x}
<1>0. IsFiniteSet(More) /\ Cardinality(More) = IF x \in Old THEN Cardinality(Old) ELSE Cardinality(Old) + 1
  BY FS_AddElement
<1>1. IsFiniteSet(More) /\ Cardinality(More) <= Cardinality(Old) + 1
  <2>1. Cardinality(Old) \in Nat
    BY FS_CardinalityType
  <2> QED
    BY <1>0, <2>1
<1> HIDE DEF More
<1>2. Cardinality(New) <= Cardinality(More) /\ IsFiniteSet(New)
  BY <1>1, FS_Subset DEF More
<1> QED
  BY <1>1, <1>2, FS_CardinalityType

(* Claims given on the day of the clock are among the rows of today.       *)
LEMMA GivenToday ==
  ASSUME RInv, NEW r \in Stored, StartOfDay(given[r].at) = StartOfDay(now)
  PROVE  r \in Today(claims, now)
<1>1. given[r].at \in Nat /\ now \in Nat
  BY Times DEF RInv, BudgetTypeOK
<1>2. claims[r].createdAt >= StartOfDay(now)
  BY <1>1, DayStarts DEF RInv, RowsHold, RowIsTrue
<1> QED
  BY <1>2 DEF Today, Stored

LEMMA TodayIsFinite == ASSUME RInv PROVE IsFiniteSet(Stored) /\ IsFiniteSet(Today(claims, now))
<1>1. IsFiniteSet(Stored)
  BY FS_Subset, BudgetAssumption DEF RInv, BudgetTypeOK
<1> QED
  BY <1>1, FS_Subset DEF Today, Stored

BInv == RInv /\ DailyBudgetHolds

LEMMA DailyNext == BInv /\ [BudgetNext]_budgets => BInv'
<1> SUFFICES ASSUME BInv, [BudgetNext]_budgets PROVE DailyBudgetHolds'
  BY RowsNext DEF BInv
<1>1. ASSUME NEW q \in Quotes, NEW c \in Clients, NEW n \in Networks, ReserveClaim(q, c, n)
      PROVE  DailyBudgetHolds'
  <2>1. /\ Stored' = Stored \cup {q} /\ now' = now
        /\ given'[q] = [client |-> c, network |-> n, at |-> now]
        /\ \A r \in Stored : given'[r] = given[r]
    BY <1>1, Reserved DEF BInv, RInv
  <2> SUFFICES ASSUME NEW a \in Stored' PROVE Cardinality(SameDay(a)') <= DailyLimit
    BY DEF DailyBudgetHolds
  <2>2. CASE StartOfDay(given'[a].at) = StartOfDay(now)
    <3>1. SameDay(a)' \subseteq Today(claims, now) \cup {q}
      BY <2>1, <2>2, GivenToday DEF SameDay, BInv
    <3>2. Cardinality(Today(claims, now)) < DailyLimit
      BY <1>1 DEF ReserveClaim, Admits, DayHasRoom
    <3> QED
      BY <3>1, <3>2, Times, TodayIsFinite, OneMoreFits DEF BInv
  <2>3. CASE StartOfDay(given'[a].at) # StartOfDay(now)
    <3>1. a \in Stored
      BY <2>1, <2>3
    <3>2. SameDay(a)' = SameDay(a)
      BY <2>1, <2>3, <3>1 DEF SameDay
    <3> QED
      BY <3>1, <3>2 DEF BInv, DailyBudgetHolds
  <2> QED
    BY <2>2, <2>3
<1>2. CASE Stored' = Stored /\ given' = given
  BY <1>2 DEF BInv, DailyBudgetHolds, SameDay
<1> QED
  BY <1>1, <1>2, GivenOnlyGrows DEF BInv

(* No day has more claims than the budget: created_at outlives scrubbing.  *)
THEOREM DailyBudgetTheorem == BudgetSpec => []DailyBudgetHolds
<1>1. BudgetInit => BInv
  <2>1. BudgetInit => DailyBudgetHolds
    BY DEF BudgetInit, DailyBudgetHolds, Stored
  <2> QED
    BY <2>1, RowsInit DEF BInv
<1>2. BInv => DailyBudgetHolds
  BY DEF BInv
<1> QED
  BY <1>1, <1>2, DailyNext, PTL DEF BudgetSpec
-----------------------------------------------------------------------------
(* What loadConfig does not ask for: identifiers that are kept for a day.  *)
KeepsADay == Retention >= Day

(* A row of today was not scrubbed, so it still names its network.         *)
LEMMA NetworkIsKnown ==
  ASSUME KeepsADay, RInv, NEW r \in Stored, StartOfDay(given[r].at) = StartOfDay(now)
  PROVE  claims[r].network = given[r].network
<1>1. given[r].at \in Nat /\ now \in Nat /\ Day \in Nat /\ Retention \in Nat
  BY Times DEF RInv, BudgetTypeOK
<1>2. ~Scrubbed(r)
  BY <1>1, DayStarts DEF Scrubbed, KeepsADay
<1> QED
  BY <1>2 DEF RInv, RowsHold, RowIsKept

SameNetwork(q) == {r \in SameDay(q) : given[r].network = given[q].network}

NInv == RInv /\ NetworkBudgetHolds

LEMMA NetworkNext == ASSUME KeepsADay PROVE NInv /\ [BudgetNext]_budgets => NInv'
<1> SUFFICES ASSUME NInv, [BudgetNext]_budgets PROVE NetworkBudgetHolds'
  BY RowsNext DEF NInv
<1>1. ASSUME NEW q \in Quotes, NEW c \in Clients, NEW n \in Networks, ReserveClaim(q, c, n)
      PROVE  NetworkBudgetHolds'
  <2>1. /\ Stored' = Stored \cup {q} /\ now' = now
        /\ given'[q] = [client |-> c, network |-> n, at |-> now]
        /\ \A r \in Stored : given'[r] = given[r]
    BY <1>1, Reserved DEF NInv, RInv
  <2> DEFINE Here == {r \in Today(claims, now) : claims[r].network = n}
  <2> SUFFICES ASSUME NEW a \in Stored' PROVE Cardinality(SameNetwork(a)') <= NetworkLimit
    BY DEF NetworkBudgetHolds, SameNetwork
  <2>2. CASE StartOfDay(given'[a].at) = StartOfDay(now) /\ given'[a].network = n
    <3>1. SameNetwork(a)' \subseteq Here \cup {q}
      BY <2>1, <2>2, GivenToday, NetworkIsKnown DEF SameNetwork, SameDay, NInv
    <3>2. Cardinality(Here) < NetworkLimit
      BY <1>1 DEF ReserveClaim, Admits, NetworkHasRoom
    <3>3. IsFiniteSet(Here)
      BY TodayIsFinite, FS_Subset DEF NInv
    <3> QED
      BY <3>1, <3>2, <3>3, Times, OneMoreFits
  <2>3. CASE ~(StartOfDay(given'[a].at) = StartOfDay(now) /\ given'[a].network = n)
    <3>1. a \in Stored
      BY <2>1, <2>3
    <3>2. SameNetwork(a)' = SameNetwork(a)
      BY <2>1, <2>3, <3>1 DEF SameNetwork, SameDay
    <3> QED
      BY <3>1, <3>2 DEF NInv, NetworkBudgetHolds, SameNetwork
  <2> QED
    BY <2>2, <2>3
<1>2. CASE Stored' = Stored /\ given' = given
  BY <1>2 DEF NInv, NetworkBudgetHolds, SameDay
<1> QED
  BY <1>1, <1>2, GivenOnlyGrows DEF NInv

(* If identifiers are kept for a day, one network cannot take more than    *)
(* its part of a day's budget.                                             *)
THEOREM NetworkBudgetTheorem == ASSUME KeepsADay PROVE BudgetSpec => []NetworkBudgetHolds
<1>1. BudgetInit => NInv
  <2>1. BudgetInit => NetworkBudgetHolds
    BY DEF BudgetInit, NetworkBudgetHolds, Stored
  <2> QED
    BY <2>1, RowsInit DEF NInv
<1>2. NInv => NetworkBudgetHolds
  BY DEF NInv
<1>3. NInv /\ [BudgetNext]_budgets => NInv'
  BY NetworkNext
<1> QED
  BY <1>1, <1>2, <1>3, PTL DEF BudgetSpec

(* The cooldown and both budgets, under the same condition.                *)
THEOREM LimitsTheorem == ASSUME KeepsADay PROVE BudgetSpec => []LimitsHold
<1>1. CooldownHolds /\ DailyBudgetHolds /\ NetworkBudgetHolds => LimitsHold
  BY DEF LimitsHold
<1> QED
  BY <1>1, CooldownTheorem, DailyBudgetTheorem, NetworkBudgetTheorem, PTL
==============================================================================
