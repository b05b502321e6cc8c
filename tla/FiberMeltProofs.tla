--------------------------- MODULE FiberMeltProofs ---------------------------
(***************************************************************************)
(* Proofs about outgoing payments.  Of FiberMelt, for any invoices, any    *)
(* number of concurrent calls and any number of faults: its type, that the *)
(* wallet's proofs cover every payment that may take money, and that it    *)
(* implements the escrow of MeltEscrow.  Of MeltPricing, for any widths of *)
(* the integers, any scale and any fee policy: the numbers of a melt keep  *)
(* their types, the fee of the dry run stays payable, and what the wallet  *)
(* is charged covers what was spent and stays within what it put up.       *)
(***************************************************************************)
EXTENDS FiberMelt, MeltPricing, TLAPS

(* A handler at work on an invoice keeps its melt pending: it is the only  *)
(* one, and the mint changes the melt when it replies.                     *)
Active(c) == ~At(c, "idle")

CallHoldsMelt == \A c \in Calls : Active(c) => melt[call[c].inv] = "pending"

OneCallPerMelt ==
  \A c, d \in Calls :
    Active(c) /\ Active(d) /\ call[c].inv = call[d].inv => c = d

(* A terminal status about to be reported still is the session's: nothing  *)
(* but another call for the same invoice could have changed it.            *)
ReportIsCurrent ==
  \A c \in Calls :
    At(c, "reply") /\ call[c].seen \in Terminal => session[call[c].inv] = call[c].seen

(* What a deadline can report is a live status.                            *)
PollSawLive == \A c \in Calls : At(c, "poll") => call[c].seen \in Live

IInv ==
  /\ TypeOK
  /\ CallHoldsMelt
  /\ OneCallPerMelt
  /\ ReportIsCurrent
  /\ PollSawLive
  /\ ProofsCoverPayment
  /\ PaidMeansSettled
-----------------------------------------------------------------------------
LEMMA IdleType == Idle.pc = "idle" /\ Idle.inv \in Invoices /\ Idle.seen = "none"
BY MeltAssumption DEF Idle

LEMMA IdleRecord == Idle \in [pc : Steps, inv : Invoices, seen : Seen]
BY MeltAssumption DEF Idle, Steps, Seen

(* The initial states satisfy the invariant. *)
LEMMA InvInit == Init => IInv
<1> SUFFICES ASSUME Init PROVE IInv
  OBVIOUS
<1>1. TypeOK
  BY IdleRecord, IdleType, MeltAssumption DEF Init, TypeOK, Sessions, Melts, At
<1>2. \A c \in Calls : ~Active(c)
  BY IdleType DEF Init, Active, At
<1>3. CallHoldsMelt /\ OneCallPerMelt
  BY <1>2 DEF CallHoldsMelt, OneCallPerMelt
<1>4. ReportIsCurrent /\ PollSawLive
  BY IdleType DEF Init, ReportIsCurrent, PollSawLive, At
<1>5. ProofsCoverPayment /\ PaidMeansSettled
  BY DEF Init, ProofsCoverPayment, PaidMeansSettled, Live
<1> QED
  BY <1>1, <1>3, <1>4, <1>5 DEF IInv

(* The actions of the mint and of the node. *)
LEMMA QuoteInv == ASSUME IInv, NEW i \in Invoices, Quote(i) PROVE IInv'
BY DEF Quote, IInv, TypeOK, CallHoldsMelt, OneCallPerMelt, ReportIsCurrent, PollSawLive,
   ProofsCoverPayment, PaidMeansSettled, Active, At, Melts, Live

LEMMA NodeInv == ASSUME IInv, NEW i \in Invoices, NodeProgress(i) PROVE IInv'
BY DEF NodeProgress, IInv, TypeOK, CallHoldsMelt, OneCallPerMelt, ReportIsCurrent, PollSawLive,
   ProofsCoverPayment, PaidMeansSettled, Active, At, Sessions, Live, Terminal

LEMMA CrashInv == ASSUME IInv, Crash PROVE IInv'
<1>1. \A c \in Calls : ~Active(c)'
  BY IdleType DEF Crash, Active, At
<1>2. TypeOK'
  BY IdleType, IdleRecord, MeltAssumption DEF Crash, Fault, IInv, TypeOK, At
<1>3. CallHoldsMelt' /\ OneCallPerMelt' /\ ReportIsCurrent' /\ PollSawLive'
  BY <1>1 DEF CallHoldsMelt, OneCallPerMelt, ReportIsCurrent, PollSawLive, Active, At
<1> QED
  BY <1>2, <1>3 DEF Crash, IInv, ProofsCoverPayment, PaidMeansSettled

(* A call begins: the melt it works on is pending, and no other call has   *)
(* it.  A call that could not read the invoice begins at its error.        *)
LEMMA BeginInv ==
  ASSUME IInv, NEW c \in Calls, NEW i \in Invoices,
         NEW pc \in {"lookup", "check", "reply"}, NEW seen \in {"none", "Error"},
         pc = "reply" => seen = "Error",
         Begin(c, i, pc, seen),
         melt[i] \in {"unpaid", "pending"},
         melt' = [melt EXCEPT ![i] = "pending"],
         faults' \in 0 .. MaxFaults
  PROVE  IInv'
<1>1. TypeOK'
  BY DEF Begin, IInv, TypeOK, At, Steps, Seen, Melts
<1>2. CallHoldsMelt' /\ OneCallPerMelt'
  BY DEF Begin, Busy, IInv, TypeOK, CallHoldsMelt, OneCallPerMelt, Active, At
<1>3. ReportIsCurrent' /\ PollSawLive'
  BY DEF Begin, IInv, TypeOK, ReportIsCurrent, PollSawLive, At, Terminal
<1>4. ProofsCoverPayment' /\ PaidMeansSettled'
  BY DEF Begin, IInv, TypeOK, ProofsCoverPayment, PaidMeansSettled
<1> QED
  BY <1>1, <1>2, <1>3, <1>4 DEF IInv

LEMMA FaultType == IInv /\ Fault => faults' \in 0 .. MaxFaults
BY MeltAssumption DEF IInv, TypeOK, Fault

LEMMA StartMakeInv == ASSUME IInv, NEW c \in Calls, NEW i \in Invoices, StartMake(c, i) PROVE IInv'
<1>1. PICK pc \in {"lookup", "reply"}, seen \in {"none", "Error"} :
        Begin(c, i, pc, seen) /\ (pc = "reply" => seen = "Error")
  BY DEF StartMake
<1>2. faults' \in 0 .. MaxFaults
  BY FaultType DEF StartMake, IInv, TypeOK
<1> QED
  BY <1>1, <1>2, BeginInv DEF StartMake

LEMMA StartCheckInv == ASSUME IInv, NEW c \in Calls, NEW i \in Invoices, StartCheck(c, i) PROVE IInv'
<1>1. melt' = [melt EXCEPT ![i] = "pending"]
  BY DEF StartCheck, IInv, TypeOK
<1>2. faults' \in 0 .. MaxFaults
  BY DEF StartCheck, IInv, TypeOK
<1> QED
  BY <1>1, <1>2, BeginInv DEF StartCheck

(* A call goes on without the session or the melt changing: what it says   *)
(* next has to be current, and what it waits on has to be live.            *)
LEMMA GotoInv ==
  ASSUME IInv, NEW c \in Calls, Active(c),
         NEW pc \in Steps \ {"idle"}, NEW seen \in Seen,
         Goto(c, pc, seen),
         UNCHANGED <<session, melt>>,
         faults' \in 0 .. MaxFaults,
         pc = "reply" => seen # "none" /\ (seen \in Terminal => session[call[c].inv] = seen),
         pc = "poll" => seen \in Live
  PROVE  IInv'
<1>1. TypeOK'
  BY DEF Goto, IInv, TypeOK, At
<1>2. CallHoldsMelt' /\ OneCallPerMelt'
  BY DEF Goto, IInv, TypeOK, CallHoldsMelt, OneCallPerMelt, Active, At
<1>3. ReportIsCurrent' /\ PollSawLive'
  BY DEF Goto, IInv, TypeOK, ReportIsCurrent, PollSawLive, At
<1>4. ProofsCoverPayment' /\ PaidMeansSettled'
  BY DEF IInv, ProofsCoverPayment, PaidMeansSettled
<1> QED
  BY <1>1, <1>2, <1>3, <1>4 DEF IInv

(* What get_payment leaves a call to go on with.                           *)
LEMMA LookupMakeInv == ASSUME IInv, NEW c \in Calls, LookupMake(c) PROVE IInv'
<1>1. PICK pc \in {"send", "reply"}, seen \in Seen :
        /\ Goto(c, pc, seen)
        /\ pc = "reply" => seen # "none" /\ (seen \in Terminal => session[call[c].inv] = seen)
  BY DEF LookupMake, GetPayment, Answers, IInv, TypeOK, Sessions, Seen, Live, Terminal
<1>2. faults' \in 0 .. MaxFaults
  BY FaultType DEF LookupMake, GetPayment, Answers, IInv, TypeOK
<1> QED
  BY <1>1, <1>2, GotoInv DEF LookupMake, Active, At, Steps

LEMMA LookupCheckInv == ASSUME IInv, NEW c \in Calls, LookupCheck(c) PROVE IInv'
<1>1. PICK seen \in Seen :
        /\ Goto(c, "reply", seen)
        /\ seen # "none" /\ (seen \in Terminal => session[call[c].inv] = seen)
  BY DEF LookupCheck, GetPayment, Answers, IInv, TypeOK, Sessions, Seen, Live, Terminal
<1>2. faults' \in 0 .. MaxFaults
  BY FaultType DEF LookupCheck, GetPayment, Answers, IInv, TypeOK
<1> QED
  BY <1>1, <1>2, GotoInv DEF LookupCheck, Active, At, Steps

LEMMA DeadlineInv == ASSUME IInv, NEW c \in Calls, Deadline(c) PROVE IInv'
<1>1. call[c].seen \in Live /\ faults' \in 0 .. MaxFaults
  BY DEF Deadline, IInv, PollSawLive, TypeOK
<1> QED
  BY <1>1, GotoInv DEF Deadline, Active, At, Steps, Seen, Live, Terminal

LEMMA PollMakeInv == ASSUME IInv, NEW c \in Calls, PollMake(c) PROVE IInv'
<1>1. call[c].seen \in Live
  BY DEF PollMake, IInv, PollSawLive
<1>2. faults' \in 0 .. MaxFaults
  BY FaultType DEF PollMake, GetPayment, Answers, IInv, TypeOK
<1>3. \/ UNCHANGED call
      \/ \E pc \in {"poll", "reply"}, seen \in Live \cup Terminal :
           /\ Goto(c, pc, seen)
           /\ seen \in Terminal => pc = "reply" /\ session[call[c].inv] = seen
  BY <1>1 DEF PollMake, GetPayment, Answers, IInv, TypeOK, Sessions, Live, Terminal
<1>4. CASE UNCHANGED call
  BY <1>2, <1>4 DEF PollMake, IInv, TypeOK, CallHoldsMelt, OneCallPerMelt, ReportIsCurrent,
     PollSawLive, ProofsCoverPayment, PaidMeansSettled, Active, At
<1>5. ASSUME NEW pc \in {"poll", "reply"}, NEW seen \in Live \cup Terminal, Goto(c, pc, seen),
             seen \in Terminal => pc = "reply" /\ session[call[c].inv] = seen
      PROVE  IInv'
  BY <1>2, <1>5, GotoInv DEF PollMake, Active, At, Steps, Seen, Live, Terminal
<1> QED
  BY <1>3, <1>4, <1>5

(* A payment is dispatched for an invoice whose melt is pending and which  *)
(* no other call is at work on.                                            *)
LEMMA DispatchedInv ==
  ASSUME IInv, NEW c \in Calls, At(c, "send"),
         NEW status \in Live \cup Terminal, Dispatched(c, status),
         NEW pc \in {"poll", "reply"}, NEW seen \in {"Error"} \cup Live \cup Terminal,
         Goto(c, pc, seen),
         seen \in Terminal => pc = "reply" /\ seen = status,
         pc = "poll" => seen \in Live,
         UNCHANGED melt,
         faults' \in 0 .. MaxFaults
  PROVE  IInv'
<1> DEFINE i == call[c].inv
<1>1. i \in Invoices /\ melt[i] = "pending"
  BY DEF IInv, TypeOK, CallHoldsMelt, Active, At
<1>2. TypeOK'
  BY <1>1 DEF Dispatched, Goto, IInv, TypeOK, At, Sessions, Seen, Steps, Live, Terminal
<1>3. CallHoldsMelt' /\ OneCallPerMelt'
  BY DEF Goto, IInv, TypeOK, CallHoldsMelt, OneCallPerMelt, Active, At
<1>4. ASSUME NEW d \in Calls, At(d, "reply")', (call[d].seen \in Terminal)'
      PROVE  (session[call[d].inv] = call[d].seen)'
  <2>1. CASE d = c
    BY <2>1, <1>1, <1>4 DEF Dispatched, Goto, IInv, TypeOK
  <2>2. CASE d # c
    <3>1. At(d, "reply") /\ call'[d] = call[d]
      BY <2>2, <1>4 DEF Goto, IInv, TypeOK, At
    <3>2. call[d].inv # i
      BY <3>1, <2>2 DEF IInv, OneCallPerMelt, Active, At
    <3> QED
      BY <3>1, <3>2, <1>4 DEF Dispatched, IInv, TypeOK, ReportIsCurrent
  <2> QED
    BY <2>1, <2>2
<1>5. PollSawLive'
  BY DEF Goto, IInv, TypeOK, PollSawLive, At
<1>6. ProofsCoverPayment' /\ PaidMeansSettled'
  BY <1>1 DEF Dispatched, IInv, TypeOK, ProofsCoverPayment, PaidMeansSettled
<1> QED
  BY <1>2, <1>3, <1>4, <1>5, <1>6 DEF IInv, ReportIsCurrent

LEMMA SendMakeInv == ASSUME IInv, NEW c \in Calls, SendMake(c) PROVE IInv'
<1>1. faults' \in 0 .. MaxFaults
  BY FaultType DEF SendMake, IInv, TypeOK
<1>2. CASE Goto(c, "reply", "Error") /\ UNCHANGED <<session, faults>>
  BY <1>1, <1>2, GotoInv DEF SendMake, Active, At, Steps, Seen, Terminal
<1>3. ASSUME NEW status \in Live \cup Terminal, Dispatched(c, status),
             Goto(c, IF status \in Terminal THEN "reply" ELSE "poll", status)
      PROVE  IInv'
  BY <1>1, <1>3, DispatchedInv DEF SendMake, Live, Terminal
<1>4. ASSUME NEW status \in Live \cup Terminal, Dispatched(c, status), Goto(c, "reply", "Error")
      PROVE  IInv'
  BY <1>1, <1>4, DispatchedInv DEF SendMake, Terminal
<1> QED
  BY <1>2, <1>3, <1>4 DEF SendMake

(* The mint burns the proofs on Success and returns them on Failed, and no *)
(* other call has the melt.                                                *)
LEMMA ReplyInv == ASSUME IInv, NEW c \in Calls, Reply(c) PROVE IInv'
<1> DEFINE i == call[c].inv
<1>1. /\ i \in Invoices
      /\ melt[i] = "pending"
      /\ call[c].seen \in Terminal => session[i] = call[c].seen
  BY DEF Reply, IInv, TypeOK, CallHoldsMelt, ReportIsCurrent, Active, At
<1>2. \/ melt'[i] = "paid" /\ session[i] = "Success"
      \/ melt'[i] = "unpaid" /\ session[i] = "Failed"
      \/ melt'[i] = "pending"
  BY <1>1 DEF Reply, PaymentResponse, IInv, TypeOK, Seen, Live, Terminal
<1>3. melt' = [melt EXCEPT ![i] = melt'[i]] /\ session' = session /\ call' = [call EXCEPT ![c] = Idle]
  BY <1>1 DEF Reply, IInv, TypeOK
<1>4. TypeOK'
  BY <1>1, <1>2, <1>3, IdleType, IdleRecord DEF Reply, IInv, TypeOK, At, Melts
<1>5. CallHoldsMelt' /\ OneCallPerMelt'
  BY <1>1, <1>3, IdleType DEF Reply, IInv, TypeOK, CallHoldsMelt, OneCallPerMelt, Active, At
<1>6. ReportIsCurrent' /\ PollSawLive'
  BY <1>3, IdleType DEF IInv, TypeOK, ReportIsCurrent, PollSawLive, At
<1>7. ProofsCoverPayment' /\ PaidMeansSettled'
  BY <1>1, <1>2, <1>3 DEF IInv, TypeOK, ProofsCoverPayment, PaidMeansSettled, Live
<1> QED
  BY <1>4, <1>5, <1>6, <1>7 DEF IInv
-----------------------------------------------------------------------------
(* Every step keeps the invariant. *)
LEMMA InvNext == IInv /\ [Next]_vars => IInv'
<1> SUFFICES ASSUME IInv, [Next]_vars PROVE IInv'
  OBVIOUS
<1>1. CASE \E i \in Invoices : Quote(i) \/ NodeProgress(i)
  BY <1>1, QuoteInv, NodeInv
<1>2. CASE \E c \in Calls, i \in Invoices : StartMake(c, i) \/ StartCheck(c, i)
  BY <1>2, StartMakeInv, StartCheckInv
<1>3. CASE \E c \in Calls : CallStep(c) \/ Deadline(c)
  BY <1>3, LookupMakeInv, LookupCheckInv, SendMakeInv, PollMakeInv, ReplyInv, DeadlineInv DEF CallStep
<1>4. CASE Crash
  BY <1>4, CrashInv
<1>5. CASE UNCHANGED vars
  BY <1>5 DEF vars, IInv, TypeOK, CallHoldsMelt, OneCallPerMelt, ReportIsCurrent, PollSawLive,
     ProofsCoverPayment, PaidMeansSettled, Active, At
<1> QED
  BY <1>1, <1>2, <1>3, <1>4, <1>5 DEF Next

THEOREM Invariance == Spec => []IInv
BY InvInit, InvNext, PTL DEF Spec

(* The variables keep their types. *)
THEOREM TypeCorrect == Spec => []TypeOK
<1>1. IInv => TypeOK
  BY DEF IInv
<1> QED
  BY <1>1, Invariance, PTL

(* While a payment may take money, or has taken it, the wallet does not    *)
(* have its proofs back: payment_response never answers Failed for less.   *)
THEOREM ProofsAreCovered == Spec => []ProofsCoverPayment
<1>1. IInv => ProofsCoverPayment
  BY DEF IInv
<1> QED
  BY <1>1, Invariance, PTL
-----------------------------------------------------------------------------
(* Refinement: what a step does to the proofs and to the node's debt.      *)

LEMMA EscrowInit == Init => Escrow!Init
BY DEF Init, Escrow!Init, proofs, tlc, Live

(* A step that changes neither the melt nor what the node owes stutters.   *)
LEMMA Stutter == UNCHANGED <<melt, session>> => UNCHANGED Escrow!escrow
BY DEF Escrow!escrow, proofs, tlc

LEMMA QuoteStutters == ASSUME IInv, NEW i \in Invoices, Quote(i) PROVE UNCHANGED Escrow!escrow
BY DEF IInv, TypeOK, Quote, Escrow!escrow, proofs, tlc

LEMMA StartHolds ==
  ASSUME IInv, NEW i \in Invoices, melt[i] \in {"unpaid", "pending"},
         melt' = [melt EXCEPT ![i] = "pending"], UNCHANGED session
  PROVE  Escrow!Next \/ UNCHANGED Escrow!escrow
<1>1. tlc' = tlc
  BY DEF tlc
<1>2. CASE melt[i] = "pending"
  <2>1. proofs' = proofs
    BY <1>2 DEF proofs, IInv, TypeOK
  <2> QED
    BY <1>1, <2>1 DEF Escrow!escrow
<1>3. CASE melt[i] = "unpaid"
  <2>1. proofs[i] = "wallet" /\ proofs' = [proofs EXCEPT ![i] = "held"]
    BY <1>3 DEF proofs, IInv, TypeOK
  <2> QED
    BY <1>1, <2>1 DEF Escrow!Next, Escrow!Hold, Escrow!Move
<1> QED
  BY <1>2, <1>3

(* The only steps that change a session are a dispatch and the node's own. *)
LEMMA DispatchOwes ==
  ASSUME IInv, NEW c \in Calls, At(c, "send"),
         NEW status \in Live \cup Terminal, Dispatched(c, status), UNCHANGED melt
  PROVE  Escrow!Next \/ UNCHANGED Escrow!escrow
<1> DEFINE i == call[c].inv
<1>1. i \in Invoices /\ melt[i] = "pending"
  BY DEF IInv, TypeOK, CallHoldsMelt, Active, At
<1>2. proofs' = proofs /\ proofs[i] = "held" /\ tlc[i] = "idle"
  BY <1>1 DEF proofs, tlc, Dispatched, Live
<1>3. CASE status = "Failed"
  <2>1. tlc' = tlc
    BY <1>1, <1>3 DEF tlc, Dispatched, IInv, TypeOK, Live
  <2> QED
    BY <1>2, <2>1 DEF Escrow!escrow
<1>4. CASE status # "Failed"
  <2>1. \E to \in {"live", "settled"} : tlc' = [tlc EXCEPT ![i] = to]
    BY <1>1, <1>4 DEF tlc, Dispatched, IInv, TypeOK, Live, Terminal
  <2> QED
    BY <1>1, <1>2, <2>1 DEF Escrow!Next, Escrow!Dispatch, Escrow!Owe
<1> QED
  BY <1>3, <1>4

LEMMA NodeOwes ==
  ASSUME IInv, NEW i \in Invoices, NodeProgress(i)
  PROVE  Escrow!Next \/ UNCHANGED Escrow!escrow
<1>1. proofs' = proofs /\ tlc[i] = "live"
  BY DEF NodeProgress, proofs, tlc, Live
<1>2. \/ tlc' = tlc
      \/ tlc' = [tlc EXCEPT ![i] = "settled"]
      \/ tlc' = [tlc EXCEPT ![i] = "idle"]
  BY DEF NodeProgress, IInv, TypeOK, tlc, Live
<1> QED
  BY <1>1, <1>2 DEF Escrow!Next, Escrow!Settle, Escrow!Fail, Escrow!Owe, Escrow!escrow

LEMMA ReplyMoves ==
  ASSUME IInv, NEW c \in Calls, Reply(c)
  PROVE  Escrow!Next \/ UNCHANGED Escrow!escrow
<1> DEFINE i == call[c].inv
<1>1. /\ i \in Invoices
      /\ melt[i] = "pending"
      /\ call[c].seen \in Terminal => session[i] = call[c].seen
  BY DEF Reply, IInv, TypeOK, CallHoldsMelt, ReportIsCurrent, Active, At
<1>2. tlc' = tlc /\ proofs[i] = "held"
  BY <1>1 DEF Reply, tlc, proofs
<1>3. \/ UNCHANGED melt
      \/ melt' = [melt EXCEPT ![i] = "paid"] /\ session[i] = "Success"
      \/ melt' = [melt EXCEPT ![i] = "unpaid"] /\ session[i] = "Failed"
  BY <1>1 DEF Reply, PaymentResponse, IInv, TypeOK, Seen, Live, Terminal
<1>4. CASE UNCHANGED melt
  BY <1>2, <1>4 DEF Escrow!escrow, proofs
<1>5. CASE melt' = [melt EXCEPT ![i] = "paid"] /\ session[i] = "Success"
  <2>1. tlc[i] = "settled" /\ proofs' = [proofs EXCEPT ![i] = "burned"]
    BY <1>1, <1>5 DEF tlc, proofs, IInv, TypeOK, Live
  <2> QED
    BY <1>1, <1>2, <2>1 DEF Escrow!Next, Escrow!Burn, Escrow!Move
<1>6. CASE melt' = [melt EXCEPT ![i] = "unpaid"] /\ session[i] = "Failed"
  <2>1. tlc[i] = "idle" /\ proofs' = [proofs EXCEPT ![i] = "wallet"]
    BY <1>1, <1>6 DEF tlc, proofs, IInv, TypeOK, Live
  <2> QED
    BY <1>1, <1>2, <2>1 DEF Escrow!Next, Escrow!Release, Escrow!Move
<1> QED
  BY <1>3, <1>4, <1>5, <1>6

LEMMA EscrowNext == IInv /\ [Next]_vars => [Escrow!Next]_(Escrow!escrow)
<1> SUFFICES ASSUME IInv, [Next]_vars
             PROVE  Escrow!Next \/ UNCHANGED Escrow!escrow
  OBVIOUS
<1>1. ASSUME NEW i \in Invoices, Quote(i) PROVE UNCHANGED Escrow!escrow
  BY <1>1, QuoteStutters
<1>2. ASSUME NEW i \in Invoices, NodeProgress(i) PROVE Escrow!Next \/ UNCHANGED Escrow!escrow
  BY <1>2, NodeOwes
<1>3. ASSUME NEW c \in Calls, NEW i \in Invoices, StartMake(c, i)
      PROVE  Escrow!Next \/ UNCHANGED Escrow!escrow
  BY <1>3, StartHolds DEF StartMake, Begin
<1>4. ASSUME NEW c \in Calls, NEW i \in Invoices, StartCheck(c, i)
      PROVE  UNCHANGED Escrow!escrow
  BY <1>4, Stutter DEF StartCheck, Begin
<1>5. ASSUME NEW c \in Calls, LookupMake(c) \/ LookupCheck(c) \/ PollMake(c) \/ Deadline(c)
      PROVE  UNCHANGED Escrow!escrow
  BY <1>5, Stutter DEF LookupMake, LookupCheck, PollMake, Deadline
<1>6. ASSUME NEW c \in Calls, SendMake(c) PROVE Escrow!Next \/ UNCHANGED Escrow!escrow
  BY <1>6, DispatchOwes, Stutter DEF SendMake
<1>7. ASSUME NEW c \in Calls, Reply(c) PROVE Escrow!Next \/ UNCHANGED Escrow!escrow
  BY <1>7, ReplyMoves
<1>8. CASE Crash
  BY <1>8, Stutter DEF Crash
<1>9. CASE UNCHANGED vars
  BY <1>9, Stutter DEF vars
<1> QED
  BY <1>1, <1>2, <1>3, <1>4, <1>5, <1>6, <1>7, <1>8, <1>9 DEF Next, CallStep

(* FiberMelt implements the escrow of MeltEscrow. *)
THEOREM Refinement == Spec => ImplementsEscrow
<1>1. Spec => []IInv
  BY Invariance
<1> QED
  BY <1>1, EscrowInit, EscrowNext, PTL DEF Spec, ImplementsEscrow, Escrow!Spec

(* So the escrow's own promise holds of the melts: nothing is owed against *)
(* proofs the wallet can spend, nothing is burned without a settlement.    *)
THEOREM Solvency == Spec => []Escrow!Solvent
<1>1. IInv => Escrow!Solvent
  BY DEF IInv, TypeOK, ProofsCoverPayment, PaidMeansSettled, Escrow!Solvent, proofs, tlc,
     Sessions, Live, Terminal
<1> QED
  BY <1>1, Invariance, PTL
-----------------------------------------------------------------------------
(* An invoice that was quoted or dispatched is one resolve_invoice takes.  *)
QuotedResolves ==
  \A i \in Invoices : melt[i] # "none" \/ session[i] # "none" => Resolves(i)

LEMMA ResolvesNext == IInv /\ QuotedResolves /\ [Next]_vars => QuotedResolves'
<1> SUFFICES ASSUME IInv, QuotedResolves, [Next]_vars PROVE QuotedResolves'
  OBVIOUS
<1>1. ASSUME NEW i \in Invoices, Quote(i) \/ NodeProgress(i) PROVE QuotedResolves'
  BY <1>1 DEF Quote, NodeProgress, IInv, TypeOK, QuotedResolves, Resolves, Live
<1>2. ASSUME NEW c \in Calls, NEW i \in Invoices, StartMake(c, i) \/ StartCheck(c, i)
      PROVE  QuotedResolves'
  BY <1>2 DEF StartMake, StartCheck, Begin, IInv, TypeOK, QuotedResolves, Resolves
<1>3. ASSUME NEW c \in Calls, SendMake(c) PROVE QuotedResolves'
  <2>1. call[c].inv \in Invoices /\ melt[call[c].inv] = "pending"
    BY <1>3 DEF SendMake, IInv, TypeOK, CallHoldsMelt, Active, At
  <2> QED
    BY <1>3, <2>1 DEF SendMake, Dispatched, IInv, TypeOK, QuotedResolves, Resolves
<1>4. ASSUME NEW c \in Calls, Reply(c) PROVE QuotedResolves'
  <2>1. call[c].inv \in Invoices /\ melt[call[c].inv] = "pending"
    BY <1>4 DEF Reply, IInv, TypeOK, CallHoldsMelt, Active, At
  <2> QED
    BY <1>4, <2>1 DEF Reply, IInv, TypeOK, QuotedResolves, Resolves
<1>5. ASSUME UNCHANGED <<session, melt>> PROVE QuotedResolves'
  BY <1>5 DEF QuotedResolves, Resolves
<1> QED
  BY <1>1, <1>2, <1>3, <1>4, <1>5
  DEF Next, CallStep, LookupMake, LookupCheck, PollMake, Deadline, Crash, vars

(* The node is asked to pay in the configured asset, on the configured     *)
(* network, an amount the mint knows, whatever invoices wallets bring.     *)
THEOREM AssetIsChecked == Spec => []OnlyConfiguredAssetIsSpent
<1>1. Init => QuotedResolves
  BY DEF Init, QuotedResolves
<1>2. QuotedResolves => OnlyConfiguredAssetIsSpent
  BY DEF QuotedResolves, Resolves, OnlyConfiguredAssetIsSpent
<1> QED
  BY <1>1, <1>2, ResolvesNext, Invariance, PTL DEF Spec

LEMMA DispatchNext == IInv /\ NeverDispatchTwice /\ [Next]_vars => NeverDispatchTwice'
<1> SUFFICES ASSUME IInv, NeverDispatchTwice, [Next]_vars, faults' = 0, NEW c \in Calls, At(c, "send")'
             PROVE  (session[call[c].inv] \in {"none", "Failed"})'
  BY DEF NeverDispatchTwice
<1>0. faults = 0 \/ ~UNCHANGED faults
  OBVIOUS
<1>1. ASSUME NEW i \in Invoices, Quote(i) \/ NodeProgress(i)
      PROVE  (session[call[c].inv] \in {"none", "Failed"})'
  BY <1>1, <1>0 DEF Quote, NodeProgress, IInv, TypeOK, NeverDispatchTwice, At, Live
<1>2. ~Fault
  BY DEF Fault, IInv, TypeOK
<1>3. ASSUME NEW d \in Calls, NEW i \in Invoices, StartMake(d, i) \/ StartCheck(d, i)
      PROVE  (session[call[c].inv] \in {"none", "Failed"})'
  BY <1>0, <1>2, <1>3 DEF StartMake, StartCheck, Begin, IInv, TypeOK, NeverDispatchTwice, At
<1>4. ASSUME NEW d \in Calls, LookupMake(d)
      PROVE  (session[call[c].inv] \in {"none", "Failed"})'
  <2>1. /\ faults = 0
        /\ UNCHANGED session
        /\ \/ Goto(d, "send", "none") /\ session[call[d].inv] \in {"none", "Failed"}
           \/ \E seen \in Seen : Goto(d, "reply", seen)
    BY <1>2, <1>4 DEF LookupMake, GetPayment, Answers, IInv, TypeOK, Sessions, Seen, Live, Terminal
  <2> QED
    BY <2>1 DEF Goto, IInv, TypeOK, NeverDispatchTwice, At
<1>5. ASSUME NEW d \in Calls, LookupCheck(d) \/ PollMake(d) \/ Deadline(d)
      PROVE  (session[call[c].inv] \in {"none", "Failed"})'
  <2>1. /\ faults = 0
        /\ UNCHANGED session
        /\ \/ UNCHANGED call
           \/ \E pc \in {"reply", "poll"}, seen \in Seen : Goto(d, pc, seen)
    BY <1>2, <1>5 DEF LookupCheck, PollMake, Deadline, GetPayment, Answers, IInv, TypeOK, Sessions, Seen,
       Live, Terminal
  <2> QED
    BY <2>1 DEF Goto, IInv, TypeOK, NeverDispatchTwice, At
<1>6. ASSUME NEW d \in Calls, SendMake(d)
      PROVE  (session[call[c].inv] \in {"none", "Failed"})'
  <2>1. faults = 0 /\ At(c, "send") /\ call'[c] = call[c] /\ c # d
    BY <1>2, <1>6 DEF SendMake, Goto, IInv, TypeOK, At, Live, Terminal
  <2>2. call[c].inv # call[d].inv /\ call[c].inv \in Invoices
    BY <1>6, <2>1 DEF SendMake, IInv, TypeOK, OneCallPerMelt, Active, At
  <2> QED
    BY <1>6, <2>1, <2>2 DEF SendMake, Dispatched, IInv, TypeOK, NeverDispatchTwice
<1>7. ASSUME NEW d \in Calls, Reply(d)
      PROVE  (session[call[c].inv] \in {"none", "Failed"})'
  BY <1>0, <1>7, IdleType DEF Reply, IInv, TypeOK, NeverDispatchTwice, At
<1>8. CASE UNCHANGED vars
  BY <1>8 DEF vars, NeverDispatchTwice, At
<1> QED
  BY <1>1, <1>2, <1>3, <1>4, <1>5, <1>6, <1>7, <1>8 DEF Next, CallStep, Crash

(* While the node answers truthfully, make_payment never asks it to pay a  *)
(* hash that is live or settled.                                           *)
THEOREM DispatchedOnce == Spec => []NeverDispatchTwice
<1>1. Init => NeverDispatchTwice
  BY IdleType DEF Init, NeverDispatchTwice, At
<1> QED
  BY <1>1, DispatchNext, Invariance, PTL DEF Spec

(* What the node is asked to pay, for any calls and invoices.              *)
THEOREM DispatchTheorem == Spec => []DispatchIsSound
<1>1. NeverDispatchTwice /\ OnlyConfiguredAssetIsSpent => DispatchIsSound
  BY DEF DispatchIsSound
<1> QED
  BY <1>1, DispatchedOnce, AssetIsChecked, PTL
-----------------------------------------------------------------------------
(* div_ceil is the least quotient that is enough.                          *)
LEMMA DivBounds ==
  ASSUME NEW a \in Nat, NEW b \in Nat \ {0}
  PROVE  /\ a \div b \in Nat
         /\ b * (a \div b) <= a
         /\ a < b * (a \div b) + b
<1>1. a \div b \in Int
  OBVIOUS
<1>2. a = b * (a \div b) + (a % b) /\ 0 <= a % b /\ a % b < b
  OBVIOUS
<1> QED
  BY <1>1, <1>2

LEMMA DivCeilCovers ==
  ASSUME NEW a \in Nat, NEW b \in Nat \ {0}
  PROVE  DivCeil(a, b) \in Nat /\ a <= DivCeil(a, b) * b
<1> DEFINE n == a + b - 1
<1>1. n \in Nat
  OBVIOUS
<1>2. n \div b \in Nat /\ n < b * (n \div b) + b
  BY <1>1, DivBounds
<1> QED
  BY <1>2 DEF DivCeil

LEMMA DivCeilLeast ==
  ASSUME NEW a \in Nat, NEW b \in Nat \ {0}, NEW k \in Nat, a <= k * b
  PROVE  DivCeil(a, b) <= k
<1> DEFINE n == a + b - 1
           q == n \div b
<1>1. n \in Nat
  OBVIOUS
<1>2. q \in Nat /\ b * q <= n
  BY <1>1, DivBounds
<1>3. b * q < b * (k + 1)
  BY <1>2
<1>4. q < k + 1
  BY <1>2, <1>3
<1> QED
  BY <1>2, <1>4 DEF DivCeil

LEMMA DivCovers ==
  ASSUME NEW a \in Nat, NEW b \in Nat \ {0}, NEW k \in Nat, k * b <= a
  PROVE  k <= a \div b
<1> DEFINE q == a \div b
<1>1. q \in Nat /\ a < b * q + b
  BY DivBounds
<1>2. b * k < b * (q + 1)
  BY <1>1
<1>3. k < q + 1
  BY <1>1, <1>2
<1> QED
  BY <1>1, <1>3
-----------------------------------------------------------------------------
(* from_base_ceil, when it has a result: enough base units, no unit more.  *)
LEMMA CeilResult ==
  ASSUME NEW a \in Nat, NEW s \in Nat \ {0}, FromBaseCeil(a, s) # Overflow
  PROVE  /\ FromBaseCeil(a, s) \in U64
         /\ a <= FromBaseCeil(a, s) * s
         /\ \A k \in Nat : a <= k * s => FromBaseCeil(a, s) <= k
<1>1. DivCeil(a, s) \in Nat /\ a <= DivCeil(a, s) * s
  BY DivCeilCovers
<1>2. FromBaseCeil(a, s) = DivCeil(a, s) /\ DivCeil(a, s) <= U64Max
  BY DEF FromBaseCeil, Narrowed
<1> QED
  BY <1>1, <1>2, DivCeilLeast, WidthAssumption DEF U64

(* fee_reserve, when it has a result, pays for the fee it was given.       *)
LEMMA ReserveResult ==
  ASSUME NEW f \in Nat, NEW s \in Nat \ {0}, NEW p \in U8, NEW m \in U64,
         FeeReserve(f, s, p, m) # Overflow
  PROVE  FeeReserve(f, s, p, m) \in U64 /\ f <= FeeReserve(f, s, p, m) * s
<1> DEFINE routed == FromBaseCeil(f, s)
           raised == routed * (100 + p)
           cushioned == Narrowed(DivCeil(raised, 100))
<1>1. routed # Overflow /\ cushioned # Overflow
  BY DEF FeeReserve
<1>2. routed \in Nat /\ f <= routed * s
  BY <1>1, CeilResult, WidthAssumption DEF U64
<1>3. p \in Nat
  BY DEF U8
<1>4. raised \in Nat /\ routed * 100 <= raised
  BY <1>2, <1>3
<1>5. DivCeil(raised, 100) \in Nat /\ raised <= DivCeil(raised, 100) * 100
  BY <1>4, DivCeilCovers
<1>6. cushioned = DivCeil(raised, 100) /\ cushioned \in U64
  BY <1>1, <1>5, WidthAssumption DEF Narrowed, U64
<1>7. routed <= cushioned
  BY <1>2, <1>4, <1>5, <1>6
<1>8. FeeReserve(f, s, p, m) = IF cushioned >= m THEN cushioned ELSE m
  BY <1>1 DEF FeeReserve
<1>9. FeeReserve(f, s, p, m) \in U64 /\ routed <= FeeReserve(f, s, p, m)
  BY <1>2, <1>6, <1>7, <1>8, WidthAssumption DEF U64
<1>10. routed * s <= FeeReserve(f, s, p, m) * s
  BY <1>2, <1>9, WidthAssumption DEF U64
<1> QED
  BY <1>2, <1>9, <1>10, WidthAssumption DEF U64

(* The node never exceeds the ceiling it is given, and reaches it when the *)
(* rate does: max_fee_rate_for asks for a rate that does.                  *)
LEMMA CeilingBound ==
  ASSUME NEW a \in Nat, NEW f \in Nat, NEW r \in Nat \cup {NoRate}
  PROVE  NodeCeiling(a, f, r) \in Nat /\ NodeCeiling(a, f, r) <= f
<1> DEFINE rate == IF r = NoRate THEN DefaultRate ELSE r
<1>1. rate \in Nat
  BY DEF DefaultRate
<1>2. a * rate \in Nat
  BY <1>1
<1>3. (a * rate) \div 1000 \in Nat
  BY <1>2, DivBounds
<1> QED
  BY <1>3 DEF NodeCeiling, Denominator

LEMMA RateSuffices ==
  ASSUME NEW a \in Nat \ {0}, NEW f \in Nat, f * Denominator <= U128Max,
         DivCeil(f * Denominator, a) <= U64Max
  PROVE  NodeCeiling(a, f, MaxFeeRateFor(a, f)) = f
<1> DEFINE needed == DivCeil(f * 1000, a)
           r == MaxFeeRateFor(a, f)
           rate == IF r = NoRate THEN DefaultRate ELSE r
<1>1. f * 1000 \in Nat
  OBVIOUS
<1>2. needed \in Nat /\ f * 1000 <= needed * a
  BY <1>1, DivCeilCovers
<1>3. rate \in Nat /\ needed <= rate
  BY <1>2, WidthAssumption DEF MaxFeeRateFor, NoRate, DefaultRate, Denominator
<1>4. needed * a <= a * rate
  BY <1>2, <1>3
<1>5. a * rate \in Nat /\ f * 1000 <= a * rate
  BY <1>1, <1>2, <1>3, <1>4
<1>6. f <= (a * rate) \div 1000
  BY <1>5, DivCovers
<1> QED
  BY <1>6 DEF NodeCeiling, Denominator
-----------------------------------------------------------------------------
(* What each stage knows of the numbers of the stages before it.           *)
Scale == config.scale

Priced ==
  stage \in {"quoted", "dispatched", "settled"} =>
    amount <= quote.amount * Scale /\ probed <= quote.reserve * Scale

CeilingSet ==
  /\ stage = "dispatched" => ceiling = Ceiling(amount, quote.reserve)
  /\ stage \in {"dispatched", "settled"} => ceiling <= quote.reserve * Scale

FeeBounded == stage = "settled" => fee <= ceiling

PInv ==
  /\ PricingTypeOK
  /\ Priced
  /\ CeilingSet
  /\ FeeBounded
  /\ ChargeCoversSpend
  /\ ChargeWithinQuote

LEMMA PricesInit == PricingInit => PInv
<1> SUFFICES ASSUME PricingInit PROVE PInv
  OBVIOUS
<1>1. PricingTypeOK
  <2>1. config \in [scale : U64 \ {0}, percent : U8, floor : U64]
    BY PricingAssumption DEF PricingInit
  <2>2. 0 \in U64 /\ 0 \in U128 /\ 0 \in Nat
    BY WidthAssumption DEF U64, U128
  <2>3. stage \in Stages
    BY DEF PricingInit, Stages
  <2> QED
    BY <2>1, <2>2, <2>3 DEF PricingInit, PricingTypeOK
<1> QED
  BY <1>1 DEF PricingInit, PInv, Priced, CeilingSet, FeeBounded, ChargeCoversSpend, ChargeWithinQuote

(* The types of the numbers, as the conversions need them.                 *)
LEMMA Numbers ==
  ASSUME PricingTypeOK
  PROVE  /\ Scale \in Nat \ {0}
         /\ config.percent \in U8 /\ config.floor \in U64
         /\ amount \in Nat /\ probed \in Nat /\ ceiling \in Nat /\ fee \in Nat
         /\ quote.amount \in Nat /\ quote.reserve \in Nat /\ charged \in Nat
BY WidthAssumption DEF PricingTypeOK, Scale, U64, U128

LEMMA QuoteStep ==
  ASSUME PInv, NEW a \in Amounts, NEW f \in Fees, PriceQuote(a, f)
  PROVE  PInv'
<1> DEFINE ecash == FromBaseCeil(a, Scale)
           reserve == FeeReserve(f, Scale, config.percent, config.floor)
<1>0. a \in U128 /\ f \in U128 /\ a \in Nat /\ f \in Nat
  BY PricingAssumption, WidthAssumption DEF U128
<1>1. CASE ecash = Overflow \/ reserve = Overflow
  <2>1. stage' = "refused" /\ UNCHANGED quote
    BY <1>1 DEF PriceQuote, Scale
  <2>2. PricingTypeOK'
    BY <1>0, <2>1 DEF PriceQuote, PInv, PricingTypeOK, Stages
  <2> QED
    BY <2>1, <2>2 DEF PInv, Priced, CeilingSet, FeeBounded, ChargeCoversSpend, ChargeWithinQuote
<1>2. CASE ecash # Overflow /\ reserve # Overflow
  <2>1. stage' = "quoted" /\ quote' = [amount |-> ecash, reserve |-> reserve]
    BY <1>2 DEF PriceQuote, Scale
  <2>2. /\ ecash \in U64 /\ a <= ecash * Scale
        /\ reserve \in U64 /\ f <= reserve * Scale
    BY <1>0, <1>2, Numbers, CeilResult, ReserveResult DEF PInv
  <2>3. PricingTypeOK'
    BY <1>0, <2>1, <2>2 DEF PriceQuote, PInv, PricingTypeOK, Stages
  <2>4. Priced'
    BY <2>1, <2>2 DEF PriceQuote, Priced, Scale
  <2> QED
    BY <2>1, <2>3, <2>4 DEF PInv, CeilingSet, FeeBounded, ChargeCoversSpend, ChargeWithinQuote
<1> QED
  BY <1>1, <1>2

LEMMA CeilingType ==
  ASSUME PricingTypeOK
  PROVE  Ceiling(amount, quote.reserve) \in Nat /\ Ceiling(amount, quote.reserve) <= quote.reserve * Scale
<1> DEFINE maxFee == ToBase(quote.reserve, Scale)
           rate == MaxFeeRateFor(amount, maxFee)
<1>1. maxFee \in Nat /\ maxFee = quote.reserve * Scale
  BY Numbers DEF ToBase
<1>2. rate \in Nat \cup {NoRate}
  <2>1. CASE amount = 0
    BY <2>1 DEF MaxFeeRateFor
  <2>2. CASE amount # 0
    <3>1. DivCeil(maxFee * Denominator, amount) \in Nat
      BY <1>1, <2>2, Numbers, DivCeilCovers DEF Denominator
    <3> QED
      BY <3>1 DEF MaxFeeRateFor
  <2> QED
    BY <2>1, <2>2
<1>3. Ceiling(amount, quote.reserve) = NodeCeiling(amount, maxFee, rate)
  BY DEF Ceiling, Scale
<1>4. amount \in Nat
  BY Numbers
<1> HIDE DEF maxFee, rate
<1>5. NodeCeiling(amount, maxFee, rate) \in Nat /\ NodeCeiling(amount, maxFee, rate) <= maxFee
  BY <1>1, <1>2, <1>4, CeilingBound
<1> QED
  BY <1>1, <1>3, <1>5

LEMMA MakePaymentStep == ASSUME PInv, MakePayment PROVE PInv'
<1>1. ceiling' \in Nat /\ ceiling' <= quote.reserve * Scale
  BY CeilingType DEF MakePayment, PInv
<1>2. PricingTypeOK'
  BY <1>1 DEF MakePayment, PInv, PricingTypeOK, Stages
<1>3. Priced'
  BY DEF MakePayment, PInv, Priced, Scale
<1>4. CeilingSet'
  BY <1>1 DEF MakePayment, CeilingSet, Ceiling, Scale
<1> QED
  BY <1>2, <1>3, <1>4 DEF MakePayment, PInv, FeeBounded, ChargeCoversSpend, ChargeWithinQuote

LEMMA SettleStep == ASSUME PInv, NEW f \in 0 .. ceiling, Settle(f) PROVE PInv'
<1>1. f \in Nat
  BY Numbers DEF PInv
<1>2. PricingTypeOK'
  BY <1>1 DEF Settle, PInv, PricingTypeOK, Stages
<1>3. Priced' /\ CeilingSet' /\ FeeBounded'
  BY DEF Settle, PInv, Priced, CeilingSet, FeeBounded, Scale
<1> QED
  BY <1>2, <1>3 DEF Settle, PInv, ChargeCoversSpend, ChargeWithinQuote

(* A report has a total or is refused; what it says is a fact about that   *)
(* total alone.                                                            *)
LEMMA ReportStep ==
  ASSUME PInv, NEW total \in U64 \cup {Overflow}, NEW reported \in {"charged", "charged_late"},
         Report(total, reported),
         total # Overflow => total <= quote.amount + quote.reserve,
         total # Overflow /\ reported = "charged" => amount + fee <= total * Scale
  PROVE  PInv'
<1>1. PricingTypeOK'
  BY DEF Report, PInv, PricingTypeOK, Stages
<1>2. Priced' /\ CeilingSet' /\ FeeBounded'
  BY DEF Report, Priced, CeilingSet, FeeBounded
<1>3. ChargeCoversSpend' /\ ChargeWithinQuote'
  BY DEF Report, ChargeCoversSpend, ChargeWithinQuote, ToBase, Scale
<1> QED
  BY <1>1, <1>2, <1>3 DEF PInv

LEMMA TotalResult ==
  ASSUME PricingTypeOK, NEW a \in Nat, NEW f \in Nat
  PROVE  /\ TotalSpent(a, f) \in U64 \cup {Overflow}
         /\ TotalSpent(a, f) # Overflow =>
              /\ a + f <= TotalSpent(a, f) * Scale
              /\ \A k \in Nat : a + f <= k * Scale => TotalSpent(a, f) <= k
<1>1. CASE TotalSpent(a, f) = Overflow
  BY <1>1
<1>2. CASE TotalSpent(a, f) # Overflow
  <2>1. TotalSpent(a, f) = FromBaseCeil(a + f, Scale)
    BY <1>2 DEF TotalSpent, Scale
  <2> QED
    BY <1>2, <2>1, Numbers, CeilResult
<1> QED
  BY <1>1, <1>2

LEMMA ReportMakeStep == ASSUME PInv, ReportMake PROVE PInv'
<1> DEFINE total == TotalSpent(amount, fee)
<1>1. stage = "settled"
  BY DEF ReportMake, Report
<1>2. amount + fee <= quote.amount * Scale + quote.reserve * Scale
  BY <1>1, Numbers DEF PInv, Priced, CeilingSet, FeeBounded
<1>3. amount + fee <= (quote.amount + quote.reserve) * Scale
  BY <1>2, Numbers DEF PInv
<1>4. total # Overflow => total <= quote.amount + quote.reserve /\ amount + fee <= total * Scale
  BY <1>3, Numbers, TotalResult DEF PInv
<1>5. total \in U64 \cup {Overflow}
  BY Numbers, TotalResult DEF PInv
<1> QED
  BY <1>4, <1>5, ReportStep DEF ReportMake

LEMMA ReportCheckStep == ASSUME PInv, ReportCheck PROVE PInv'
<1> DEFINE total == TotalSpent(0, fee)
<1>1. stage = "settled"
  BY DEF ReportCheck, Report
<1>2. 0 + fee <= quote.reserve * Scale
  BY <1>1, Numbers DEF PInv, CeilingSet, FeeBounded
<1>3. total # Overflow => total <= quote.reserve
  BY <1>2, Numbers, TotalResult DEF PInv
<1>4. total # Overflow => total <= quote.amount + quote.reserve
  BY <1>3, Numbers, TotalResult, WidthAssumption DEF PInv, U64
<1>5. total \in U64 \cup {Overflow}
  BY Numbers, TotalResult DEF PInv
<1> QED
  BY <1>4, <1>5, ReportStep DEF ReportCheck
-----------------------------------------------------------------------------
LEMMA PricesNext == PInv /\ [PricingNext]_pricing => PInv'
<1> SUFFICES ASSUME PInv, [PricingNext]_pricing PROVE PInv'
  OBVIOUS
<1>1. CASE UNCHANGED pricing
  BY <1>1 DEF pricing, PInv, PricingTypeOK, Priced, CeilingSet, Ceiling, FeeBounded, ChargeCoversSpend,
     ChargeWithinQuote, Scale
<1> QED
  BY <1>1, QuoteStep, MakePaymentStep, SettleStep, ReportMakeStep, ReportCheckStep DEF PricingNext

THEOREM PricingInvariance == PricingSpec => []PInv
BY PricesInit, PricesNext, PTL DEF PricingSpec

(* No number of a melt outgrows its type: what does not fit is refused.    *)
THEOREM PricingTypes == PricingSpec => []PricingTypeOK
<1>1. PInv => PricingTypeOK
  BY DEF PInv
<1> QED
  BY <1>1, PricingInvariance, PTL

(* A route that still costs what the dry run said is never refused for its *)
(* fee: the rate asked for leaves the quoted reserve as the ceiling.       *)
THEOREM FeeStaysPayable == PricingSpec => []ProbedFeeIsPayable
<1>1. PInv => ProbedFeeIsPayable
  <2> SUFFICES ASSUME PInv, stage = "dispatched", RateFits PROVE probed <= ceiling
    BY DEF ProbedFeeIsPayable
  <2> DEFINE maxFee == ToBase(quote.reserve, Scale)
  <2>1. maxFee \in Nat /\ maxFee = quote.reserve * Scale /\ amount \in Nat \ {0}
    BY Numbers DEF PInv, ToBase, RateFits
  <2>2. NodeCeiling(amount, maxFee, MaxFeeRateFor(amount, maxFee)) = maxFee
    BY <2>1, RateSuffices DEF RateFits, Scale
  <2>3. ceiling = maxFee
    BY <2>2 DEF PInv, CeilingSet, Ceiling, Scale
  <2> QED
    BY <2>1, <2>3 DEF PInv, Priced
<1> QED
  BY <1>1, PricingInvariance, PTL

(* A melt reported by make_payment charges at least what it cost, and the  *)
(* change of a melt is never negative, whichever handler reports it.       *)
THEOREM ChargeTheorem == PricingSpec => []ChargeIsSound
<1>1. PInv => ChargeIsSound
  BY DEF PInv, ChargeIsSound
<1> QED
  BY <1>1, PricingInvariance, PTL
==============================================================================
