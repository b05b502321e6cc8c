-------------------------- MODULE FiberInvoicesProofs --------------------------
(***************************************************************************)
(* Proofs about FiberInvoices, for any invoices, any size of the channel   *)
(* and any number of faults: the mint is told of an invoice only when the  *)
(* node was paid, by one event, and the sweeper forgets no invoice.        *)
(***************************************************************************)
EXTENDS FiberInvoices, SequenceTheorems, TLAPS

Queued == ToSet(chan)
Sweeping == sweep.pc \in {"scan", "send", "unwatch"}

(* An invoice is made, then watched, then it has an event.                 *)
InvoicesExist == \A h \in creating \cup watching \cup Queued \cup known : status[h] # "absent"
NewIsUnknown == creating \cap (watching \cup Queued \cup known) = {}

(* What the sweep has still to look at is watched, and so is the invoice   *)
(* at hand, until it is not.                                               *)
SweepIsWatched ==
  /\ Sweeping => sweep.todo \subseteq watching /\ sweep.cur \notin sweep.todo
  /\ IF sweep.pc \in {"send", "unwatch"} THEN sweep.cur \in watching ELSE sweep.cur = NoInvoice

(* The invoice at hand is paid, and not queued before it is sent; once the *)
(* sweep goes on to unwatch it, its event is in the channel or further.    *)
SendIsPaid == sweep.pc = "send" => status[sweep.cur] = "Paid"

UnwatchIsSafe ==
  sweep.pc = "unwatch" /\ ~lost =>
    Closed(sweep.cur) \/ sweep.cur \in Queued \cup credited

IInv ==
  /\ TypeOK /\ CreditOnlyPaid /\ NothingForgotten
  /\ InvoicesExist /\ NewIsUnknown /\ SweepIsWatched /\ SendIsPaid /\ UnwatchIsSafe
-----------------------------------------------------------------------------
(* The channel.                                                            *)
LEMMA QueueEmpty == ToSet(<<>>) = {} /\ IsInjective(<<>>)
BY DEF ToSet, IsInjective

LEMMA QueueAppend ==
  ASSUME NEW s \in Seq(Invoices), NEW h \in Invoices
  PROVE  /\ Append(s, h) \in Seq(Invoices) /\ Len(Append(s, h)) = Len(s) + 1
         /\ ToSet(Append(s, h)) = ToSet(s) \cup {h}
         /\ IsInjective(s) /\ h \notin ToSet(s) => IsInjective(Append(s, h))
<1>1. /\ Append(s, h) \in Seq(Invoices) /\ Len(Append(s, h)) = Len(s) + 1 /\ Len(s) \in Nat
      /\ DOMAIN s = 1 .. Len(s) /\ DOMAIN Append(s, h) = 1 .. (Len(s) + 1)
      /\ \A i \in 1 .. Len(s) : Append(s, h)[i] = s[i]
      /\ Append(s, h)[Len(s) + 1] = h
  OBVIOUS
<1>2. ToSet(Append(s, h)) = ToSet(s) \cup {h}
  BY <1>1 DEF ToSet
<1>3. IsInjective(s) /\ h \notin ToSet(s) => IsInjective(Append(s, h))
  BY <1>1 DEF ToSet, IsInjective
<1> QED
  BY <1>1, <1>2, <1>3

LEMMA QueueTail ==
  ASSUME NEW s \in Seq(Invoices), s # <<>>
  PROVE  /\ Tail(s) \in Seq(Invoices) /\ Len(Tail(s)) <= Len(s)
         /\ Head(s) \in Invoices
         /\ ToSet(s) = {Head(s)} \cup ToSet(Tail(s))
         /\ IsInjective(s) => IsInjective(Tail(s))
<1>1. /\ Tail(s) \in Seq(Invoices) /\ Len(Tail(s)) = Len(s) - 1 /\ Len(s) \in Nat \ {0}
      /\ Head(s) = s[1]
      /\ DOMAIN s = 1 .. Len(s) /\ DOMAIN Tail(s) = 1 .. (Len(s) - 1)
      /\ \A i \in 1 .. (Len(s) - 1) : Tail(s)[i] = s[i + 1]
  OBVIOUS
<1>2. ToSet(s) \subseteq {Head(s)} \cup ToSet(Tail(s))
  <2> SUFFICES ASSUME NEW i \in 1 .. Len(s), i # 1 PROVE \E j \in DOMAIN Tail(s) : s[i] = Tail(s)[j]
    BY <1>1 DEF ToSet
  <2>1. i - 1 \in 1 .. (Len(s) - 1) /\ s[i] = Tail(s)[i - 1]
    BY <1>1
  <2> QED
    BY <1>1, <2>1
<1>3. {Head(s)} \cup ToSet(Tail(s)) \subseteq ToSet(s)
  BY <1>1 DEF ToSet
<1>4. IsInjective(s) => IsInjective(Tail(s))
  <2> SUFFICES ASSUME IsInjective(s), NEW i \in DOMAIN Tail(s), NEW j \in DOMAIN Tail(s),
                      Tail(s)[i] = Tail(s)[j]
               PROVE  i = j
    BY DEF IsInjective
  <2>1. i + 1 \in DOMAIN s /\ j + 1 \in DOMAIN s /\ s[i + 1] = s[j + 1]
    BY <1>1
  <2>2. i + 1 = j + 1
    BY <2>1 DEF IsInjective
  <2> QED
    BY <1>1, <2>2
<1> QED
  BY <1>1, <1>2, <1>3, <1>4
-----------------------------------------------------------------------------
LEMMA InvoicesInit == Init => IInv
<1> SUFFICES ASSUME Init PROVE IInv
  OBVIOUS
<1>1. Queued = {} /\ IsInjective(chan) /\ chan \in Seq(Invoices) /\ Len(chan) = 0
  BY QueueEmpty DEF Init, Queued
<1>2. TypeOK
  <2>1. sweep \in [pc : {"idle", "scan", "send", "unwatch", "stopped"},
                  todo : SUBSET Invoices, cur : Invoices \cup {NoInvoice}]
    BY DEF Init, Rest
  <2>2. status \in [Invoices -> Statuses] /\ faults \in 0 .. MaxFaults /\ Len(chan) <= EventBuffer
    BY <1>1, InvoiceAssumption DEF Init, Statuses
  <2> QED
    BY <1>1, <2>1, <2>2 DEF Init, TypeOK
<1>3. CreditOnlyPaid /\ NothingForgotten /\ InvoicesExist /\ NewIsUnknown
  BY <1>1 DEF Init, CreditOnlyPaid, NothingForgotten, InvoicesExist, NewIsUnknown, Queued
<1>4. SweepIsWatched /\ SendIsPaid /\ UnwatchIsSafe
  BY DEF Init, Rest, SweepIsWatched, Sweeping, SendIsPaid, UnwatchIsSafe
<1> QED
  BY <1>2, <1>3, <1>4 DEF IInv

(* The invoices of the node and of the adapter.                            *)
LEMMA NodeSteps ==
  ASSUME IInv, NEW h \in Invoices,
         NewInvoice(h) \/ WatchInvoice(h) \/ NodeStep(h) \/ CheckIncoming(h)
  PROVE  IInv'
<1> USE DEF IInv, TypeOK, Statuses, Queued, node, stream
<1>1. CASE NewInvoice(h)
  BY <1>1 DEF NewInvoice, CreditOnlyPaid, NothingForgotten, InvoicesExist, NewIsUnknown,
     SweepIsWatched, Sweeping, SendIsPaid, UnwatchIsSafe, Closed
<1>2. CASE WatchInvoice(h)
  BY <1>2 DEF WatchInvoice, CreditOnlyPaid, NothingForgotten, InvoicesExist, NewIsUnknown,
     SweepIsWatched, Sweeping, SendIsPaid, UnwatchIsSafe, Closed
<1>3. CASE NodeStep(h)
  BY <1>3 DEF NodeStep, CreditOnlyPaid, NothingForgotten, InvoicesExist, NewIsUnknown,
     SweepIsWatched, Sweeping, SendIsPaid, UnwatchIsSafe, Closed
<1>4. CASE CheckIncoming(h)
  BY <1>4 DEF CheckIncoming, Settled, CreditOnlyPaid, NothingForgotten, InvoicesExist, NewIsUnknown,
     SweepIsWatched, Sweeping, SendIsPaid, UnwatchIsSafe, Closed
<1> QED
  BY <1>1, <1>2, <1>3, <1>4

(* The sweeper.  What it looks up is paid, closed or left for later.       *)
LEMMA LookupSteps ==
  ASSUME IInv, SweepStart \/ SweepEnd \/ SweeperStop \/ \E h \in Invoices : SweepLookup(h)
  PROVE  IInv'
<1> USE DEF IInv, Queued, node, stream, Rest
<1>1. CASE SweepStart
  <2>1. TypeOK'
    BY <1>1, InvoiceAssumption DEF SweepStart, TypeOK, Statuses
  <2>2. CreditOnlyPaid'
    BY <1>1, InvoiceAssumption DEF SweepStart, TypeOK, CreditOnlyPaid, SweepIsWatched, SendIsPaid
  <2>3. NothingForgotten'
    BY <1>1, InvoiceAssumption DEF SweepStart, TypeOK, NothingForgotten, UnwatchIsSafe, SweepIsWatched, Closed
  <2>4. InvoicesExist' /\ NewIsUnknown'
    BY <1>1, InvoiceAssumption DEF SweepStart, TypeOK, InvoicesExist, NewIsUnknown, SweepIsWatched, Sweeping
  <2>5. SweepIsWatched' /\ SendIsPaid'
    BY <1>1, InvoiceAssumption DEF SweepStart, TypeOK, SweepIsWatched, Sweeping, SendIsPaid
  <2>6. UnwatchIsSafe'
    BY <1>1, InvoiceAssumption DEF SweepStart, TypeOK, UnwatchIsSafe, Closed
  <2> QED
    BY <2>1, <2>2, <2>3, <2>4, <2>5, <2>6 DEF IInv
<1>2. CASE SweepEnd
  <2>1. TypeOK'
    BY <1>2, InvoiceAssumption DEF SweepEnd, TypeOK, Statuses
  <2>2. CreditOnlyPaid'
    BY <1>2, InvoiceAssumption DEF SweepEnd, TypeOK, CreditOnlyPaid, SweepIsWatched, SendIsPaid
  <2>3. NothingForgotten'
    BY <1>2, InvoiceAssumption DEF SweepEnd, TypeOK, NothingForgotten, UnwatchIsSafe, SweepIsWatched, Closed
  <2>4. InvoicesExist' /\ NewIsUnknown'
    BY <1>2, InvoiceAssumption DEF SweepEnd, TypeOK, InvoicesExist, NewIsUnknown, SweepIsWatched, Sweeping
  <2>5. SweepIsWatched' /\ SendIsPaid'
    BY <1>2, InvoiceAssumption DEF SweepEnd, TypeOK, SweepIsWatched, Sweeping, SendIsPaid
  <2>6. UnwatchIsSafe'
    BY <1>2, InvoiceAssumption DEF SweepEnd, TypeOK, UnwatchIsSafe, Closed
  <2> QED
    BY <2>1, <2>2, <2>3, <2>4, <2>5, <2>6 DEF IInv
<1>3. CASE SweeperStop
  <2>1. TypeOK'
    BY <1>3, InvoiceAssumption DEF SweeperStop, TypeOK, Statuses
  <2>2. CreditOnlyPaid'
    BY <1>3, InvoiceAssumption DEF SweeperStop, TypeOK, CreditOnlyPaid, SweepIsWatched, SendIsPaid
  <2>3. NothingForgotten'
    BY <1>3, InvoiceAssumption DEF SweeperStop, TypeOK, NothingForgotten, UnwatchIsSafe, SweepIsWatched, Closed
  <2>4. InvoicesExist' /\ NewIsUnknown'
    BY <1>3, InvoiceAssumption DEF SweeperStop, TypeOK, InvoicesExist, NewIsUnknown, SweepIsWatched, Sweeping
  <2>5. SweepIsWatched' /\ SendIsPaid'
    BY <1>3, InvoiceAssumption DEF SweeperStop, TypeOK, SweepIsWatched, Sweeping, SendIsPaid
  <2>6. UnwatchIsSafe'
    BY <1>3, InvoiceAssumption DEF SweeperStop, TypeOK, UnwatchIsSafe, Closed
  <2> QED
    BY <2>1, <2>2, <2>3, <2>4, <2>5, <2>6 DEF IInv
<1>4. ASSUME NEW h \in Invoices, SweepLookup(h) PROVE IInv'
  <2>1. TypeOK'
    BY <1>4, InvoiceAssumption DEF SweepLookup, Settled, Closed, Fault, TypeOK, Statuses
  <2>2. CreditOnlyPaid'
    BY <1>4, InvoiceAssumption DEF SweepLookup, Settled, Closed, Fault, TypeOK, CreditOnlyPaid, SweepIsWatched, SendIsPaid
  <2>3. NothingForgotten'
    BY <1>4, InvoiceAssumption DEF SweepLookup, Settled, Closed, Fault, TypeOK, NothingForgotten, UnwatchIsSafe, SweepIsWatched, Closed
  <2>4. InvoicesExist' /\ NewIsUnknown'
    BY <1>4, InvoiceAssumption DEF SweepLookup, Settled, Closed, Fault, TypeOK, InvoicesExist, NewIsUnknown, SweepIsWatched, Sweeping
  <2>5. SweepIsWatched' /\ SendIsPaid'
    BY <1>4, InvoiceAssumption DEF SweepLookup, Settled, Closed, Fault, TypeOK, SweepIsWatched, Sweeping, SendIsPaid
  <2>6. UnwatchIsSafe'
    BY <1>4, InvoiceAssumption DEF SweepLookup, Settled, Closed, Fault, TypeOK, UnwatchIsSafe, Closed
  <2> QED
    BY <2>1, <2>2, <2>3, <2>4, <2>5, <2>6 DEF IInv
<1> QED
  BY <1>1, <1>2, <1>3, <1>4

(* An event is queued for the invoice at hand, then it is not watched.     *)
LEMMA SendSteps == ASSUME IInv, SweepSend \/ SweepUnwatch PROVE IInv'
<1> USE DEF IInv, Queued, node, stream
<1>1. CASE SweepSend /\ ReceiverGone
  <2>1. TypeOK'
    BY <1>1, InvoiceAssumption DEF SweepSend, ReceiverGone, Rest, TypeOK, Statuses
  <2>2. CreditOnlyPaid'
    BY <1>1, InvoiceAssumption DEF SweepSend, ReceiverGone, Rest, TypeOK, CreditOnlyPaid, SweepIsWatched, SendIsPaid
  <2>3. NothingForgotten'
    BY <1>1, InvoiceAssumption DEF SweepSend, ReceiverGone, Rest, TypeOK, NothingForgotten, UnwatchIsSafe, SweepIsWatched, Closed
  <2>4. InvoicesExist' /\ NewIsUnknown'
    BY <1>1, InvoiceAssumption DEF SweepSend, ReceiverGone, Rest, TypeOK, InvoicesExist, NewIsUnknown, SweepIsWatched, Sweeping
  <2>5. SweepIsWatched' /\ SendIsPaid'
    BY <1>1, InvoiceAssumption DEF SweepSend, ReceiverGone, Rest, TypeOK, SweepIsWatched, Sweeping, SendIsPaid
  <2>6. UnwatchIsSafe'
    BY <1>1, InvoiceAssumption DEF SweepSend, ReceiverGone, Rest, TypeOK, UnwatchIsSafe, Closed
  <2> QED
    BY <2>1, <2>2, <2>3, <2>4, <2>5, <2>6 DEF IInv
<1>2. CASE SweepSend /\ ~ReceiverGone
  <2>1. /\ sweep.pc = "send" /\ sweep' = [sweep EXCEPT !.pc = "unwatch"]
        /\ HasRoom /\ chan' = Append(chan, sweep.cur)
        /\ UNCHANGED <<node, watching, stream, credited, lost, faults>>
    BY <1>2 DEF SweepSend
  <2>2. /\ sweep.cur \in Invoices /\ sweep.cur \in watching /\ sweep.cur \notin ToSet(chan)
        /\ chan \in Seq(Invoices)
    BY <2>1 DEF TypeOK, SweepIsWatched, CreditOnlyPaid
  <2>3. /\ chan' \in Seq(Invoices) /\ Len(chan') <= EventBuffer
        /\ ToSet(chan') = ToSet(chan) \cup {sweep.cur} /\ IsInjective(chan')
    <3>1. Len(chan) \in Nat
      BY <2>2
    <3> QED
      BY <2>1, <2>2, <3>1, QueueAppend, InvoiceAssumption DEF HasRoom, CreditOnlyPaid
  <2>4. sweep'.pc = "unwatch" /\ sweep'.cur = sweep.cur /\ sweep'.todo = sweep.todo
    BY <2>1 DEF TypeOK
  <2>5. TypeOK'
    BY <2>1, <2>2, <2>3, <2>4, InvoiceAssumption DEF Settled, TypeOK, Statuses
  <2>6. CreditOnlyPaid'
    BY <2>1, <2>2, <2>3, <2>4, InvoiceAssumption DEF Settled, TypeOK, CreditOnlyPaid, SweepIsWatched, SendIsPaid
  <2>7. NothingForgotten'
    BY <2>1, <2>2, <2>3, <2>4, InvoiceAssumption DEF Settled, TypeOK, NothingForgotten, UnwatchIsSafe, SweepIsWatched, Closed
  <2>8. InvoicesExist' /\ NewIsUnknown'
    BY <2>1, <2>2, <2>3, <2>4, InvoiceAssumption DEF Settled, TypeOK, InvoicesExist, NewIsUnknown, SweepIsWatched, Sweeping
  <2>9. SweepIsWatched' /\ SendIsPaid'
    BY <2>1, <2>2, <2>3, <2>4, InvoiceAssumption DEF Settled, TypeOK, SweepIsWatched, Sweeping, SendIsPaid
  <2>10. UnwatchIsSafe'
    BY <2>1, <2>2, <2>3, <2>4, InvoiceAssumption DEF Settled, TypeOK, UnwatchIsSafe, Closed
  <2> QED
    BY <2>5, <2>6, <2>7, <2>8, <2>9, <2>10 DEF IInv
<1>3. CASE SweepUnwatch
  <2>1. TypeOK'
    BY <1>3, InvoiceAssumption DEF SweepUnwatch, Unwatch, TypeOK, Statuses
  <2>2. CreditOnlyPaid'
    BY <1>3, InvoiceAssumption DEF SweepUnwatch, Unwatch, TypeOK, CreditOnlyPaid, SweepIsWatched, SendIsPaid
  <2>3. NothingForgotten'
    BY <1>3, InvoiceAssumption DEF SweepUnwatch, Unwatch, TypeOK, NothingForgotten, UnwatchIsSafe, SweepIsWatched, Closed
  <2>4. InvoicesExist' /\ NewIsUnknown'
    BY <1>3, InvoiceAssumption DEF SweepUnwatch, Unwatch, TypeOK, InvoicesExist, NewIsUnknown, SweepIsWatched, Sweeping
  <2>5. SweepIsWatched' /\ SendIsPaid'
    BY <1>3, InvoiceAssumption DEF SweepUnwatch, Unwatch, TypeOK, SweepIsWatched, Sweeping, SendIsPaid
  <2>6. UnwatchIsSafe'
    BY <1>3, InvoiceAssumption DEF SweepUnwatch, Unwatch, TypeOK, UnwatchIsSafe, Closed
  <2> QED
    BY <2>1, <2>2, <2>3, <2>4, <2>5, <2>6 DEF IInv
<1> QED
  BY <1>1, <1>2, <1>3

(* The stream takes an event from the channel and the mint is told, or it  *)
(* is lost; nothing else takes events out without their being lost.        *)
LEMMA StreamSteps ==
  ASSUME IInv, TakeStream \/ StreamNext \/ DropStream \/ Stop \/ CancelStream
  PROVE  IInv'
<1> USE DEF IInv, Queued, node, stream
<1>1. CASE TakeStream \/ Stop \/ CancelStream
  <2>1. TypeOK'
    BY <1>1, InvoiceAssumption DEF TakeStream, Stop, CancelStream, TypeOK, Statuses
  <2>2. CreditOnlyPaid'
    BY <1>1, InvoiceAssumption DEF TakeStream, Stop, CancelStream, TypeOK, CreditOnlyPaid, SweepIsWatched, SendIsPaid
  <2>3. NothingForgotten'
    BY <1>1, InvoiceAssumption DEF TakeStream, Stop, CancelStream, TypeOK, NothingForgotten, UnwatchIsSafe, SweepIsWatched, Closed
  <2>4. InvoicesExist' /\ NewIsUnknown'
    BY <1>1, InvoiceAssumption DEF TakeStream, Stop, CancelStream, TypeOK, InvoicesExist, NewIsUnknown, SweepIsWatched, Sweeping
  <2>5. SweepIsWatched' /\ SendIsPaid'
    BY <1>1, InvoiceAssumption DEF TakeStream, Stop, CancelStream, TypeOK, SweepIsWatched, Sweeping, SendIsPaid
  <2>6. UnwatchIsSafe'
    BY <1>1, InvoiceAssumption DEF TakeStream, Stop, CancelStream, TypeOK, UnwatchIsSafe, Closed
  <2> QED
    BY <2>1, <2>2, <2>3, <2>4, <2>5, <2>6 DEF IInv
<1>2. CASE StreamNext
  <2>1. /\ chan' \in Seq(Invoices) /\ Len(chan') <= EventBuffer
        /\ ToSet(chan) = {Head(chan)} \cup ToSet(chan') /\ IsInjective(chan')
        /\ Head(chan) \in Invoices
    <3>1. chan \in Seq(Invoices) /\ chan # <<>> /\ chan' = Tail(chan) /\ IsInjective(chan)
      BY <1>2 DEF StreamNext, TypeOK, CreditOnlyPaid
    <3>2. Len(chan) \in Nat /\ Len(chan') \in Nat /\ Len(chan') <= Len(chan) /\ Len(chan) <= EventBuffer
      BY <3>1, QueueTail DEF TypeOK
    <3> QED
      BY <3>1, <3>2, QueueTail, InvoiceAssumption
  <2>2. /\ \/ credited' = credited \cup {Head(chan)} /\ UNCHANGED <<lost, faults>>
           \/ lost' = TRUE /\ Fault /\ UNCHANGED credited
        /\ UNCHANGED <<node, watching, sweep, stream>>
    BY <1>2 DEF StreamNext
  <2>3. TypeOK'
    <3>1. lost' \in BOOLEAN /\ credited' \subseteq Invoices
      BY <2>1, <2>2 DEF TypeOK
    <3>2. faults' \in 0 .. MaxFaults
      BY <2>2, InvoiceAssumption DEF Fault, TypeOK
    <3>3. Len(chan') <= EventBuffer
      BY <2>1, InvoiceAssumption
    <3> QED
      BY <2>1, <2>2, <3>1, <3>2, <3>3 DEF TypeOK
  <2>4. CreditOnlyPaid'
    BY <2>1, <2>2, InvoiceAssumption DEF Fault, TypeOK, CreditOnlyPaid, SweepIsWatched, SendIsPaid
  <2>5. NothingForgotten'
    BY <2>1, <2>2, InvoiceAssumption DEF Fault, TypeOK, NothingForgotten, UnwatchIsSafe, SweepIsWatched, Closed
  <2>6. InvoicesExist' /\ NewIsUnknown'
    BY <2>1, <2>2, InvoiceAssumption DEF Fault, TypeOK, InvoicesExist, NewIsUnknown, SweepIsWatched, Sweeping
  <2>7. SweepIsWatched' /\ SendIsPaid'
    BY <2>1, <2>2, InvoiceAssumption DEF Fault, TypeOK, SweepIsWatched, Sweeping, SendIsPaid
  <2>8. UnwatchIsSafe'
    BY <2>1, <2>2, InvoiceAssumption DEF Fault, TypeOK, UnwatchIsSafe, Closed
  <2> QED
    BY <2>3, <2>4, <2>5, <2>6, <2>7, <2>8 DEF IInv
<1>3. CASE DropStream
  <2>1. chan' \in Seq(Invoices) /\ Len(chan') = 0 /\ ToSet(chan') = {} /\ IsInjective(chan')
    BY <1>3, QueueEmpty DEF DropStream
  <2>2. /\ receiver' = "dropped" /\ active' = FALSE /\ lost' = TRUE
        /\ UNCHANGED <<node, watching, sweep, cancelled, credited, faults>>
    BY <1>3 DEF DropStream
  <2>3. TypeOK'
    <3>1. lost' \in BOOLEAN /\ credited' \subseteq Invoices /\ faults' \in 0 .. MaxFaults
      BY <2>1, <2>2, InvoiceAssumption DEF Fault, TypeOK
    <3>2. Len(chan') <= EventBuffer
      BY <2>1, InvoiceAssumption
    <3> QED
      BY <2>1, <2>2, <3>1, <3>2 DEF TypeOK
  <2>4. CreditOnlyPaid'
    BY <2>1, <2>2, InvoiceAssumption DEF Fault, TypeOK, CreditOnlyPaid, SweepIsWatched, SendIsPaid
  <2>5. NothingForgotten'
    BY <2>1, <2>2, InvoiceAssumption DEF Fault, TypeOK, NothingForgotten, UnwatchIsSafe, SweepIsWatched, Closed
  <2>6. InvoicesExist' /\ NewIsUnknown'
    BY <2>1, <2>2, InvoiceAssumption DEF Fault, TypeOK, InvoicesExist, NewIsUnknown, SweepIsWatched, Sweeping
  <2>7. SweepIsWatched' /\ SendIsPaid'
    BY <2>1, <2>2, InvoiceAssumption DEF Fault, TypeOK, SweepIsWatched, Sweeping, SendIsPaid
  <2>8. UnwatchIsSafe'
    BY <2>1, <2>2, InvoiceAssumption DEF Fault, TypeOK, UnwatchIsSafe, Closed
  <2> QED
    BY <2>3, <2>4, <2>5, <2>6, <2>7, <2>8 DEF IInv
<1> QED
  BY <1>1, <1>2, <1>3

(* A new process watches and has queued nothing.                           *)
LEMMA CrashStep == ASSUME IInv, Crash PROVE IInv'
<1> USE DEF IInv, Queued, node, stream
<1>1. chan' \in Seq(Invoices) /\ Len(chan') = 0 /\ ToSet(chan') = {} /\ IsInjective(chan')
  BY QueueEmpty DEF Crash
<1>2. /\ Fault /\ creating' = {} /\ watching' = {} /\ sweep' = Rest /\ receiver' = "held"
      /\ active' = FALSE /\ cancelled' = FALSE /\ lost' = TRUE
      /\ UNCHANGED <<status, known, credited>>
  BY DEF Crash
<1>3. TypeOK'
  <2>1. /\ faults' \in 0 .. MaxFaults /\ Len(chan') <= EventBuffer
        /\ sweep' \in [pc : {"idle", "scan", "send", "unwatch", "stopped"},
                       todo : SUBSET Invoices, cur : Invoices \cup {NoInvoice}]
    BY <1>1, <1>2, InvoiceAssumption DEF Fault, Rest, TypeOK
  <2> QED
    BY <1>1, <1>2, <2>1 DEF TypeOK
<1>4. CreditOnlyPaid'
  BY <1>1, <1>2, InvoiceAssumption DEF Fault, Rest, TypeOK, CreditOnlyPaid, SweepIsWatched, SendIsPaid
<1>5. NothingForgotten'
  BY <1>1, <1>2, InvoiceAssumption DEF Fault, Rest, TypeOK, NothingForgotten, UnwatchIsSafe, SweepIsWatched, Closed
<1>6. InvoicesExist' /\ NewIsUnknown'
  BY <1>1, <1>2, InvoiceAssumption DEF Fault, Rest, TypeOK, InvoicesExist, NewIsUnknown, SweepIsWatched, Sweeping
<1>7. SweepIsWatched' /\ SendIsPaid'
  BY <1>1, <1>2, InvoiceAssumption DEF Fault, Rest, TypeOK, SweepIsWatched, Sweeping, SendIsPaid
<1>8. UnwatchIsSafe'
  BY <1>1, <1>2, InvoiceAssumption DEF Fault, Rest, TypeOK, UnwatchIsSafe, Closed
<1> QED
  BY <1>3, <1>4, <1>5, <1>6, <1>7, <1>8 DEF IInv

LEMMA InvoicesNext == IInv /\ [Next]_vars => IInv'
<1> SUFFICES ASSUME IInv, [Next]_vars PROVE IInv'
  OBVIOUS
<1>1. CASE UNCHANGED vars
  BY <1>1 DEF vars, node, stream, IInv, TypeOK, CreditOnlyPaid, NothingForgotten, InvoicesExist,
     NewIsUnknown, SweepIsWatched, Sweeping, SendIsPaid, UnwatchIsSafe, Queued, Closed
<1> QED
  BY <1>1, NodeSteps, LookupSteps, SendSteps, StreamSteps, CrashStep DEF Next, SweepStep

LEMMA InvoicesInv == Spec => []IInv
BY InvoicesInit, InvoicesNext, PTL DEF Spec

(* Types, and the channel never holds more events than it has room for.    *)
THEOREM InvoiceTypes == Spec => []TypeOK
BY InvoicesInv, PTL DEF IInv

(* The mint is told of an invoice, on either path, only when the node was  *)
(* paid; and no invoice has two events, or is watched with one queued.     *)
THEOREM OnlyPaidTheorem == Spec => []CreditOnlyPaid
BY InvoicesInv, PTL DEF IInv

(* Until a crash or a dropped stream loses events, each invoice that the   *)
(* mint was given and the node has not closed is watched, queued or        *)
(* credited: the sweep forgets none, whatever errors it meets.             *)
THEOREM ForgottenTheorem == Spec => []NothingForgotten
BY InvoicesInv, PTL DEF IInv
===============================================================================
