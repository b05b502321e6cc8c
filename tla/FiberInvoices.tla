---------------------------- MODULE FiberInvoices ----------------------------
(***************************************************************************)
(* Incoming payments of mint/cdk-fiber/src/lib.rs: an invoice is created   *)
(* and watched, a sweeper asks the node about every watched invoice and    *)
(* queues an event for each one that was paid, and the mint reads the      *)
(* events from a stream that is handed out once.  The mint can also ask    *)
(* about one invoice.  A step ends at an await of the code.                *)
(***************************************************************************)
EXTENDS Naturals, SequencesExt

CONSTANTS
  Invoices,      (* payment hashes                                         *)
  EventBuffer,   (* EVENT_BUFFER: events the channel holds, 8 in the code  *)
  MaxFaults,     (* bound on RPC errors, lost events and crashes           *)
  NoInvoice      (* the sweeper is not at an invoice                       *)

ASSUME InvoiceAssumption ==
  /\ EventBuffer \in Nat \ {0}
  /\ MaxFaults \in Nat
  /\ NoInvoice \notin Invoices

VARIABLES
  status,      (* the node's status of each invoice                        *)
  creating,    (* invoices the node made and the adapter does not watch yet *)
  known,       (* invoices the mint was given                              *)
  watching,    (* Inner.watching                                           *)
  sweep,       (* the sweeper: where it is, what is left, the one at hand  *)
  chan,        (* the events queued in Inner.events                        *)
  receiver,    (* Inner.receiver: held, taken by a stream, or dropped      *)
  active,      (* Inner.stream_active                                      *)
  cancelled,   (* Inner.cancel                                             *)
  credited,    (* invoices the mint was told are paid                      *)
  lost,        (* history: a crash or a dropped stream lost events         *)
  faults       (* faults that happened                                     *)

node == <<status, creating, known>>
stream == <<receiver, active, cancelled>>
vars == <<node, watching, sweep, chan, stream, credited, lost, faults>>

Statuses == {"absent", "Open", "Received", "Paid", "Cancelled", "Expired"}
Rest == [pc |-> "idle", todo |-> {}, cur |-> NoInvoice]

(* What start and new set up; a restart finds the node as it was.          *)
Init ==
  /\ status = [h \in Invoices |-> "absent"]
  /\ creating = {}
  /\ known = {}
  /\ watching = {}
  /\ sweep = Rest
  /\ chan = <<>>
  /\ receiver = "held"
  /\ active = FALSE
  /\ cancelled = FALSE
  /\ credited = {}
  /\ lost = FALSE
  /\ faults = 0

Fault == faults < MaxFaults /\ faults' = faults + 1
-----------------------------------------------------------------------------
(* create_incoming_payment_request: the RPC, then the watch and the reply. *)
NewInvoice(h) ==
  /\ status[h] = "absent"
  /\ status' = [status EXCEPT ![h] = "Open"]
  /\ creating' = creating \cup {h}
  /\ UNCHANGED <<known, watching, sweep, chan, stream, credited, lost, faults>>

WatchInvoice(h) ==
  /\ h \in creating
  /\ creating' = creating \ {h}
  /\ watching' = watching \cup {h}
  /\ known' = known \cup {h}
  /\ UNCHANGED <<status, sweep, chan, stream, credited, lost, faults>>

(* External: the node's invoice.  A TLC arrives, is settled or fails; an   *)
(* invoice that was not paid is cancelled or expires.                      *)
NodeStep(h) ==
  /\ \E next \in {<<"Open", "Received">>, <<"Received", "Paid">>,
                  <<"Open", "Cancelled">>, <<"Open", "Expired">>,
                  <<"Received", "Cancelled">>, <<"Received", "Expired">>} :
       /\ status[h] = next[1]
       /\ status' = [status EXCEPT ![h] = next[2]]
  /\ UNCHANGED <<creating, known, watching, sweep, chan, stream, credited, lost, faults>>

(* The ticker wins the select, which is not biased: it can win after the   *)
(* cancellation too.  The sweep copies the watch set under its lock.       *)
SweepStart ==
  /\ sweep.pc = "idle"
  /\ watching # {}
  /\ sweep' = [sweep EXCEPT !.pc = "scan", !.todo = watching]
  /\ UNCHANGED <<node, watching, chan, stream, credited, lost, faults>>

(* Seeded faults: a TLC that arrived counts as paid, and whatever is not   *)
(* open any more is not watched any more.                                  *)
SettledOrReceived(h) == status[h] \in {"Received", "Paid"}
NotOpen(h) == status[h] \in {"Received", "Cancelled", "Expired"}

(* The statuses that are money in hand, and those that never will be.      *)
Settled(h) == status[h] = "Paid"
Closed(h) == status[h] \in {"Cancelled", "Expired"}

(* One invoice of the sweep, up to its next await.                         *)
SweepLookup(h) ==
  /\ sweep.pc = "scan"
  /\ h \in sweep.todo
  /\ \/ /\ sweep' = [pc |-> IF Settled(h) THEN "send"
                            ELSE IF Closed(h) THEN "unwatch" ELSE "scan",
                     todo |-> sweep.todo \ {h},
                     cur |-> IF Settled(h) \/ Closed(h) THEN h ELSE NoInvoice]
        /\ UNCHANGED faults
     \/ /\ sweep' = [sweep EXCEPT !.todo = @ \ {h}]
        /\ Fault
  /\ UNCHANGED <<node, watching, chan, stream, credited, lost>>

(* Seeded faults: one slot is never used, the channel has no bound, and a  *)
(* closed channel goes unnoticed.                                          *)
RoomToSpare == Len(chan) + 1 < EventBuffer
AlwaysRoom == TRUE
NeverGone == FALSE

HasRoom == Len(chan) < EventBuffer
ReceiverGone == receiver = "dropped"

(* events.send waits for room, and fails when the receiver is gone: the    *)
(* sweep returns and the invoice stays watched.                            *)
SweepSend ==
  /\ sweep.pc = "send"
  /\ \/ /\ ReceiverGone
        /\ sweep' = Rest
        /\ UNCHANGED chan
     \/ /\ ~ReceiverGone
        /\ HasRoom
        /\ chan' = Append(chan, sweep.cur)
        /\ sweep' = [sweep EXCEPT !.pc = "unwatch"]
  /\ UNCHANGED <<node, watching, stream, credited, lost, faults>>

(* Seeded fault: the hash stays in the watch set.                          *)
KeepWatching(h) == UNCHANGED watching

Unwatch(h) == watching' = watching \ {h}

SweepUnwatch ==
  /\ sweep.pc = "unwatch"
  /\ Unwatch(sweep.cur)
  /\ sweep' = [sweep EXCEPT !.pc = "scan", !.cur = NoInvoice]
  /\ UNCHANGED <<node, chan, stream, credited, lost, faults>>

SweepEnd ==
  /\ sweep.pc = "scan"
  /\ sweep.todo = {}
  /\ sweep' = Rest
  /\ UNCHANGED <<node, watching, chan, stream, credited, lost, faults>>

SweeperStop ==
  /\ sweep.pc = "idle"
  /\ cancelled
  /\ sweep' = [sweep EXCEPT !.pc = "stopped"]
  /\ UNCHANGED <<node, watching, chan, stream, credited, lost, faults>>

(* wait_payment_event: the receiver is taken once, then it is an error.    *)
TakeStream ==
  /\ receiver = "held"
  /\ receiver' = "taken"
  /\ active' = TRUE
  /\ UNCHANGED <<node, watching, sweep, chan, cancelled, credited, lost, faults>>

(* The stream yields an event until the token is cancelled.  What it       *)
(* yields can still be lost on its way to the mint.                        *)
StreamNext ==
  /\ receiver = "taken"
  /\ ~cancelled
  /\ chan # <<>>
  /\ chan' = Tail(chan)
  /\ \/ credited' = credited \cup {Head(chan)} /\ UNCHANGED <<lost, faults>>
     \/ lost' = TRUE /\ Fault /\ UNCHANGED credited
  /\ UNCHANGED <<node, watching, sweep, stream>>

(* The stream is dropped, ended or not: ActiveGuard clears the flag, and   *)
(* the events still queued go with the receiver.                           *)
DropStream ==
  /\ receiver = "taken"
  /\ receiver' = "dropped"
  /\ active' = FALSE
  /\ chan' = <<>>
  /\ lost' = TRUE
  /\ UNCHANGED <<node, watching, sweep, cancelled, credited, faults>>

Stop ==
  /\ ~cancelled
  /\ cancelled' = TRUE
  /\ active' = FALSE
  /\ UNCHANGED <<node, watching, sweep, chan, receiver, credited, lost, faults>>

(* cancel_payment_event_stream cancels the token the sweeper stops on.     *)
CancelStream ==
  /\ ~cancelled
  /\ cancelled' = TRUE
  /\ UNCHANGED <<node, watching, sweep, chan, receiver, active, credited, lost, faults>>

(* check_incoming_payment_status: anything but Paid is an empty answer.    *)
CheckIncoming(h) ==
  /\ h \in known
  /\ Settled(h)
  /\ credited' = credited \cup {h}
  /\ UNCHANGED <<node, watching, sweep, chan, stream, lost, faults>>

(* The processor stops and is started again: Inner is new.                 *)
Crash ==
  /\ Fault
  /\ creating' = {}
  /\ watching' = {}
  /\ sweep' = Rest
  /\ chan' = <<>>
  /\ receiver' = "held"
  /\ active' = FALSE
  /\ cancelled' = FALSE
  /\ lost' = TRUE
  /\ UNCHANGED <<status, known, credited>>

SweepStep ==
  \/ SweepStart \/ SweepSend \/ SweepUnwatch \/ SweepEnd
  \/ \E h \in Invoices : SweepLookup(h)

Next ==
  \/ \E h \in Invoices :
       NewInvoice(h) \/ WatchInvoice(h) \/ NodeStep(h) \/ CheckIncoming(h)
  \/ SweepStep \/ SweeperStop
  \/ TakeStream \/ StreamNext \/ DropStream
  \/ Stop \/ CancelStream
  \/ Crash

Spec == Init /\ [][Next]_vars

(* The runtime schedules the sweeper; the mint takes the stream and reads  *)
(* it, and lets go of it once it has ended.                                *)
Fairness ==
  /\ WF_vars(SweepStep)
  /\ SF_vars(SweeperStop)
  /\ WF_vars(TakeStream)
  /\ WF_vars(StreamNext)
  /\ WF_vars(cancelled /\ DropStream)

FairSpec == Spec /\ Fairness
-----------------------------------------------------------------------------
TypeOK ==
  /\ status \in [Invoices -> Statuses]
  /\ creating \subseteq Invoices
  /\ known \subseteq Invoices
  /\ watching \subseteq Invoices
  /\ sweep \in [pc : {"idle", "scan", "send", "unwatch", "stopped"},
                todo : SUBSET Invoices,
                cur : Invoices \cup {NoInvoice}]
  /\ chan \in Seq(Invoices)
  /\ Len(chan) <= EventBuffer
  /\ receiver \in {"held", "taken", "dropped"}
  /\ active \in BOOLEAN
  /\ cancelled \in BOOLEAN
  /\ credited \subseteq Invoices
  /\ lost \in BOOLEAN
  /\ faults \in 0 .. MaxFaults

(* docs/spec.md, section 3: only Paid credits.  It holds of both paths,    *)
(* and of every event on its way to the mint; and one payment is one       *)
(* event, since what is queued is not swept again.                         *)
CreditOnlyPaid ==
  /\ \A h \in credited \cup ToSet(chan) : status[h] = "Paid"
  /\ IsInjective(chan)
  /\ \A h \in ToSet(chan) :
       h \notin watching \/ (sweep.pc = "unwatch" /\ sweep.cur = h)

(* An invoice the mint was given is watched, queued or credited until the  *)
(* node closes it: the sweep forgets none, whatever errors it meets.       *)
NothingForgotten ==
  ~lost =>
    \A h \in known :
      status[h] \notin {"Cancelled", "Expired"} =>
        h \in watching \cup ToSet(chan) \cup credited

(* A watched invoice that was paid reaches the mint, unless the stream or  *)
(* the process goes first.                                                 *)
PaidIsAnnounced ==
  \A h \in Invoices :
    h \in watching /\ status[h] = "Paid" ~> h \in credited \/ lost \/ cancelled

(* After a cancellation the sweeper stops, even when it waits for room in  *)
(* the channel, provided someone had taken the stream: then dropping it    *)
(* wakes the sweeper up.                                                   *)
SweeperStops ==
  cancelled /\ receiver # "held" ~> sweep.pc = "stopped" \/ ~cancelled

(* The sweeper does its work until it is cancelled, and then stops.        *)
SweeperIsLive == PaidIsAnnounced /\ SweeperStops
==============================================================================
