------------------------------ MODULE RelaySlots ------------------------------
(***************************************************************************)
(* The payment relay, relay/src/database.ts: slots that vendors register,  *)
(* attendees deliver one payload to, and vendors read, acknowledge or      *)
(* cancel, while the clock runs, the cleanup timer fires and the process   *)
(* dies and restarts.  Node runs one handler at a time and none of them    *)
(* awaits, so a handler is one step; cleanup is three statements without a *)
(* transaction, and the process may die between them.                      *)
(***************************************************************************)
EXTENDS Integers

CONSTANTS
  Orders,       (* orders, by the hash of their identifier                 *)
  Caps,         (* pairs of a write and a read capability                  *)
  Proofs,       (* what a payload pays with                                *)
  None,
  MaxTtl,       (* maxTtlSeconds                                           *)
  Retention,    (* retentionSeconds                                        *)
  Period,       (* 60: the seconds between two cleanups                    *)
  MaxTime       (* bound on the clock                                      *)

VARIABLES
  slots,     (* the rows of relay_orders, by order                         *)
  told,      (* history: the outcomes clients of a slot were told          *)
  up,        (* the process runs                                           *)
  cleaned,   (* when cleanup last ran                                      *)
  now

vars == <<slots, told, up, cleaned, now>>

(* A payload names its order; what else it must match (unit, mint, amount) *)
(* is whether it names the right one.                                      *)
Payloads == [order : Orders, proofs : Proofs]

ASSUME RelayAssumption ==
  /\ {MaxTtl, Retention, Period} \subseteq Nat \ {0}
  /\ MaxTime \in Nat
  /\ None \notin Payloads

States == {"open", "delivered", "acknowledged", "cancelled", "expired"}
Outcomes == {"stored", "cancelled"}

Registered == DOMAIN slots

Init ==
  /\ slots = [o \in {} |-> None]
  /\ told = [o \in Orders |-> {}]
  /\ up = TRUE
  /\ cleaned = 0
  /\ now = 0
-----------------------------------------------------------------------------
(* A row as its handler sees it.                                           *)
NewRow(c, expiry) ==
  [cap |-> c, state |-> "open", payload |-> None, digest |-> None,
   expiresAt |-> expiry, deliveredAt |-> None]

Lapsed(row, t) == row.state = "open" /\ row.expiresAt <= t

(* expireRow *)
ExpireRow(row, t) ==
  IF Lapsed(row, t) THEN [row EXCEPT !.state = "expired"] ELSE row

Put(o, row) == slots' = [slots EXCEPT ![o] = row]

Tell(o, outcome) == told' = [told EXCEPT ![o] = @ \cup {outcome}]

With(o, row) == [r \in Registered \cup {o} |-> IF r = o THEN row ELSE slots[r]]
-----------------------------------------------------------------------------
(* parseRegistration and register; a repeated or a conflicting one changes *)
(* nothing.  A slot whose row was deleted can be registered anew.          *)
Register(o, c, expiry) ==
  /\ up
  /\ now < expiry /\ expiry <= now + MaxTtl
  /\ o \notin Registered
  /\ \A r \in Registered : slots[r].cap # c
  /\ slots' = With(o, NewRow(c, expiry))
  /\ told' = [told EXCEPT ![o] = {}]
  /\ UNCHANGED <<up, cleaned, now>>

(* The update of deliver: it has no effect on a row that is not open.      *)
Delivered(row, p) ==
  IF row.state = "open" /\ row.digest = None
  THEN [row EXCEPT !.state = "delivered", !.payload = p, !.digest = p, !.deliveredAt = now]
  ELSE row

(* Seeded faults: a closed slot is not refused, and a later payload wins.  *)
DeliverToClosed(c, p) ==
  \E o \in Registered :
    /\ up
    /\ slots[o].cap = c
    /\ slots[o].digest \in {None, p}
    /\ p.order = o
    /\ Put(o, Delivered(slots[o], p))
    /\ Tell(o, "stored")
    /\ UNCHANGED <<up, cleaned, now>>

DeliverLatest(c, p) ==
  \E o \in Registered :
    /\ up
    /\ slots[o].cap = c
    /\ ExpireRow(slots[o], now).state \in {"open", "delivered"}
    /\ p.order = o
    /\ Put(o, Delivered([slots[o] EXCEPT !.state = "open", !.digest = None], p))
    /\ Tell(o, "stored")
    /\ UNCHANGED <<up, cleaned, now>>

(* deliver: an error is thrown inside the transaction and rolls back what  *)
(* expireRow wrote, so that only the payload that is stored changes a row; *)
(* the same payload again is answered like the first time.                 *)
Deliver(c, p) ==
  \E o \in Registered :
    /\ up
    /\ slots[o].cap = c
    /\ ExpireRow(slots[o], now).state \notin {"expired", "cancelled"}
    /\ \/ slots[o].digest = p /\ UNCHANGED slots
       \/ slots[o].digest = None /\ p.order = o /\ Put(o, Delivered(slots[o], p))
    /\ Tell(o, "stored")
    /\ UNCHANGED <<up, cleaned, now>>

(* read: all it changes is a row that lapsed.                              *)
Read(c) ==
  \E o \in Registered :
    /\ up
    /\ slots[o].cap = c
    /\ Put(o, ExpireRow(slots[o], now))
    /\ UNCHANGED <<told, up, cleaned, now>>

(* Seeded fault: the payload stays in an acknowledged row.                 *)
AcknowledgeOnly(c) ==
  \E o \in Registered :
    /\ up
    /\ slots[o].cap = c
    /\ slots[o].state = "delivered"
    /\ Put(o, [slots[o] EXCEPT !.state = "acknowledged"])
    /\ UNCHANGED <<told, up, cleaned, now>>

Acknowledge(c) ==
  \E o \in Registered :
    /\ up
    /\ slots[o].cap = c
    /\ Put(o, IF slots[o].state = "delivered"
              THEN [slots[o] EXCEPT !.state = "acknowledged", !.payload = None]
              ELSE ExpireRow(slots[o], now))
    /\ UNCHANGED <<told, up, cleaned, now>>

(* cancel: a slot that is not open, even one that only lapsed, is answered *)
(* delivery_won.                                                           *)
Cancel(c) ==
  \E o \in Registered :
    /\ up
    /\ slots[o].cap = c
    /\ LET row == ExpireRow(slots[o], now)
       IN  \/ /\ row.state = "open"
              /\ Put(o, [row EXCEPT !.state = "cancelled"])
              /\ Tell(o, "cancelled")
           \/ row.state = "cancelled" /\ Tell(o, "cancelled") /\ UNCHANGED slots
           \/ row.state \notin {"open", "cancelled"} /\ Put(o, row) /\ UNCHANGED told
    /\ UNCHANGED <<up, cleaned, now>>
-----------------------------------------------------------------------------
(* The statements of cleanup.                                              *)
ExpireOpen(rows) == [o \in DOMAIN rows |-> ExpireRow(rows[o], now)]

(* Seeded fault: what expires keeps its payload.                           *)
ExpireKeepsPayload(rows) ==
  [o \in DOMAIN rows |->
     IF rows[o].state = "delivered" /\ rows[o].deliveredAt <= now - Retention
     THEN [rows[o] EXCEPT !.state = "expired"]
     ELSE rows[o]]

ExpireDelivered(rows) ==
  [o \in DOMAIN rows |->
     IF rows[o].state = "delivered" /\ rows[o].deliveredAt <= now - Retention
     THEN [rows[o] EXCEPT !.state = "expired", !.payload = None]
     ELSE rows[o]]

DeleteClosed(rows) ==
  LET Closed(row) == /\ row.state \in {"expired", "acknowledged", "cancelled"}
                     /\ row.expiresAt <= now - Retention
  IN  [o \in {r \in DOMAIN rows : ~Closed(rows[r])} |-> rows[o]]

(* Seeded fault: the slot's own expiry ends a payload that was accepted.   *)
CleanedByExpiry ==
  DeleteClosed([o \in Registered |->
    IF slots[o].state \in {"open", "delivered"} /\ slots[o].expiresAt <= now
    THEN [slots[o] EXCEPT !.state = "expired", !.payload = None]
    ELSE slots[o]])

Cleaned == DeleteClosed(ExpireDelivered(ExpireOpen(slots)))

(* The timer fires.                                                        *)
Cleanup ==
  /\ up
  /\ slots' = Cleaned
  /\ cleaned' = now
  /\ UNCHANGED <<told, up, now>>

(* The process dies, anywhere or between two statements of cleanup.        *)
Crash ==
  /\ up
  /\ slots' \in {slots, ExpireOpen(slots), ExpireDelivered(ExpireOpen(slots))}
  /\ up' = FALSE
  /\ UNCHANGED <<told, cleaned, now>>

(* index.ts cleans up before it listens.                                   *)
Restart ==
  /\ ~up
  /\ up' = TRUE
  /\ slots' = Cleaned
  /\ cleaned' = now
  /\ UNCHANGED <<told, now>>

(* setInterval is on time: a process that runs is cleaned every Period.    *)
Tick ==
  /\ now < MaxTime
  /\ up => now < cleaned + Period
  /\ now' = now + 1
  /\ UNCHANGED <<slots, told, up, cleaned>>

Next ==
  \/ \E o \in Orders, c \in Caps, expiry \in 1 .. (MaxTime + MaxTtl) : Register(o, c, expiry)
  \/ \E c \in Caps, p \in Payloads : Deliver(c, p)
  \/ \E c \in Caps : Read(c) \/ Acknowledge(c) \/ Cancel(c)
  \/ Cleanup \/ Crash \/ Restart \/ Tick

Spec == Init /\ [][Next]_vars
-----------------------------------------------------------------------------
TypeOK ==
  /\ Registered \subseteq Orders
  /\ \A o \in Registered :
       slots[o] \in [cap : Caps, state : States, payload : Payloads \cup {None},
                     digest : Payloads \cup {None}, expiresAt : Nat,
                     deliveredAt : Nat \cup {None}]
  /\ \A o \in Registered : slots[o].payload # None <=> slots[o].state = "delivered"
  /\ told \in [Orders -> SUBSET Outcomes]
  /\ up \in BOOLEAN
  /\ {cleaned, now} \subseteq 0 .. MaxTime

(* relay/README.md: the relay durably stores the first matching payload.   *)
(* A payload an attendee was told is delivered is there for the vendor to  *)
(* read until the vendor acknowledges it or the retention is over, through *)
(* the slot's expiry, cancellations, cleanups and restarts.                *)
AcceptedIsReadable ==
  \A o \in Registered :
    "stored" \in told[o] /\ slots[o].state # "acknowledged" =>
      \/ slots[o].state = "delivered" /\ slots[o].payload # None
      \/ slots[o].state = "expired" /\ slots[o].deliveredAt <= now - Retention

(* relay/tests/server.test.ts: cancellation has one winner.  No vendor is  *)
(* told a slot is cancelled to which an attendee is told it delivered,     *)
(* also when either retries a call whose answer it lost.                   *)
OneWinner == \A o \in Registered : ~({"stored", "cancelled"} \subseteq told[o])

(* The first payload wins: no later one, and no later state of the slot,   *)
(* replaces what it was.                                                   *)
FirstPayloadWins ==
  [][\A o \in Registered :
       slots[o].digest # None /\ o \in Registered' =>
         /\ slots'[o].digest = slots[o].digest
         /\ slots'[o].payload \in {slots[o].payload, None}]_vars

(* Bearer value is not kept: a running relay holds a payload for less than *)
(* the retention and one turn of the timer.                                *)
PayloadIsDropped ==
  up => \A o \in Registered :
          slots[o].payload # None => now < slots[o].deliveredAt + Retention + Period

(* A payload is there for as long as the relay promised, and no longer:    *)
(* what one cleanup keeps for the vendor, a later one has to drop.         *)
PayloadIsKept == AcceptedIsReadable /\ PayloadIsDropped
==============================================================================
