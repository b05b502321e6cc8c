--------------------------- MODULE RelaySlotsProofs ---------------------------
(***************************************************************************)
(* Proofs about RelaySlots, for any orders, capabilities and payloads, any *)
(* deadlines and any number of crashes: an accepted payload stays readable *)
(* through its retention, delivery and cancellation exclude one another,   *)
(* the first payload wins, and none is kept beyond its time.               *)
(***************************************************************************)
EXTENDS RelaySlots, TLAPS

Rows == [cap : Caps, state : States, payload : Payloads \cup {None},
         digest : Payloads \cup {None}, expiresAt : Nat, deliveredAt : Nat \cup {None}]

(* A row in the light of the time and of what its clients were told.       *)
PayloadIsDigest(row) ==
  /\ row.payload # None <=> row.state = "delivered"
  /\ row.payload \in {None, row.digest}

DigestFollowsState(row) ==
  /\ row.state \in {"open", "cancelled"} => row.digest = None
  /\ row.state \in {"delivered", "acknowledged"} => row.digest # None

DeliveryIsDated(row, t) ==
  row.digest # None =>
    /\ row.deliveredAt \in Nat
    /\ row.deliveredAt <= t
    /\ row.state = "expired" => row.deliveredAt <= t - Retention

ToldIsTrue(row, said) ==
  /\ "stored" \in said => row.digest # None
  /\ "cancelled" \in said => row.state = "cancelled"

RowInv(row, said, t) ==
  /\ row \in Rows
  /\ PayloadIsDigest(row)
  /\ DigestFollowsState(row)
  /\ DeliveryIsDated(row, t)
  /\ ToldIsTrue(row, said)

RowsHold == \A o \in Registered : RowInv(slots[o], told[o], now)

(* What a running process has cleaned, and that the timer is not late.     *)
TimerHolds ==
  up => /\ cleaned <= now /\ now <= cleaned + Period
        /\ \A o \in Registered :
             slots[o].payload # None => cleaned - Retention < slots[o].deliveredAt

SInv == TypeOK /\ RowsHold /\ TimerHolds

LEMMA Numbers ==
  /\ MaxTtl \in Nat \ {0} /\ Retention \in Nat \ {0} /\ Period \in Nat \ {0}
  /\ MaxTime \in Nat /\ None \notin Payloads
BY RelayAssumption
-----------------------------------------------------------------------------
(* Rows: what each handler makes of one.                                   *)
LEMMA NewRowHolds ==
  ASSUME NEW c \in Caps, NEW expiry \in Nat, NEW t \in Nat
  PROVE  RowInv(NewRow(c, expiry), {}, t)
BY DEF NewRow, RowInv, Rows, States, PayloadIsDigest, DigestFollowsState, DeliveryIsDated, ToldIsTrue

LEMMA ExpireRowHolds ==
  ASSUME NEW row, NEW said, NEW t \in Nat, RowInv(row, said, t)
  PROVE  RowInv(ExpireRow(row, t), said, t)
<1>1. CASE ~Lapsed(row, t)
  BY <1>1 DEF ExpireRow
<1>2. CASE Lapsed(row, t)
  <2>1. ExpireRow(row, t) = [row EXCEPT !.state = "expired"] /\ row.state = "open" /\ row.digest = None
    BY <1>2 DEF ExpireRow, Lapsed, RowInv, DigestFollowsState
  <2> QED
    BY <2>1 DEF RowInv, Rows, States, PayloadIsDigest, DigestFollowsState, DeliveryIsDated, ToldIsTrue
<1> QED
  BY <1>1, <1>2

LEMMA DeliveredHolds ==
  ASSUME NEW row, NEW said, NEW p \in Payloads, RowInv(row, said, now), now \in Nat,
         row.digest = None, row.state = "open"
  PROVE  RowInv(Delivered(row, p), said \cup {"stored"}, now)
<1>1. Delivered(row, p) = [row EXCEPT !.state = "delivered", !.payload = p, !.digest = p, !.deliveredAt = now]
  BY DEF Delivered
<1>2. row \in Rows /\ p # None
  BY Numbers DEF RowInv
<1>3. /\ Delivered(row, p) \in Rows
      /\ Delivered(row, p).state = "delivered"
      /\ Delivered(row, p).payload = p /\ Delivered(row, p).digest = p
      /\ Delivered(row, p).deliveredAt = now
  BY <1>1, <1>2 DEF Rows, States
<1>4. "cancelled" \notin said
  BY DEF RowInv, ToldIsTrue
<1> QED
  BY <1>2, <1>3, <1>4 DEF RowInv, PayloadIsDigest, DigestFollowsState, DeliveryIsDated, ToldIsTrue

LEMMA AcknowledgedHolds ==
  ASSUME NEW row, NEW said, NEW t \in Nat, RowInv(row, said, t), row.state = "delivered"
  PROVE  RowInv([row EXCEPT !.state = "acknowledged", !.payload = None], said, t)
BY DEF RowInv, Rows, States, PayloadIsDigest, DigestFollowsState, DeliveryIsDated, ToldIsTrue

LEMMA CancelledHolds ==
  ASSUME NEW row, NEW said, NEW t \in Nat, RowInv(row, said, t), row.state = "open"
  PROVE  RowInv([row EXCEPT !.state = "cancelled"], said \cup {"cancelled"}, t)
BY DEF RowInv, Rows, States, PayloadIsDigest, DigestFollowsState, DeliveryIsDated, ToldIsTrue

LEMMA OutdatedHolds ==
  ASSUME NEW row, NEW said, NEW t \in Nat, RowInv(row, said, t), row.state = "delivered",
         row.deliveredAt <= t - Retention
  PROVE  RowInv([row EXCEPT !.state = "expired", !.payload = None], said, t)
BY DEF RowInv, Rows, States, PayloadIsDigest, DigestFollowsState, DeliveryIsDated, ToldIsTrue

LEMMA RowAges ==
  ASSUME NEW row, NEW said, NEW t \in Nat, RowInv(row, said, t)
  PROVE  RowInv(row, said, t + 1)
BY Numbers DEF RowInv, Rows, PayloadIsDigest, DigestFollowsState, DeliveryIsDated, ToldIsTrue

(* The rows and the history say all of TypeOK but the clocks.              *)
LEMMA TypesFromRows ==
  ASSUME Registered \subseteq Orders, RowsHold, told \in [Orders -> SUBSET Outcomes], up \in BOOLEAN,
         {cleaned, now} \subseteq 0 .. MaxTime
  PROVE  TypeOK
BY DEF TypeOK, RowsHold, RowInv, Rows, PayloadIsDigest

LEMMA Clocks == ASSUME SInv PROVE now \in Nat /\ cleaned \in Nat
BY Numbers DEF SInv, TypeOK
-----------------------------------------------------------------------------
(* Steps.  A handler changes one row, and what its clients were told.      *)
Fresh(row) == up /\ row.payload # None => cleaned - Retention < row.deliveredAt

OnlyRow(o, row, said) ==
  /\ Registered' = Registered
  /\ slots'[o] = row
  /\ told'[o] = said
  /\ \A r \in Registered \ {o} : slots'[r] = slots[r] /\ told'[r] = told[r]
  /\ told' \in [Orders -> SUBSET Outcomes]
  /\ UNCHANGED <<up, cleaned, now>>

LEMMA OneRow ==
  ASSUME SInv, NEW o \in Registered, NEW row, NEW said, OnlyRow(o, row, said),
         RowInv(row, said, now), Fresh(row)
  PROVE  SInv'
<1>1. RowsHold'
  BY DEF SInv, RowsHold, OnlyRow
<1>2. TimerHolds'
  BY DEF SInv, TimerHolds, Fresh, OnlyRow
<1>3. TypeOK'
  <2>1. \A r \in Registered' :
          /\ slots'[r] \in Rows
          /\ slots'[r].payload # None <=> slots'[r].state = "delivered"
    BY <1>1 DEF RowsHold, RowInv, PayloadIsDigest
  <2> QED
    BY <2>1 DEF TypeOK, SInv, Rows, OnlyRow
<1> QED
  BY <1>1, <1>2, <1>3 DEF SInv

LEMMA RegisteredRow ==
  ASSUME SInv, NEW o \in Registered
  PROVE  /\ RowInv(slots[o], told[o], now) /\ Fresh(slots[o])
         /\ o \in Orders /\ told[o] \in SUBSET Outcomes
BY DEF SInv, TypeOK, RowsHold, TimerHolds, Fresh

(* The ways a handler writes a row and tells an outcome.                   *)
LEMMA PutOnly ==
  ASSUME SInv, NEW o \in Registered, NEW row, Put(o, row), UNCHANGED <<told, up, cleaned, now>>
  PROVE  OnlyRow(o, row, told[o])
BY DEF Put, OnlyRow, Registered, SInv, TypeOK

LEMMA PutTell ==
  ASSUME SInv, NEW o \in Registered, NEW row, NEW outcome \in Outcomes,
         Put(o, row), Tell(o, outcome), UNCHANGED <<up, cleaned, now>>
  PROVE  OnlyRow(o, row, told[o] \cup {outcome})
<1>1. o \in Orders /\ told \in [Orders -> SUBSET Outcomes] /\ Registered \subseteq Orders
  BY DEF SInv, TypeOK
<1> QED
  BY <1>1 DEF Put, Tell, OnlyRow, Registered

LEMMA TellOnly ==
  ASSUME SInv, NEW o \in Registered, NEW outcome \in Outcomes,
         Tell(o, outcome), UNCHANGED <<slots, up, cleaned, now>>
  PROVE  OnlyRow(o, slots[o], told[o] \cup {outcome})
<1>1. o \in Orders /\ told \in [Orders -> SUBSET Outcomes] /\ Registered \subseteq Orders
  BY DEF SInv, TypeOK
<1> QED
  BY <1>1 DEF Tell, OnlyRow, Registered

LEMMA ToldAgain ==
  ASSUME NEW row, NEW said, NEW t, NEW outcome, RowInv(row, said, t),
         \/ outcome = "stored" /\ row.digest # None
         \/ outcome = "cancelled" /\ row.state = "cancelled"
  PROVE  RowInv(row, said \cup {outcome}, t)
BY DEF RowInv, ToldIsTrue

(* What expireRow leaves has the payload that was there.                   *)
LEMMA ExpireRowFresh ==
  ASSUME NEW row, NEW said, NEW t, RowInv(row, said, t), Fresh(row)
  PROVE  Fresh(ExpireRow(row, t))
<1>1. ExpireRow(row, t).payload = row.payload /\ ExpireRow(row, t).deliveredAt = row.deliveredAt
  BY DEF ExpireRow, RowInv, Rows
<1> QED
  BY <1>1 DEF Fresh

LEMMA StepRegister ==
  ASSUME SInv, NEW o \in Orders, NEW c \in Caps, NEW expiry \in 1 .. (MaxTime + MaxTtl), Register(o, c, expiry)
  PROVE  SInv'
<1>1. expiry \in Nat /\ now \in Nat
  BY Clocks, Numbers
<1>2. /\ Registered' = Registered \cup {o} /\ o \notin Registered
      /\ slots'[o] = NewRow(c, expiry)
      /\ \A r \in Registered : slots'[r] = slots[r]
  BY DEF Register, With, Registered
<1>3. /\ told' \in [Orders -> SUBSET Outcomes]
      /\ told'[o] = {}
      /\ \A r \in Registered : told'[r] = told[r]
  BY <1>2 DEF SInv, TypeOK, Register
<1>4. UNCHANGED <<up, cleaned, now>>
  BY DEF Register
<1>5. RowInv(NewRow(c, expiry), {}, now) /\ NewRow(c, expiry).payload = None
  BY <1>1, NewRowHolds DEF NewRow
<1>6. RowsHold'
  BY <1>2, <1>3, <1>4, <1>5 DEF SInv, RowsHold
<1>7. TimerHolds'
  BY <1>2, <1>4, <1>5 DEF SInv, TimerHolds
<1>8. TypeOK'
  <2>1. \A r \in Registered' :
          /\ slots'[r] \in Rows
          /\ slots'[r].payload # None <=> slots'[r].state = "delivered"
    BY <1>6 DEF RowsHold, RowInv, PayloadIsDigest
  <2> QED
    BY <1>2, <1>3, <1>4, <2>1 DEF TypeOK, SInv, Rows
<1> QED
  BY <1>6, <1>7, <1>8 DEF SInv

LEMMA StepDeliver ==
  ASSUME SInv, NEW c \in Caps, NEW p \in Payloads, Deliver(c, p)
  PROVE  SInv'
<1>1. PICK o \in Registered :
        /\ ExpireRow(slots[o], now).state \notin {"expired", "cancelled"}
        /\ \/ slots[o].digest = p /\ UNCHANGED slots
           \/ slots[o].digest = None /\ p.order = o /\ Put(o, Delivered(slots[o], p))
        /\ Tell(o, "stored")
        /\ UNCHANGED <<up, cleaned, now>>
  BY DEF Deliver
<1>2. RowInv(slots[o], told[o], now) /\ Fresh(slots[o]) /\ now \in Nat /\ "stored" \in Outcomes
  BY RegisteredRow, Clocks DEF Outcomes
<1>3. CASE slots[o].digest = p /\ UNCHANGED slots
  <2>1. OnlyRow(o, slots[o], told[o] \cup {"stored"})
    BY <1>1, <1>2, <1>3, TellOnly
  <2>2. RowInv(slots[o], told[o] \cup {"stored"}, now)
    BY <1>2, <1>3, Numbers, ToldAgain
  <2> QED
    BY <1>2, <2>1, <2>2, OneRow
<1>4. CASE slots[o].digest = None /\ Put(o, Delivered(slots[o], p))
  <2>1. slots[o].state = "open"
    <3>1. slots[o] \in Rows /\ (slots[o].state = "delivered" => slots[o].digest # None)
          /\ (slots[o].state = "acknowledged" => slots[o].digest # None)
      BY <1>2 DEF RowInv, DigestFollowsState
    <3>2. slots[o].state \in States /\ slots[o].state \notin {"expired", "cancelled"}
      BY <1>1, <3>1 DEF ExpireRow, Lapsed, Rows
    <3> QED
      BY <1>4, <3>1, <3>2 DEF States
  <2>2. OnlyRow(o, Delivered(slots[o], p), told[o] \cup {"stored"})
    BY <1>1, <1>2, <1>4, PutTell
  <2>3. RowInv(Delivered(slots[o], p), told[o] \cup {"stored"}, now)
    BY <1>2, <1>4, <2>1, DeliveredHolds
  <2>4. Fresh(Delivered(slots[o], p))
    <3>1. slots[o] \in Rows
      BY <1>2 DEF RowInv
    <3>2. Delivered(slots[o], p).deliveredAt = now
      BY <1>4, <2>1, <3>1 DEF Delivered, Rows
    <3>3. up => cleaned <= now
      BY DEF SInv, TimerHolds
    <3> QED
      BY <1>2, <3>2, <3>3, Clocks, Numbers DEF Fresh
  <2> QED
    BY <2>2, <2>3, <2>4, OneRow
<1> QED
  BY <1>1, <1>3, <1>4

LEMMA StepRead ==
  ASSUME SInv, NEW c \in Caps, Read(c)
  PROVE  SInv'
<1>1. PICK o \in Registered : Put(o, ExpireRow(slots[o], now)) /\ UNCHANGED <<told, up, cleaned, now>>
  BY DEF Read
<1>2. RowInv(slots[o], told[o], now) /\ Fresh(slots[o]) /\ now \in Nat
  BY RegisteredRow, Clocks
<1> QED
  BY <1>1, <1>2, PutOnly, ExpireRowHolds, ExpireRowFresh, OneRow

LEMMA StepAcknowledge ==
  ASSUME SInv, NEW c \in Caps, Acknowledge(c)
  PROVE  SInv'
<1>1. PICK o \in Registered :
        /\ Put(o, IF slots[o].state = "delivered"
                  THEN [slots[o] EXCEPT !.state = "acknowledged", !.payload = None]
                  ELSE ExpireRow(slots[o], now))
        /\ UNCHANGED <<told, up, cleaned, now>>
  BY DEF Acknowledge
<1>2. RowInv(slots[o], told[o], now) /\ Fresh(slots[o]) /\ now \in Nat
  BY RegisteredRow, Clocks
<1>3. CASE slots[o].state = "delivered"
  <2> DEFINE row == [slots[o] EXCEPT !.state = "acknowledged", !.payload = None]
  <2>1. RowInv(row, told[o], now)
    BY <1>2, <1>3, AcknowledgedHolds
  <2>2. Fresh(row)
    BY <1>2 DEF Fresh, RowInv, Rows
  <2>3. OnlyRow(o, row, told[o])
    BY <1>1, <1>3, PutOnly
  <2> QED
    BY <2>1, <2>2, <2>3, OneRow
<1>4. CASE slots[o].state # "delivered"
  BY <1>1, <1>2, <1>4, PutOnly, ExpireRowHolds, ExpireRowFresh, OneRow
<1> QED
  BY <1>3, <1>4

LEMMA StepCancel ==
  ASSUME SInv, NEW c \in Caps, Cancel(c)
  PROVE  SInv'
<1>1. PICK o \in Registered :
        /\ \/ /\ ExpireRow(slots[o], now).state = "open"
              /\ Put(o, [ExpireRow(slots[o], now) EXCEPT !.state = "cancelled"])
              /\ Tell(o, "cancelled")
           \/ /\ ExpireRow(slots[o], now).state = "cancelled"
              /\ Tell(o, "cancelled")
              /\ UNCHANGED slots
           \/ Put(o, ExpireRow(slots[o], now)) /\ UNCHANGED told
        /\ UNCHANGED <<up, cleaned, now>>
  BY DEF Cancel
<1> DEFINE row == ExpireRow(slots[o], now)
           shut == [row EXCEPT !.state = "cancelled"]
<1>2. /\ RowInv(slots[o], told[o], now) /\ Fresh(slots[o]) /\ now \in Nat
      /\ RowInv(row, told[o], now) /\ Fresh(row)
      /\ "cancelled" \in Outcomes
  BY RegisteredRow, Clocks, ExpireRowHolds, ExpireRowFresh DEF Outcomes
<1>3. CASE row.state = "open" /\ Put(o, shut) /\ Tell(o, "cancelled")
  <2>1. RowInv(shut, told[o] \cup {"cancelled"}, now)
    BY <1>2, <1>3, CancelledHolds
  <2>2. Fresh(shut)
    <3>1. shut.payload = row.payload /\ shut.deliveredAt = row.deliveredAt
      BY <1>2 DEF RowInv, Rows
    <3> QED
      BY <1>2, <3>1 DEF Fresh
  <2>3. OnlyRow(o, shut, told[o] \cup {"cancelled"})
    BY <1>1, <1>2, <1>3, PutTell
  <2> QED
    BY <2>1, <2>2, <2>3, OneRow
<1>4. CASE row.state = "cancelled" /\ Tell(o, "cancelled") /\ UNCHANGED slots
  <2>1. slots[o].state = "cancelled"
    BY <1>2, <1>4 DEF ExpireRow, Lapsed, RowInv, Rows
  <2>2. RowInv(slots[o], told[o] \cup {"cancelled"}, now)
    BY <1>2, <2>1, ToldAgain
  <2>3. OnlyRow(o, slots[o], told[o] \cup {"cancelled"})
    BY <1>1, <1>2, <1>4, TellOnly
  <2> QED
    BY <1>2, <2>2, <2>3, OneRow
<1>5. CASE Put(o, row) /\ UNCHANGED told
  BY <1>1, <1>2, <1>5, PutOnly, OneRow
<1> QED
  BY <1>1, <1>3, <1>4, <1>5
-----------------------------------------------------------------------------
(* The statements of cleanup keep every row that stays sound.              *)
Sound(rows) ==
  /\ DOMAIN rows \subseteq Registered
  /\ \A o \in DOMAIN rows : RowInv(rows[o], told[o], now)

(* No payload in a row outlived the retention.                             *)
NoneOverdue(rows) ==
  \A o \in DOMAIN rows : rows[o].payload # None => now - Retention < rows[o].deliveredAt

(* What a statement may make of the payloads it finds in slots.            *)
KeepsFirst(rows) ==
  \A o \in DOMAIN rows \cap Registered :
    /\ rows[o].digest = slots[o].digest
    /\ rows[o].payload \in {slots[o].payload, None}

LEMMA SlotsAreSound ==
  ASSUME SInv PROVE Sound(slots) /\ KeepsFirst(slots)
BY DEF SInv, Sound, RowsHold, Registered, KeepsFirst

LEMMA ExpireOpenIsSound ==
  ASSUME NEW rows, Sound(rows), KeepsFirst(rows), now \in Nat
  PROVE  Sound(ExpireOpen(rows)) /\ KeepsFirst(ExpireOpen(rows))
<1>1. DOMAIN ExpireOpen(rows) = DOMAIN rows
  BY DEF ExpireOpen
<1>2. \A o \in DOMAIN rows : ExpireOpen(rows)[o] = ExpireRow(rows[o], now)
  BY DEF ExpireOpen
<1>3. Sound(ExpireOpen(rows))
  BY <1>1, <1>2, ExpireRowHolds DEF Sound
<1>4. \A o \in DOMAIN rows :
        ExpireOpen(rows)[o].digest = rows[o].digest /\ ExpireOpen(rows)[o].payload = rows[o].payload
  BY <1>2 DEF Sound, RowInv, Rows, ExpireRow
<1> QED
  BY <1>1, <1>3, <1>4 DEF KeepsFirst

LEMMA ExpireDeliveredIsSound ==
  ASSUME NEW rows, Sound(rows), KeepsFirst(rows), now \in Nat
  PROVE  /\ Sound(ExpireDelivered(rows)) /\ KeepsFirst(ExpireDelivered(rows))
         /\ NoneOverdue(ExpireDelivered(rows))
<1> DEFINE over(o) == rows[o].state = "delivered" /\ rows[o].deliveredAt <= now - Retention
           gone(o) == [rows[o] EXCEPT !.state = "expired", !.payload = None]
<1>1. DOMAIN ExpireDelivered(rows) = DOMAIN rows
  BY DEF ExpireDelivered
<1>2. \A o \in DOMAIN rows : ExpireDelivered(rows)[o] = IF over(o) THEN gone(o) ELSE rows[o]
  BY DEF ExpireDelivered
<1>3. \A o \in DOMAIN rows : RowInv(rows[o], told[o], now) /\ rows[o] \in Rows
  BY DEF Sound, RowInv
<1>4. \A o \in DOMAIN rows : over(o) => RowInv(gone(o), told[o], now)
  BY <1>3, OutdatedHolds
<1>5. Sound(ExpireDelivered(rows))
  BY <1>1, <1>2, <1>3, <1>4 DEF Sound
<1>6. \A o \in DOMAIN rows : gone(o).digest = rows[o].digest /\ gone(o).payload = None
  BY <1>3 DEF Rows
<1>7. KeepsFirst(ExpireDelivered(rows))
  BY <1>1, <1>2, <1>6 DEF KeepsFirst
<1>8. \A o \in DOMAIN rows :
        ~over(o) /\ rows[o].payload # None => now - Retention < rows[o].deliveredAt
  <2> TAKE o \in DOMAIN rows
  <2> HAVE ~over(o) /\ rows[o].payload # None
  <2>1. rows[o].state = "delivered" /\ rows[o].deliveredAt \in Nat
    BY <1>3 DEF RowInv, PayloadIsDigest, DigestFollowsState, DeliveryIsDated
  <2> QED
    BY <2>1, Numbers
<1>9. NoneOverdue(ExpireDelivered(rows))
  BY <1>1, <1>2, <1>6, <1>8 DEF NoneOverdue
<1> QED
  BY <1>5, <1>7, <1>9

LEMMA DeleteClosedIsSound ==
  ASSUME NEW rows, Sound(rows), KeepsFirst(rows), NoneOverdue(rows)
  PROVE  Sound(DeleteClosed(rows)) /\ KeepsFirst(DeleteClosed(rows)) /\ NoneOverdue(DeleteClosed(rows))
<1>1. /\ DOMAIN DeleteClosed(rows) \subseteq DOMAIN rows
      /\ \A o \in DOMAIN DeleteClosed(rows) : DeleteClosed(rows)[o] = rows[o]
  BY DEF DeleteClosed
<1> QED
  BY <1>1 DEF Sound, KeepsFirst, NoneOverdue

LEMMA CleanedIsSound ==
  ASSUME SInv
  PROVE  Sound(Cleaned) /\ KeepsFirst(Cleaned) /\ NoneOverdue(Cleaned)
<1>1. Sound(slots) /\ KeepsFirst(slots) /\ now \in Nat
  BY SlotsAreSound, Clocks
<1>2. Sound(ExpireOpen(slots)) /\ KeepsFirst(ExpireOpen(slots))
  BY <1>1, ExpireOpenIsSound
<1>3. /\ Sound(ExpireDelivered(ExpireOpen(slots))) /\ KeepsFirst(ExpireDelivered(ExpireOpen(slots)))
      /\ NoneOverdue(ExpireDelivered(ExpireOpen(slots)))
  BY <1>1, <1>2, ExpireDeliveredIsSound
<1> QED
  BY <1>3, DeleteClosedIsSound DEF Cleaned

(* A crash leaves the rows of a prefix of cleanup.                         *)
LEMMA CrashIsSound ==
  ASSUME SInv, Crash
  PROVE  Sound(slots') /\ KeepsFirst(slots')
<1>1. Sound(slots) /\ KeepsFirst(slots) /\ now \in Nat
  BY SlotsAreSound, Clocks
<1>2. Sound(ExpireOpen(slots)) /\ KeepsFirst(ExpireOpen(slots))
  BY <1>1, ExpireOpenIsSound
<1>3. Sound(ExpireDelivered(ExpireOpen(slots))) /\ KeepsFirst(ExpireDelivered(ExpireOpen(slots)))
  BY <1>1, <1>2, ExpireDeliveredIsSound
<1> QED
  BY <1>1, <1>2, <1>3 DEF Crash

(* Rows that are sound make the next state's types and rows.               *)
LEMMA SoundNext ==
  ASSUME SInv, Sound(slots'), UNCHANGED <<told, now>>, up' \in BOOLEAN, cleaned' \in 0 .. MaxTime
  PROVE  TypeOK' /\ RowsHold'
<1>1. RowsHold' /\ Registered' \subseteq Registered
  BY DEF Sound, RowsHold, Registered
<1>2. \A r \in Registered' :
        /\ slots'[r] \in Rows
        /\ slots'[r].payload # None <=> slots'[r].state = "delivered"
  BY <1>1 DEF RowsHold, RowInv, PayloadIsDigest
<1> QED
  BY <1>1, <1>2 DEF TypeOK, SInv, Rows

LEMMA StepCleaned ==
  ASSUME SInv, slots' = Cleaned, cleaned' = now, up' \in BOOLEAN, UNCHANGED <<told, now>>
  PROVE  SInv'
<1>1. Sound(slots') /\ NoneOverdue(slots')
  BY CleanedIsSound
<1>2. now \in 0 .. MaxTime /\ now \in Nat
  BY Clocks DEF SInv, TypeOK
<1>3. TypeOK' /\ RowsHold'
  BY <1>1, <1>2, SoundNext
<1>4. TimerHolds'
  BY <1>1, <1>2, Numbers DEF NoneOverdue, TimerHolds, Registered
<1> QED
  BY <1>3, <1>4 DEF SInv

LEMMA StepCrash ==
  ASSUME SInv, Crash
  PROVE  SInv'
<1>1. Sound(slots')
  BY CrashIsSound
<1>2. up' = FALSE /\ UNCHANGED <<told, cleaned, now>> /\ cleaned \in 0 .. MaxTime
  BY DEF Crash, SInv, TypeOK
<1>3. TypeOK' /\ RowsHold'
  BY <1>1, <1>2, SoundNext
<1>4. TimerHolds'
  BY <1>2 DEF TimerHolds
<1> QED
  BY <1>3, <1>4 DEF SInv

LEMMA StepTick ==
  ASSUME SInv, Tick
  PROVE  SInv'
<1>1. now \in Nat /\ cleaned \in Nat /\ now' = now + 1 /\ now < MaxTime /\ UNCHANGED <<slots, told, up, cleaned>>
  BY Clocks DEF Tick
<1>2. RowsHold'
  BY <1>1, RowAges DEF SInv, RowsHold, Registered
<1>3. TimerHolds'
  BY <1>1, Numbers DEF SInv, TimerHolds, Tick, Registered
<1>4. {cleaned, now}' \subseteq 0 .. MaxTime
  BY <1>1, Numbers DEF SInv, TypeOK
<1>5. TypeOK'
  <2>1. \A r \in Registered' :
          /\ slots'[r] \in Rows
          /\ slots'[r].payload # None <=> slots'[r].state = "delivered"
    BY <1>2 DEF RowsHold, RowInv, PayloadIsDigest
  <2> QED
    BY <1>1, <1>4, <2>1 DEF TypeOK, SInv, Rows, Registered
<1> QED
  BY <1>2, <1>3, <1>5 DEF SInv
-----------------------------------------------------------------------------
LEMMA SInit == Init => SInv
<1> SUFFICES ASSUME Init PROVE SInv
  OBVIOUS
<1>1. Registered = {} /\ told \in [Orders -> SUBSET Outcomes] /\ up = TRUE /\ cleaned = 0 /\ now = 0
  BY DEF Init, Registered
<1>2. RowsHold
  BY <1>1 DEF RowsHold
<1>3. TimerHolds
  BY <1>1, Numbers DEF TimerHolds
<1>4. TypeOK
  BY <1>1, Numbers DEF TypeOK
<1> QED
  BY <1>2, <1>3, <1>4 DEF SInv

LEMMA SNext == SInv /\ [Next]_vars => SInv'
<1> SUFFICES ASSUME SInv, [Next]_vars PROVE SInv'
  OBVIOUS
<1>1. ASSUME NEW o \in Orders, NEW c \in Caps, NEW expiry \in 1 .. (MaxTime + MaxTtl), Register(o, c, expiry)
      PROVE  SInv'
  BY <1>1, StepRegister
<1>2. ASSUME NEW c \in Caps, NEW p \in Payloads, Deliver(c, p) PROVE SInv'
  BY <1>2, StepDeliver
<1>3. ASSUME NEW c \in Caps, Read(c) \/ Acknowledge(c) \/ Cancel(c) PROVE SInv'
  BY <1>3, StepRead, StepAcknowledge, StepCancel
<1>4. CASE Cleanup
  <2>1. slots' = Cleaned /\ cleaned' = now /\ up' \in BOOLEAN /\ UNCHANGED <<told, now>>
    BY <1>4 DEF Cleanup, SInv, TypeOK
  <2> QED
    BY <2>1, StepCleaned
<1>5. CASE Restart
  <2>1. slots' = Cleaned /\ cleaned' = now /\ up' \in BOOLEAN /\ UNCHANGED <<told, now>>
    BY <1>5 DEF Restart
  <2> QED
    BY <2>1, StepCleaned
<1>6. CASE Crash
  BY <1>6, StepCrash
<1>7. CASE Tick
  BY <1>7, StepTick
<1>8. CASE UNCHANGED vars
  <2>1. UNCHANGED <<slots, told, up, cleaned, now>>
    BY <1>8 DEF vars
  <2>2. TypeOK' /\ RowsHold' /\ TimerHolds'
    BY <2>1 DEF SInv, TypeOK, RowsHold, TimerHolds, Registered
  <2> QED
    BY <2>2 DEF SInv
<1> QED
  BY <1>1, <1>2, <1>3, <1>4, <1>5, <1>6, <1>7, <1>8 DEF Next

LEMMA Inductive == Spec => []SInv
BY SInit, SNext, PTL DEF Spec

(* The rows of the relay and what clients were told are well formed: a row *)
(* has a payload exactly while it is delivered.                            *)
THEOREM SlotTypes == Spec => []TypeOK
<1>1. SInv => TypeOK
  BY DEF SInv
<1> QED
  BY <1>1, Inductive, PTL

(* A payload the relay told an attendee is delivered can be read until it  *)
(* is acknowledged or its retention is over, whatever else happens.        *)
THEOREM AcceptedTheorem == Spec => []AcceptedIsReadable
<1>1. SInv => AcceptedIsReadable
  <2> SUFFICES ASSUME SInv, NEW o \in Registered, "stored" \in told[o], slots[o].state # "acknowledged"
               PROVE  \/ slots[o].state = "delivered" /\ slots[o].payload # None
                      \/ slots[o].state = "expired" /\ slots[o].deliveredAt <= now - Retention
    BY DEF AcceptedIsReadable
  <2>1. RowInv(slots[o], told[o], now)
    BY DEF SInv, RowsHold
  <2>2. slots[o].digest # None
    BY <2>1 DEF RowInv, ToldIsTrue
  <2>3. slots[o].state \in {"delivered", "expired"}
    BY <2>1, <2>2 DEF RowInv, Rows, States, DigestFollowsState
  <2> QED
    BY <2>1, <2>2, <2>3 DEF RowInv, PayloadIsDigest, DeliveryIsDated
<1> QED
  BY <1>1, Inductive, PTL

(* No slot is both cancelled for its vendor and delivered for an attendee. *)
THEOREM OneWinnerTheorem == Spec => []OneWinner
<1>1. SInv => OneWinner
  BY DEF SInv, RowsHold, RowInv, ToldIsTrue, DigestFollowsState, OneWinner
<1> QED
  BY <1>1, Inductive, PTL

(* A relay that runs holds no payload for longer than the retention and    *)
(* one turn of the cleanup timer, also after it was down.                  *)
THEOREM DroppedTheorem == Spec => []PayloadIsDropped
<1>1. SInv => PayloadIsDropped
  <2> SUFFICES ASSUME SInv, up, NEW o \in Registered, slots[o].payload # None
               PROVE  now < slots[o].deliveredAt + Retention + Period
    BY DEF PayloadIsDropped
  <2>1. RowInv(slots[o], told[o], now)
    BY DEF SInv, RowsHold
  <2>2. slots[o].deliveredAt \in Nat
    BY <2>1 DEF RowInv, PayloadIsDigest, DigestFollowsState, DeliveryIsDated
  <2>3. now <= cleaned + Period /\ cleaned - Retention < slots[o].deliveredAt
    BY DEF SInv, TimerHolds
  <2> QED
    BY <2>2, <2>3, Clocks, Numbers
<1> QED
  BY <1>1, Inductive, PTL

(* Both: a payload is kept as long as was promised, and no longer.         *)
THEOREM PayloadTheorem == Spec => []PayloadIsKept
<1>1. AcceptedIsReadable /\ PayloadIsDropped => PayloadIsKept
  BY DEF PayloadIsKept
<1> QED
  BY <1>1, AcceptedTheorem, DroppedTheorem, PTL
-----------------------------------------------------------------------------
FirstStays ==
  \A o \in Registered :
    slots[o].digest # None /\ o \in Registered' =>
      /\ slots'[o].digest = slots[o].digest
      /\ slots'[o].payload \in {slots[o].payload, None}

LEMMA OneRowKeepsFirst ==
  ASSUME NEW o \in Registered, NEW row, NEW said, OnlyRow(o, row, said),
         slots[o].digest # None =>
           row.digest = slots[o].digest /\ row.payload \in {slots[o].payload, None}
  PROVE  FirstStays
BY DEF FirstStays, OnlyRow

LEMMA ExpireRowKeeps ==
  ASSUME NEW row \in Rows, NEW t
  PROVE  ExpireRow(row, t).digest = row.digest /\ ExpireRow(row, t).payload = row.payload
BY DEF ExpireRow, Rows

LEMMA FirstNext == SInv /\ [Next]_vars => FirstStays
<1> SUFFICES ASSUME SInv, [Next]_vars PROVE FirstStays
  OBVIOUS
<1>1. ASSUME NEW o \in Orders, NEW c \in Caps, NEW expiry \in 1 .. (MaxTime + MaxTtl), Register(o, c, expiry)
      PROVE  FirstStays
  <2>1. \A r \in Registered : slots'[r] = slots[r]
    BY <1>1 DEF Register, With, Registered
  <2> QED
    BY <2>1 DEF FirstStays
<1>2. ASSUME NEW c \in Caps, NEW p \in Payloads, Deliver(c, p) PROVE FirstStays
  <2>1. CASE UNCHANGED slots
    BY <2>1 DEF FirstStays
  <2>2. ASSUME NEW o \in Registered, slots[o].digest = None, Put(o, Delivered(slots[o], p))
        PROVE  FirstStays
    <3>1. \A r \in Registered \ {o} : slots'[r] = slots[r]
      BY <2>2 DEF Put, Registered
    <3> QED
      BY <2>2, <3>1 DEF FirstStays
  <2> QED
    BY <1>2, <2>1, <2>2 DEF Deliver
<1>3. ASSUME NEW c \in Caps, Read(c) \/ Acknowledge(c) \/ Cancel(c) PROVE FirstStays
  <2>1. \/ UNCHANGED slots
        \/ \E o \in Registered :
             \/ Put(o, ExpireRow(slots[o], now))
             \/ Put(o, [slots[o] EXCEPT !.state = "acknowledged", !.payload = None])
             \/ Put(o, [ExpireRow(slots[o], now) EXCEPT !.state = "cancelled"])
    BY <1>3 DEF Read, Acknowledge, Cancel
  <2>2. CASE UNCHANGED slots
    BY <2>2 DEF FirstStays
  <2>3. ASSUME NEW o \in Registered,
               \/ Put(o, ExpireRow(slots[o], now))
               \/ Put(o, [slots[o] EXCEPT !.state = "acknowledged", !.payload = None])
               \/ Put(o, [ExpireRow(slots[o], now) EXCEPT !.state = "cancelled"])
        PROVE  FirstStays
    <3>1. slots[o] \in Rows /\ ExpireRow(slots[o], now) \in Rows
      BY RegisteredRow, ExpireRowHolds, Clocks DEF RowInv
    <3>2. \A r \in Registered \ {o} : slots'[r] = slots[r]
      BY <2>3 DEF Put, Registered
    <3>3. slots'[o].digest = slots[o].digest /\ slots'[o].payload \in {slots[o].payload, None}
      <4>1. ASSUME NEW row, Put(o, row) PROVE slots'[o] = row
        BY <4>1 DEF Put, Registered
      <4>2. ASSUME NEW row \in Rows
            PROVE  /\ [row EXCEPT !.state = "cancelled"].digest = row.digest
                   /\ [row EXCEPT !.state = "cancelled"].payload = row.payload
                   /\ [row EXCEPT !.state = "acknowledged", !.payload = None].digest = row.digest
                   /\ [row EXCEPT !.state = "acknowledged", !.payload = None].payload = None
        BY DEF Rows
      <4>3. ExpireRow(slots[o], now).digest = slots[o].digest
            /\ ExpireRow(slots[o], now).payload = slots[o].payload
        BY <3>1, ExpireRowKeeps
      <4>4. CASE Put(o, ExpireRow(slots[o], now))
        BY <3>1, <4>1, <4>3, <4>4
      <4>5. CASE Put(o, [slots[o] EXCEPT !.state = "acknowledged", !.payload = None])
        BY <3>1, <4>1, <4>2, <4>5
      <4>6. CASE Put(o, [ExpireRow(slots[o], now) EXCEPT !.state = "cancelled"])
        <5>1. slots'[o] = [ExpireRow(slots[o], now) EXCEPT !.state = "cancelled"]
          BY <4>1, <4>6
        <5>2. /\ slots'[o].digest = ExpireRow(slots[o], now).digest
              /\ slots'[o].payload = ExpireRow(slots[o], now).payload
          BY <3>1, <4>2, <5>1
        <5> QED
          BY <4>3, <5>2
      <4> QED
        BY <2>3, <4>4, <4>5, <4>6
    <3> QED
      BY <3>2, <3>3 DEF FirstStays
  <2> QED
    BY <2>1, <2>2, <2>3
<1>4. CASE Cleanup \/ Restart
  BY <1>4, CleanedIsSound DEF Cleanup, Restart, KeepsFirst, FirstStays, Registered
<1>5. CASE Crash
  BY <1>5, CrashIsSound DEF KeepsFirst, FirstStays, Registered
<1>6. CASE Tick \/ UNCHANGED vars
  BY <1>6 DEF Tick, vars, FirstStays
<1> QED
  BY <1>1, <1>2, <1>3, <1>4, <1>5, <1>6 DEF Next

(* No later payload and no later state replaces the first payload a slot   *)
(* accepted, for as long as the slot exists.                               *)
THEOREM FirstPayloadTheorem == Spec => FirstPayloadWins
<1>1. SInv /\ [Next]_vars => [FirstStays]_vars
  BY FirstNext
<1> QED
  BY <1>1, Inductive, PTL DEF Spec, FirstPayloadWins, FirstStays
==============================================================================
