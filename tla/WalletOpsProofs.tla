---------------------------- MODULE WalletOpsProofs ----------------------------
(***************************************************************************)
(* Proofs about WalletOps, for any number of operations, reloads and late  *)
(* requests, when a refresh leaves the operations alone whose creating     *)
(* handler is still at work: no value is lost or doubled in the wallet,    *)
(* and what Activity says of an ended operation happened.                  *)
(***************************************************************************)
EXTENDS WalletOps, TLAPS

States == {"none"} \cup SendStates \cup ReceiveStates \cup AddStates \cup OutStates

OpRecord == [state : States, kept : SUBSET Proofs, inputs : SUBSET Proofs,
             outputs : SUBSET Proofs, change : SUBSET Proofs]

Places == {"idle", "sending", "restoring send", "asking", "reclaiming", "checking token",
           "swapping", "restoring", "checking quote", "issuing", "restoring add", "melting",
           "melted", "checking melt", "inspecting"}

MeltRecord == [state : {"unpaid", "pending", "paid"}, inputs : SUBSET Proofs,
               outputs : SUBSET Proofs]

Requests == [kind : {"issue", "melt", "swap"}, op : Ops, inputs : SUBSET Proofs,
             outputs : SUBSET Proofs]

RecordTypes ==
  /\ held \in [Proofs -> 0 .. 1]
  /\ ops \in [Ops -> OpRecord]
  /\ drawn \in [Ops -> 0 .. 1]
  /\ quotes \in [Adds -> {"unpaid", "paid", "issued"}]
  /\ melts \in [Outs -> MeltRecord]
  /\ given \subseteq Proofs /\ signed \subseteq Proofs /\ spent \subseteq Proofs

(* What an operation has yet to be given, what it has set aside that       *)
(* nobody else knows, and the names it can draw.                           *)
Awaits(o) == ops[o].outputs \cup ops[o].change

Own(o) == IF o \in Outs THEN ops[o].kept ELSE IF ops[o].kept = {} THEN ops[o].inputs ELSE {}

Secured(o) == Fresh(o, 0)
NamesOf(o) == {Token(o), Change(o), Secured(o)}

(* The stages of an operation, and what the mint knows at each.            *)
Empty(r) == r.kept = {} /\ r.inputs = {} /\ r.outputs = {} /\ r.change = {}

Keeping(r) == r.kept # {} /\ r.inputs = {} /\ r.outputs = {} /\ r.change = {}

Swapping(o) ==
  /\ ops[o].kept # {} /\ ops[o].inputs = ops[o].kept /\ ops[o].outputs = {Secured(o)}
  /\ drawn[o] = 1

Preparing(o) ==
  LET r == ops[o] IN
  /\ r.kept = {} /\ r.inputs # {} /\ r.outputs = {Token(o)} /\ r.change = {Change(o)}
  /\ drawn[o] = 0
  /\ \/ r.inputs \subseteq signed \ spent /\ Awaits(o) \cap signed = {}
     \/ r.inputs \subseteq spent /\ Awaits(o) \subseteq signed

Completed(o) == Empty(ops[o]) /\ drawn[o] = 1 /\ Secured(o) \in signed
Unstarted(o) == Empty(ops[o]) /\ drawn[o] = 0

(* The swap of a token that others know: it may lose to theirs.            *)
Contested(o) == Swapping(o) /\ ops[o].change = {} /\ (Secured(o) \in signed => ops[o].kept \subseteq spent)

SendHolds(o) ==
  LET state == ops[o].state IN
  \/ state = "none" /\ Unstarted(o) /\ {Token(o), Change(o)} \cap signed = {}
  \/ state \in {"preparing", "recovery_required"} /\ Preparing(o)
  \/ state \in {"awaiting_acceptance", "recovery_required"} /\ Keeping(ops[o]) /\ drawn[o] = 0
  \/ state \in {"reclaiming", "recovery_required"} /\ Contested(o)
  \/ state = "accepted" /\ Unstarted(o)
  \/ state = "reclaimed" /\ Completed(o)

ReceiveHolds(o) ==
  LET state == ops[o].state IN
  \/ state \in {"none", "failed"} /\ Unstarted(o)
  \/ state \in {"checking", "recoverable", "failed"} /\ Keeping(ops[o]) /\ drawn[o] = 0
  \/ state \in {"securing", "recoverable"} /\ Contested(o)
  \/ state = "settled" /\ Completed(o)

AddHolds(o) ==
  LET r == ops[o] IN
  /\ r.state \in {"none"} \cup AddStates
  /\ r.kept = {} /\ r.inputs = {} /\ r.change = {}
  /\ r.outputs \subseteq {Secured(o)}
  /\ r.state = "none" => r.outputs = {}
  /\ Secured(o) \in signed => quotes[o] = "issued" /\ (r.outputs = {} => r.state = "settled")
  /\ r.state = "settled" => r.outputs = {} /\ quotes[o] = "issued"

Untouched(o) ==
  melts[o].state # "paid" /\ ops[o].kept \subseteq signed \ spent /\ Awaits(o) \cap signed = {}

PaidOut(o) ==
  /\ melts[o].state = "paid" /\ ops[o].kept \subseteq spent /\ Secured(o) \notin signed

Returned(o) ==
  /\ melts[o].state = "unpaid" /\ ops[o].kept \subseteq spent
  /\ ops[o].outputs = {Secured(o)} /\ Secured(o) \in signed /\ Change(o) \notin signed

Dispatched(o) ==
  /\ ops[o].change = {Change(o)}
  /\ Untouched(o) \/ PaidOut(o) \/ Returned(o)
  /\ melts[o].state = "pending" =>
       melts[o].inputs = ops[o].kept /\ melts[o].outputs = ops[o].change

OutHolds(o) ==
  LET r == ops[o] IN
  \/ r.state = "none" /\ Unstarted(o) /\ Change(o) \notin signed /\ melts[o].state = "unpaid"
  \/ /\ r.state \in {"dispatching", "pending", "unknown"} /\ Dispatched(o)
     /\ r.kept # {} /\ r.inputs = {} /\ r.outputs = {} /\ drawn[o] = 0
  \/ r.state \in {"pending", "unknown"} /\ Dispatched(o) /\ Swapping(o)
  \/ r.state = "paid" /\ Empty(r) /\ melts[o].state = "paid"
  \/ r.state = "failed" /\ Completed(o) /\ melts[o].state = "unpaid"

OpHolds(o) ==
  /\ Fresh(o, 1) \notin signed
  /\ o \notin Adds /\ drawn[o] = 0 => Secured(o) \notin signed
  /\ o \in Sends => SendHolds(o)
  /\ o \in Receives => ReceiveHolds(o)
  /\ o \in Adds => AddHolds(o)
  /\ o \in Outs => OutHolds(o)

(* Where proofs are: an output that is awaited is nowhere else, and what   *)
(* an operation has set aside is its own unless others were shown it.      *)
Apart(o) ==
  /\ Own(o) \cap (given \cup Spendable) = {}
  /\ Awaits(o) \cap (given \cup Spendable \cup spent) = {}
  /\ o \in Sends \cup Receives => ops[o].kept \subseteq given
  /\ \A q \in Ops : Awaits(o) \cap Own(q) = {}
  /\ \A q \in Ops \ {o} : Own(o) \cap Own(q) = {}

Placed(p) ==
  \/ p \in Spendable
  \/ \E o \in Receives : p = Incoming(o)
  \/ \E o \in Ops : p \in Own(o) \cup Awaits(o)
  \/ \E o \in Sends : p \in ops[o].kept

BalanceHolds ==
  /\ spent \subseteq signed /\ given \subseteq signed
  /\ Spendable \subseteq signed \ spent /\ Spendable \cap given = {}
  /\ \A p \in signed \ spent : Placed(p)
  /\ \A o \in Receives : Incoming(o) \in given

ValueHolds ==
  /\ RecordTypes
  /\ BalanceHolds
  /\ \A o \in Ops : OpHolds(o) /\ Apart(o)

(* A request that may still arrive is the one its record would send again, *)
(* or comes too late.                                                      *)
SwapOutputs(o) == IF ops[o].kept = {} THEN Awaits(o) ELSE ops[o].outputs

RequestHolds(r) ==
  /\ r.kind = "issue" =>
       /\ r.op \in Adds /\ r.inputs = {} /\ r.outputs = {Secured(r.op)}
       /\ ops[r.op].outputs = r.outputs \/ quotes[r.op] = "issued"
  /\ r.kind # "issue" => r.op \in Ops \ Adds /\ r.inputs # {}
  /\ r.kind = "swap" =>
       \/ r.inputs \subseteq spent
       \/ r.inputs = ops[r.op].inputs /\ r.outputs = SwapOutputs(r.op)
  /\ r.kind = "melt" =>
       /\ r.op \in Outs
       /\ \/ r.inputs \subseteq spent
          \/ r.inputs = ops[r.op].kept /\ r.outputs = ops[r.op].change

LateHolds == late \subseteq Requests /\ \A r \in late : RequestHolds(r)

(* Where a handler can be with the record that is stored.                  *)
PlaceHolds(w, o, at) ==
  LET r == ops[o] IN
  /\ at \in {"sending", "restoring send"} => o \in Sends /\ r.kept = {} /\ r.outputs # {}
  /\ at \in {"asking", "reclaiming"} => o \in Sends /\ r.kept # {} /\ r.outputs = {}
  /\ at = "checking token" => o \in Receives /\ r.kept # {} /\ r.outputs = {}
  /\ at \in {"swapping", "restoring"} => o \in Ops \ Adds /\ r.kept # {} /\ r.outputs # {}
  /\ at = "checking quote" => o \in Adds /\ r.state # "settled"
  /\ at \in {"issuing", "restoring add"} => o \in Adds /\ r.outputs # {}
  /\ at \in {"melting", "melted", "checking melt"} => o \in Outs /\ r.kept # {}
  /\ at \in {"melting", "melted"} => w = "make"
  /\ at = "inspecting" => o \in Outs /\ r.kept # {} /\ r.outputs = {}
  /\ at \notin {"idle", "sending", "restoring send", "melting", "melted"} => w = "refresh"

RunHolds(w, o) ==
  /\ run[w][o].at = "idle" => run[w][o] = Idle
  /\ run[w][o].at # "idle" =>
       /\ run[w][o].seen = ops[o] /\ ops[o].state # "none"
       /\ \A v \in Handlers \ {w} : run[v][o] = Idle
  /\ PlaceHolds(w, o, run[w][o].at)

RunTypes == run \in [Handlers -> [Ops -> [at : Places, seen : OpRecord]]] /\ faults \in 0 .. MaxFaults

RunsHold == RunTypes /\ \A w \in Handlers, o \in Ops : RunHolds(w, o)

WalletInv == ~Overlap /\ ValueHolds /\ LateHolds /\ RunsHold
-----------------------------------------------------------------------------
(* Names are drawn for one operation each.                                 *)
LEMMA Names ==
  ASSUME NEW o \in Ops
  PROVE  /\ NamesOf(o) \subseteq Proofs /\ Fresh(o, 1) \in Proofs /\ Incoming(o) \in Proofs
         /\ Token(o) # Change(o) /\ Token(o) # Secured(o) /\ Change(o) # Secured(o)
         /\ NamesOf(o) \cap Start = {}
         /\ \A q \in Ops :
              /\ Fresh(q, 1) \notin NamesOf(o) /\ Incoming(q) \notin NamesOf(o)
              /\ q # o => NamesOf(q) \cap NamesOf(o) = {}
BY DEF NamesOf, Token, Change, Secured, Fresh, Incoming, Proofs, Start

LEMMA NamesAre ==
  ASSUME NEW o \in Ops
  PROVE  /\ Token(o) \in NamesOf(o) /\ Change(o) \in NamesOf(o) /\ Secured(o) \in NamesOf(o)
         /\ Secured(o) = Fresh(o, 0)
BY DEF NamesOf, Secured

LEMMA Kinds ==
  /\ Sends \subseteq Ops /\ Receives \subseteq Ops /\ Adds \subseteq Ops /\ Outs \subseteq Ops
  /\ \A o \in Sends : o \notin Receives /\ o \notin Adds /\ o \notin Outs
  /\ \A o \in Receives : o \notin Sends /\ o \notin Adds /\ o \notin Outs
  /\ \A o \in Adds : o \notin Sends /\ o \notin Receives /\ o \notin Outs
  /\ \A o \in Outs : o \notin Sends /\ o \notin Receives /\ o \notin Adds
BY KindsAssumption DEF Ops

(* What is added to the balance, and what is taken from it.                *)
HeldTypes == held \in [Proofs -> 0 .. 1]

LEMMA GainHolds ==
  ASSUME HeldTypes, NEW S \in SUBSET Proofs, S \cap Spendable = {}, Gain(S)
  PROVE  HeldTypes' /\ Spendable' = Spendable \cup S
<1>1. \A p \in Proofs : held[p] \in 0 .. 1 /\ (p \in S => held[p] = 0)
  BY DEF HeldTypes, Spendable
<1>2. \A p \in Proofs : held'[p] = IF p \in S THEN held[p] + 1 ELSE held[p]
  BY DEF Gain
<1>3. \A p \in Proofs : held'[p] \in 0 .. 1 /\ (held'[p] > 0 <=> (held[p] > 0 \/ p \in S))
  BY <1>1, <1>2
<1> QED
  BY <1>3 DEF Gain, HeldTypes, Spendable

LEMMA LoseHolds ==
  ASSUME HeldTypes, NEW S \in SUBSET Spendable, Lose(S)
  PROVE  HeldTypes' /\ Spendable' = Spendable \ S
<1>1. \A p \in Proofs : held[p] \in 0 .. 1 /\ (p \in S => held[p] = 1)
  BY DEF HeldTypes, Spendable
<1>2. \A p \in Proofs : held'[p] = IF p \in S THEN held[p] - 1 ELSE held[p]
  BY DEF Lose
<1>3. \A p \in Proofs : held'[p] \in 0 .. 1 /\ (held'[p] > 0 <=> (held[p] > 0 /\ p \notin S))
  BY <1>1, <1>2
<1> QED
  BY <1>3 DEF Lose, HeldTypes, Spendable

LEMMA SameBalance == ASSUME UNCHANGED held PROVE Spendable' = Spendable /\ (HeldTypes => HeldTypes')
BY DEF Spendable, HeldTypes
-----------------------------------------------------------------------------
(* A step touches one operation: its record, its quote or melt, its names, *)
(* and proofs that are its own, are in the balance or were shown to others.*)
Touches(o) ==
  /\ \A q \in Ops \ {o} : ops'[q] = ops[q] /\ drawn'[q] = drawn[q]
  /\ \A q \in Adds \ {o} : quotes'[q] = quotes[q]
  /\ \A q \in Outs \ {o} : melts'[q] = melts[q]
  /\ signed \subseteq signed' /\ signed' \subseteq signed \cup NamesOf(o)
  /\ spent \subseteq spent' /\ spent' \subseteq spent \cup Own(o) \cup given
  /\ given \subseteq given' /\ given' \subseteq given \cup Spendable \cup Awaits(o)
  /\ Spendable' \subseteq Spendable \cup Awaits(o)
  /\ Own(o)' \subseteq Own(o) \cup Spendable
  /\ Awaits(o)' \subseteq Awaits(o) \cup (NamesOf(o) \ signed)

ApartHere(o) ==
  /\ Own(o) \cap (given \cup Spendable) = {}
  /\ Awaits(o) \cap (given \cup Spendable \cup spent \cup Own(o)) = {}
  /\ o \in Sends \cup Receives => ops[o].kept \subseteq given

Balanced ==
  /\ spent \subseteq signed /\ given \subseteq signed
  /\ Spendable \subseteq signed \ spent /\ Spendable \cap given = {}

(* Where a step can take a proof from, and where it is found after it.     *)
PlacesOf(o) == Spendable \cup Own(o) \cup Awaits(o) \cup (IF o \in Sends THEN ops[o].kept ELSE {})

Keeps(o) ==
  \A p \in signed' \ spent' : p \in PlacesOf(o) \cup (signed' \ signed) => p \in PlacesOf(o)'

LEMMA OwnIsSigned ==
  ASSUME NEW o \in Ops, OpHolds(o), spent \subseteq signed
  PROVE  Own(o) \subseteq signed /\ Awaits(o) \subseteq NamesOf(o)
<1>1. CASE o \in Sends
  BY <1>1, Kinds, NamesAre DEF OpHolds, SendHolds, Own, Awaits, Empty, Unstarted, Completed, Keeping,
     Preparing, Contested, Swapping
<1>2. CASE o \in Receives
  BY <1>2, Kinds, NamesAre DEF OpHolds, ReceiveHolds, Own, Awaits, Empty, Unstarted, Completed, Keeping,
     Contested, Swapping
<1>3. CASE o \in Adds
  BY <1>3, Kinds, NamesAre DEF OpHolds, AddHolds, Own, Awaits
<1>4. CASE o \in Outs
  BY <1>4, Kinds, NamesAre DEF OpHolds, OutHolds, Own, Awaits, Empty, Unstarted, Completed,
     Dispatched, Untouched, PaidOut, Returned, Swapping
<1> QED
  BY <1>1, <1>2, <1>3, <1>4 DEF Ops

(* What holds of an operation holds still when neither its record nor its  *)
(* quote or melt changes, no name of its own is signed, and nothing of its *)
(* own is spent.                                                           *)
LEMMA HoldsStill ==
  ASSUME ValueHolds, NEW q \in Ops, ops'[q] = ops[q], drawn'[q] = drawn[q],
         q \in Adds => quotes'[q] = quotes[q], q \in Outs => melts'[q] = melts[q],
         signed \subseteq signed', (signed' \ signed) \cap (NamesOf(q) \cup {Fresh(q, 1)}) = {},
         spent \subseteq spent', (spent' \ spent) \cap Own(q) = {}
  PROVE  OpHolds(q)'
<1>1. ops'[q] = ops[q] /\ drawn'[q] = drawn[q]
  OBVIOUS
<1>2. OpHolds(q) /\ spent \subseteq signed
  BY DEF ValueHolds, BalanceHolds
<1>3. \A p \in NamesOf(q) \cup {Fresh(q, 1)} : p \in signed' <=> p \in signed
  OBVIOUS
<1>4. Own(q) \subseteq signed /\ Awaits(q) \subseteq NamesOf(q)
  BY <1>2, OwnIsSigned
<1>5. \A p \in Own(q) : p \in signed' /\ (p \in spent' <=> p \in spent)
  BY <1>4
<1>6. spent \subseteq spent'
  OBVIOUS
<1>7. Awaits(q)' = Awaits(q)
  BY <1>1 DEF Awaits
<1>8. CASE q \in Sends
  <2>1. Preparing(q) => Preparing(q)'
    <3> SUFFICES ASSUME Preparing(q) PROVE Preparing(q)'
      OBVIOUS
    <3>1. Own(q) = ops[q].inputs
      BY <1>8, Kinds DEF Own, Preparing
    <3> QED
      BY <1>1, <1>3, <1>4, <1>5, <1>7, <3>1 DEF Preparing
  <2>2. (Completed(q) => Completed(q)') /\ (Unstarted(q) => Unstarted(q)')
    BY <1>1, <1>3, NamesAre DEF Completed, Unstarted, Empty
  <2>3. Contested(q) => Contested(q)'
    BY <1>1, <1>3, <1>6, NamesAre DEF Contested, Swapping
  <2>4. SendHolds(q) => SendHolds(q)'
    BY <1>1, <1>3, <2>1, <2>2, <2>3, NamesAre DEF SendHolds
  <2> QED
    BY <1>1, <1>2, <1>3, <1>8, <2>4, NamesAre, Kinds DEF OpHolds
<1>9. CASE q \in Receives
  <2>1. (Completed(q) => Completed(q)') /\ (Unstarted(q) => Unstarted(q)')
    BY <1>1, <1>3, NamesAre DEF Completed, Unstarted, Empty
  <2>2. Contested(q) => Contested(q)'
    BY <1>1, <1>3, <1>6, NamesAre DEF Contested, Swapping
  <2>3. ReceiveHolds(q) => ReceiveHolds(q)'
    BY <1>1, <2>1, <2>2 DEF ReceiveHolds
  <2> QED
    BY <1>1, <1>2, <1>3, <1>9, <2>3, NamesAre, Kinds DEF OpHolds
<1>10. CASE q \in Adds
  <2>1. quotes'[q] = quotes[q]
    BY <1>10
  <2>2. AddHolds(q) => AddHolds(q)'
    BY <1>1, <1>3, <2>1, NamesAre DEF AddHolds
  <2> QED
    BY <1>1, <1>2, <1>3, <1>10, <2>2, NamesAre, Kinds DEF OpHolds
<1>11. CASE q \in Outs
  <2>1. melts'[q] = melts[q] /\ Own(q) = ops[q].kept
    BY <1>11 DEF Own
  <2>2. (Completed(q) => Completed(q)') /\ (Unstarted(q) => Unstarted(q)') /\ (Swapping(q) => Swapping(q)')
    BY <1>1, <1>3, NamesAre DEF Completed, Unstarted, Empty, Swapping
  <2>3. Dispatched(q) => Dispatched(q)'
    <3>1. Untouched(q) => Untouched(q)'
      BY <1>1, <1>3, <1>4, <1>5, <1>7, <2>1 DEF Untouched
    <3>2. (PaidOut(q) => PaidOut(q)') /\ (Returned(q) => Returned(q)')
      BY <1>1, <1>3, <1>6, <2>1, NamesAre DEF PaidOut, Returned
    <3> QED
      BY <1>1, <2>1, <3>1, <3>2 DEF Dispatched
  <2>4. OutHolds(q) => OutHolds(q)'
    BY <1>1, <1>3, <2>1, <2>2, <2>3, NamesAre DEF OutHolds, Empty
  <2> QED
    BY <1>1, <1>2, <1>3, <1>11, <2>4, NamesAre, Kinds DEF OpHolds
<1> QED
  BY <1>8, <1>9, <1>10, <1>11 DEF Ops

(* What holds of the other operations holds still.                         *)
LEMMA OthersHold ==
  ASSUME ValueHolds, NEW o \in Ops, NEW q \in Ops \ {o}, Touches(o)
  PROVE  OpHolds(q)'
<1>1. Apart(q) /\ Apart(o)
  BY DEF ValueHolds
<1>2. (signed' \ signed) \cap (NamesOf(q) \cup {Fresh(q, 1)}) = {}
  BY Names DEF Touches
<1>3. (spent' \ spent) \cap Own(q) = {}
  BY <1>1 DEF Touches, Apart
<1> QED
  BY <1>2, <1>3, HoldsStill DEF Touches

(* The step's own operation, seen from the others, and the others from it. *)
LEMMA ApartStep ==
  ASSUME ValueHolds, NEW o \in Ops, Touches(o), ApartHere(o)'
  PROVE  \A q \in Ops : Apart(q)'
<1>1. \A q \in Ops : Apart(q) /\ Own(q) \subseteq signed /\ Awaits(q) \subseteq NamesOf(q)
  BY OwnIsSigned DEF ValueHolds, BalanceHolds
<1>2. \A q \in Ops \ {o} : ops'[q] = ops[q] /\ Own(q)' = Own(q) /\ Awaits(q)' = Awaits(q)
  BY DEF Touches, Own, Awaits
<1>3. Own(o)' \subseteq Own(o) \cup Spendable
  BY DEF Touches
<1>4. Awaits(o)' \subseteq NamesOf(o) /\ Awaits(o)' \subseteq Awaits(o) \cup (NamesOf(o) \ signed)
  BY <1>1 DEF Touches
<1>5. \A q \in Ops \ {o} : Awaits(q) \cap (NamesOf(o) \cup Own(o)) = {}
  BY <1>1, Names DEF Apart
<1>6. \A q \in Ops \ {o} : Own(q) \cap (Own(o) \cup Awaits(o) \cup Spendable \cup given) = {}
  BY <1>1 DEF Apart
<1>7. ASSUME NEW q \in Ops \ {o} PROVE Apart(q)'
  <2>1. Own(q) \cap (given' \cup Spendable') = {}
    BY <1>6 DEF Touches
  <2>2. Awaits(q) \cap (given' \cup Spendable' \cup spent') = {}
    <3>1. Awaits(q) \cap (given \cup Spendable \cup spent \cup Own(o) \cup Awaits(o)) = {}
      BY <1>1, <1>5 DEF Apart
    <3> QED
      BY <3>1 DEF Touches
  <2>3. q \in Sends \cup Receives => ops[q].kept \subseteq given'
    BY <1>1 DEF Apart, Touches
  <2>4. Awaits(q) \cap Own(o)' = {} /\ Own(q) \cap Own(o)' = {}
    BY <1>1, <1>3, <1>5, <1>6 DEF Apart
  <2>5. \A p \in Ops \ {o} : Awaits(q) \cap Own(p) = {} /\ (p # q => Own(q) \cap Own(p) = {})
    BY <1>1 DEF Apart
  <2> QED
    BY <1>2, <2>1, <2>2, <2>3, <2>4, <2>5 DEF Apart
<1>8. Apart(o)'
  <2>1. \A q \in Ops \ {o} : Awaits(o)' \cap Own(q) = {} /\ Own(o)' \cap Own(q) = {}
    BY <1>1, <1>3, <1>4, <1>6
  <2> QED
    BY <1>2, <2>1 DEF Apart, ApartHere
<1> QED
  BY <1>7, <1>8

LEMMA PlacedStep ==
  ASSUME ValueHolds, NEW o \in Ops, Touches(o), Keeps(o)
  PROVE  \A p \in signed' \ spent' : Placed(p)'
<1> SUFFICES ASSUME NEW p \in signed' \ spent' PROVE Placed(p)'
  OBVIOUS
<1>1. \A q \in Ops \ {o} : ops'[q] = ops[q] /\ Own(q)' = Own(q) /\ Awaits(q)' = Awaits(q)
  BY DEF Touches, Own, Awaits
<1>2. p \in PlacesOf(o)' => Placed(p)'
  BY DEF PlacesOf, Placed
<1>3. CASE p \in PlacesOf(o) \cup (signed' \ signed)
  BY <1>2, <1>3 DEF Keeps
<1>4. CASE p \notin PlacesOf(o) \cup (signed' \ signed)
  <2>1. Placed(p)
    BY <1>4 DEF ValueHolds, BalanceHolds, Touches
  <2> QED
    BY <1>1, <1>4, <2>1, Kinds DEF Placed, PlacesOf
<1> QED
  BY <1>3, <1>4

LEMMA ValueStep ==
  ASSUME ValueHolds, NEW o \in Ops, Touches(o), RecordTypes', OpHolds(o)', ApartHere(o)',
         Balanced', Keeps(o)
  PROVE  ValueHolds'
<1>1. \A q \in Receives : Incoming(q) \in given'
  BY DEF ValueHolds, BalanceHolds, Touches
<1> QED
  BY <1>1, OthersHold, ApartStep, PlacedStep DEF ValueHolds, BalanceHolds, Balanced

(* A request that may still arrive stays what its record would send again, *)
(* or its inputs are spent.                                                *)
Repeats(o) ==
  /\ ops[o].inputs = {} \/ ops[o].inputs \subseteq spent'
       \/ (ops'[o].inputs = ops[o].inputs /\ SwapOutputs(o)' = SwapOutputs(o))
  /\ o \in Outs =>
       ops[o].kept = {} \/ ops[o].kept \subseteq spent'
         \/ (ops'[o].kept = ops[o].kept /\ ops'[o].change = ops[o].change)
  /\ o \in Adds =>
       /\ quotes[o] = "issued" => quotes'[o] = "issued"
       /\ ops[o].outputs = {} \/ ops'[o].outputs = ops[o].outputs \/ quotes'[o] = "issued"

LEMMA LateStep ==
  ASSUME LateHolds, NEW o \in Ops, Touches(o), Repeats(o),
         \A r \in late' : r \in late \/ (r \in Requests /\ RequestHolds(r))
  PROVE  LateHolds'
<1>1. late \subseteq Requests /\ \A r \in late : RequestHolds(r)
  BY DEF LateHolds
<1>2. ASSUME NEW r \in late' PROVE r \in Requests /\ RequestHolds(r)'
  <2>1. r \in Requests /\ RequestHolds(r) /\ r.op \in Ops
    BY <1>1 DEF Requests
  <2>2. spent \subseteq spent'
    BY DEF Touches
  <2>3. CASE r.op # o
    <3>1. ops'[r.op] = ops[r.op] /\ SwapOutputs(r.op)' = SwapOutputs(r.op)
      BY <2>1, <2>3 DEF Touches, SwapOutputs, Awaits
    <3>2. r.op \in Adds => quotes'[r.op] = quotes[r.op]
      BY <2>3 DEF Touches
    <3> QED
      BY <2>1, <2>2, <3>1, <3>2 DEF RequestHolds
  <2>4. CASE r.op = o
    <3>1. r.kind = "issue" => RequestHolds(r)'
      BY <2>1, <2>4 DEF RequestHolds, Repeats
    <3>2. r.kind = "swap" => RequestHolds(r)'
      BY <2>1, <2>2, <2>4 DEF RequestHolds, Repeats
    <3>3. r.kind = "melt" => RequestHolds(r)'
      BY <2>1, <2>2, <2>4 DEF RequestHolds, Repeats
    <3> QED
      BY <2>1, <3>1, <3>2, <3>3 DEF Requests
  <2> QED
    BY <2>3, <2>4
<1> QED
  BY <1>1, <1>2 DEF LateHolds

LEMMA SameLate ==
  ASSUME LateHolds, NEW o \in Ops, Touches(o), Repeats(o), UNCHANGED late PROVE LateHolds'
BY LateStep

LEMMA OneMoreLate ==
  ASSUME LateHolds, NEW o \in Ops, Touches(o), Repeats(o), NEW r \in Requests, RequestHolds(r),
         late' = late \cup {r}
  PROVE  LateHolds'
<1>1. \A q \in late' : q \in late \/ (q \in Requests /\ RequestHolds(q))
  OBVIOUS
<1> QED
  BY <1>1, LateStep

(* The handler at work is given a place, or is done; the other one waits.  *)
RunTo(w, o, next) == run' = [run EXCEPT ![w][o] = next]
Alone(w, o) == \A v \in Handlers \ {w} : run[v][o] = Idle

LEMMA IdleHolds == ASSUME NEW w, NEW o PROVE PlaceHolds(w, o, "idle")
BY DEF PlaceHolds

LEMMA SameRun ==
  ASSUME NEW w, NEW q, NEW at, ops'[q] = ops[q] PROVE PlaceHolds(w, q, at)' <=> PlaceHolds(w, q, at)
BY DEF PlaceHolds

LEMMA RunStep ==
  ASSUME RunsHold, NEW w \in Handlers, NEW o \in Ops, Alone(w, o),
         \A q \in Ops \ {o} : ops'[q] = ops[q], faults' \in 0 .. MaxFaults,
         NEW next \in [at : Places, seen : OpRecord], RunTo(w, o, next), NEW place, next.at = place,
         place = "idle" => next = Idle,
         place # "idle" => next.seen = ops'[o] /\ ops'[o].state # "none",
         PlaceHolds(w, o, place)'
  PROVE  RunsHold'
<1>2. RunTypes'
  BY DEF RunsHold, RunTypes, RunTo
<1>3. run'[w][o] = next /\ \A v \in Handlers, q \in Ops : v # w \/ q # o => run'[v][q] = run[v][q]
  BY DEF RunsHold, RunTypes, RunTo
<1>4. ASSUME NEW v \in Handlers, NEW q \in Ops \ {o} PROVE RunHolds(v, q)'
  <2>1. RunHolds(v, q) /\ ops'[q] = ops[q] /\ \A u \in Handlers : run'[u][q] = run[u][q]
    BY <1>3 DEF RunsHold
  <2> QED
    BY <2>1, SameRun DEF RunHolds
<1>5. ASSUME NEW v \in Handlers \ {w} PROVE RunHolds(v, o)'
  <2>1. run'[v][o] = Idle /\ Idle.at = "idle"
    BY <1>3 DEF Alone, Idle
  <2> QED
    BY <2>1, IdleHolds DEF RunHolds, PlaceHolds
<1>6. RunHolds(w, o)'
  <2>1. \A v \in Handlers \ {w} : run'[v][o] = Idle
    BY <1>3 DEF Alone
  <2> QED
    BY <1>3, <2>1 DEF RunHolds
<1> QED
  BY <1>2, <1>4, <1>5, <1>6 DEF RunsHold

(* The handlers stay where they are.                                       *)
LEMMA RunStays ==
  ASSUME RunsHold, NEW o \in Ops, UNCHANGED run, \A q \in Ops \ {o} : ops'[q] = ops[q],
         ops'[o] = ops[o] \/ \A w \in Handlers : run[w][o] = Idle, faults' \in 0 .. MaxFaults
  PROVE  RunsHold'
<1>1. ASSUME NEW w \in Handlers, NEW q \in Ops PROVE RunHolds(w, q)'
  <2>1. RunHolds(w, q) /\ \A v \in Handlers : run'[v][q] = run[v][q]
    BY DEF RunsHold
  <2>2. CASE ops'[q] = ops[q]
    BY <2>1, <2>2, SameRun DEF RunHolds
  <2>3. CASE run[w][q] = Idle
    <3>1. run'[w][q].at = "idle"
      BY <2>1, <2>3 DEF Idle
    <3> QED
      BY <2>1, <2>3, <3>1, IdleHolds DEF RunHolds, PlaceHolds
  <2> QED
    BY <2>2, <2>3
<1> QED
  BY <1>1 DEF RunsHold, RunTypes
-----------------------------------------------------------------------------
(* The stage of an operation can be read off its record.                   *)
LEMMA SendIs ==
  ASSUME NEW o \in Sends, OpHolds(o)
  PROVE  /\ ops[o].kept = {} /\ ops[o].outputs # {} => Preparing(o)
         /\ ops[o].kept # {} /\ ops[o].outputs = {} => Keeping(ops[o]) /\ drawn[o] = 0
         /\ ops[o].kept # {} /\ ops[o].outputs # {} => Contested(o)
         /\ ops[o].kept = {} /\ ops[o].outputs = {} => Empty(ops[o])
BY Kinds DEF OpHolds, SendHolds, Unstarted, Completed, Empty, Keeping, Preparing, Contested, Swapping

LEMMA ReceiveIs ==
  ASSUME NEW o \in Receives, OpHolds(o)
  PROVE  /\ ops[o].kept = {} => Empty(ops[o])
         /\ ops[o].kept # {} /\ ops[o].outputs = {} => Keeping(ops[o]) /\ drawn[o] = 0
         /\ ops[o].kept # {} /\ ops[o].outputs # {} => Contested(o)
BY Kinds DEF OpHolds, ReceiveHolds, Unstarted, Completed, Empty, Keeping, Contested, Swapping

LEMMA OutIs ==
  ASSUME NEW o \in Outs, OpHolds(o)
  PROVE  /\ ops[o].kept = {} => Empty(ops[o])
         /\ ops[o].kept # {} =>
              /\ Dispatched(o) /\ ops[o].state \in {"dispatching", "pending", "unknown"}
              /\ ops[o].outputs = {} => ops[o].inputs = {} /\ drawn[o] = 0
              /\ ops[o].outputs # {} => Swapping(o) /\ ops[o].state \in {"pending", "unknown"}
BY Kinds DEF OpHolds, OutHolds, Unstarted, Completed, Empty, Swapping

LEMMA AddIs == ASSUME NEW o \in Adds, OpHolds(o) PROVE AddHolds(o)
BY DEF OpHolds

(* An operation that has not begun.                                        *)
LEMMA NewIs ==
  ASSUME NEW o \in Ops, OpHolds(o), ops[o].state = "none"
  PROVE  /\ Empty(ops[o]) /\ NamesOf(o) \cap signed \subseteq {Token(o), Change(o)}
         /\ o \in Sends \cup Outs => Change(o) \notin signed
         /\ o \in Sends => Token(o) \notin signed
         /\ o \notin Adds => drawn[o] = 0
         /\ o \in Outs => melts[o].state = "unpaid"
<1>1. CASE o \in Sends
  BY <1>1, Kinds, NamesAre DEF OpHolds, SendHolds, Unstarted, Empty, NamesOf
<1>2. CASE o \in Receives
  BY <1>2, Kinds, NamesAre DEF OpHolds, ReceiveHolds, Unstarted, Empty, NamesOf
<1>3. CASE o \in Adds
  BY <1>3, Kinds, NamesAre DEF OpHolds, AddHolds, Empty, NamesOf
<1>4. CASE o \in Outs
  BY <1>4, Kinds, NamesAre DEF OpHolds, OutHolds, Unstarted, Empty, NamesOf
<1> QED
  BY <1>1, <1>2, <1>3, <1>4 DEF Ops

LEMMA NewIsIdle ==
  ASSUME RunsHold, NEW o \in Ops, ops[o].state = "none"
  PROVE  \A w \in Handlers : run[w][o] = Idle
BY DEF RunsHold, RunHolds

LEMMA AtWork ==
  ASSUME RunsHold, NEW w \in Handlers, NEW o \in Ops, run[w][o].at # "idle"
  PROVE  /\ run[w][o].seen = ops[o] /\ ops[o].state # "none" /\ Alone(w, o)
         /\ PlaceHolds(w, o, run[w][o].at)
BY DEF RunsHold, RunHolds, Alone

(* What a step does for the value, and for the requests that may arrive.   *)
Steps(o) == Touches(o) /\ Repeats(o) /\ ValueHolds'

LEMMA ValueIs ==
  ASSUME ValueHolds, NEW o \in Ops
  PROVE  /\ RecordTypes /\ HeldTypes /\ Balanced /\ OpHolds(o) /\ Apart(o) /\ ApartHere(o)
         /\ ops[o] \in OpRecord /\ Own(o) \subseteq signed /\ Awaits(o) \subseteq NamesOf(o)
BY OwnIsSigned
   DEF ValueHolds, BalanceHolds, Balanced, RecordTypes, HeldTypes, Apart, ApartHere

(* Nothing but the state of a record changes.                              *)
LEMMA SameValue ==
  ASSUME ValueHolds, NEW o \in Ops, UNCHANGED <<held, drawn, given, mint>>, RecordTypes',
         \A q \in Ops \ {o} : ops'[q] = ops[q], OpHolds(o)',
         ops'[o].kept = ops[o].kept, ops'[o].inputs = ops[o].inputs,
         ops'[o].outputs = ops[o].outputs, ops'[o].change = ops[o].change
  PROVE  Steps(o)
<1>1. Own(o)' = Own(o) /\ Awaits(o)' = Awaits(o) /\ SwapOutputs(o)' = SwapOutputs(o)
  BY DEF Own, Awaits, SwapOutputs
<1>2. Spendable' = Spendable
  BY SameBalance
<1>3. UNCHANGED <<drawn, given, quotes, melts, signed, spent>>
  BY DEF mint
<1>4. Touches(o)
  BY <1>1, <1>2, <1>3 DEF Touches
<1>5. Repeats(o)
  BY <1>1, <1>3 DEF Repeats
<1>6. ApartHere(o)' /\ Balanced'
  BY <1>1, <1>2, <1>3, ValueIs DEF ApartHere, Balanced
<1>7. Keeps(o)
  BY <1>1, <1>2, <1>3 DEF Keeps, PlacesOf
<1> QED
  BY <1>4, <1>5, <1>6, <1>7, ValueStep DEF Steps

LEMMA Nothing ==
  ASSUME ValueHolds, NEW o \in Ops, UNCHANGED <<snapshot, drawn, given, mint>>
  PROVE  Steps(o)
<1>1. UNCHANGED <<held, ops, drawn, given, quotes, melts, signed, spent>>
  BY DEF snapshot, mint
<1>2. RecordTypes'
  BY <1>1, ValueIs DEF RecordTypes
<1>3. OpHolds(o)'
  BY <1>1, HoldsStill
<1> QED
  BY <1>1, <1>2, <1>3, SameValue DEF mint

(* A record is written with another state that fits its stage.             *)
Fits(o, state) ==
  LET r == ops[o] IN
  \/ state = r.state
  \/ o \in Sends /\ r.kept \cup r.outputs # {} /\ state = "recovery_required"
  \/ o \in Receives /\ r.kept # {} /\ r.outputs = {} /\ state \in {"checking", "recoverable", "failed"}
  \/ o \in Receives /\ r.kept # {} /\ r.outputs # {} /\ state = "recoverable"
  \/ o \in Adds /\ r.state # "settled" /\ state \in AddStates \ {"settled"}
  \/ o \in Outs /\ r.kept # {} /\ state \in {"pending", "unknown"}

LEMMA Restate ==
  ASSUME ValueHolds, NEW o \in Ops, NEW state, Fits(o, state),
         Persist(o, [ops[o] EXCEPT !.state = state]), UNCHANGED <<held, drawn, given, mint>>
  PROVE  Steps(o) /\ ops'[o].state = state
<1>1. OpHolds(o) /\ RecordTypes /\ ops[o] \in OpRecord
  BY ValueIs
<1>2. state \in States
  BY <1>1 DEF Fits, States, SendStates, ReceiveStates, AddStates, OutStates, OpRecord
<1>3. UNCHANGED <<held, drawn, given, quotes, melts, signed, spent>>
  BY DEF mint
<1>4. ops' \in [Ops -> OpRecord] /\ \A q \in Ops \ {o} : ops'[q] = ops[q]
  BY <1>1, <1>2 DEF Persist, RecordTypes, OpRecord
<1>5. /\ ops'[o].state = state /\ ops'[o].kept = ops[o].kept /\ ops'[o].inputs = ops[o].inputs
      /\ ops'[o].outputs = ops[o].outputs /\ ops'[o].change = ops[o].change
  BY <1>1 DEF Persist, RecordTypes, OpRecord
<1>6. RecordTypes'
  BY <1>1, <1>3, <1>4 DEF RecordTypes
<1>7. /\ Preparing(o)' <=> Preparing(o)
      /\ Contested(o)' <=> Contested(o)
      /\ Completed(o)' <=> Completed(o)
      /\ Unstarted(o)' <=> Unstarted(o)
      /\ Dispatched(o)' <=> Dispatched(o)
      /\ Swapping(o)' <=> Swapping(o)
      /\ Keeping(ops[o])' <=> Keeping(ops[o])
      /\ Empty(ops[o])' <=> Empty(ops[o])
  BY <1>3, <1>5 DEF Preparing, Contested, Completed, Unstarted, Dispatched, Swapping, Keeping, Empty,
     Untouched, PaidOut, Returned, Awaits
<1>8. OpHolds(o)'
  <2>1. CASE o \in Sends
    <3>1. SendHolds(o)'
      BY <1>1, <1>3, <1>5, <1>7, <2>1, Kinds, SendIs DEF Fits, OpHolds, SendHolds, Empty
    <3> QED
      BY <1>1, <1>3, <2>1, <3>1, Kinds DEF OpHolds
  <2>2. CASE o \in Receives
    <3>1. ReceiveHolds(o)'
      BY <1>1, <1>3, <1>5, <1>7, <2>2, Kinds, ReceiveIs DEF Fits, OpHolds, ReceiveHolds
    <3> QED
      BY <1>1, <1>3, <2>2, <3>1, Kinds DEF OpHolds
  <2>3. CASE o \in Adds
    <3>1. AddHolds(o)'
      BY <1>1, <1>3, <1>5, <2>3, Kinds DEF Fits, OpHolds, AddHolds, AddStates
    <3> QED
      BY <1>1, <1>3, <2>3, <3>1, Kinds DEF OpHolds
  <2>4. CASE o \in Outs
    <3>1. OutHolds(o)'
      BY <1>1, <1>3, <1>5, <1>7, <2>4, Kinds, OutIs DEF Fits, OpHolds, OutHolds
    <3> QED
      BY <1>1, <1>3, <2>4, <3>1, Kinds DEF OpHolds
  <2> QED
    BY <2>1, <2>2, <2>3, <2>4 DEF Ops
<1> QED
  BY <1>3, <1>4, <1>5, <1>6, <1>8, SameValue
-----------------------------------------------------------------------------
(* A record is replaced, the proofs of the mint and of the snapshot with it*)
LEMMA Persisted ==
  ASSUME RecordTypes, NEW o \in Ops, NEW r \in OpRecord, Persist(o, r)
  PROVE  /\ ops' \in [Ops -> OpRecord] /\ ops'[o] = r
         /\ \A q \in Ops \ {o} : ops'[q] = ops[q]
BY DEF Persist, RecordTypes

LEMMA RecordIs ==
  ASSUME NEW state \in States, NEW kept \in SUBSET Proofs, NEW inputs \in SUBSET Proofs,
         NEW outputs \in SUBSET Proofs, NEW change \in SUBSET Proofs
  PROVE  [state |-> state, kept |-> kept, inputs |-> inputs, outputs |-> outputs,
          change |-> change] \in OpRecord
BY DEF OpRecord

LEMMA StatesAre ==
  /\ SendStates \subseteq States /\ ReceiveStates \subseteq States /\ AddStates \subseteq States
  /\ OutStates \subseteq States /\ "none" \in States
BY DEF States

(* Secure: a swap of what the record keeps is stored.                      *)
SecuringState(o) ==
  IF o \in Sends THEN "reclaiming" ELSE IF o \in Receives THEN "securing" ELSE "unknown"

LEMMA SecureStep ==
  ASSUME ValueHolds, NEW o \in Ops \ Adds, ops[o].kept # {}, ops[o].outputs = {},
         Secure(o, SecuringState(o), ops[o]), UNCHANGED <<held, given, mint>>
  PROVE  Steps(o) /\ ops'[o].kept # {} /\ ops'[o].outputs # {} /\ ops'[o].state # "none"
<1> DEFINE swap == [PreparedReceive(o, ops[o]) EXCEPT !.state = SecuringState(o)]
<1>1. UNCHANGED <<held, given, quotes, melts, signed, spent>> /\ Spendable' = Spendable
  BY SameBalance DEF mint
<1>2. RecordTypes /\ OpHolds(o) /\ ApartHere(o) /\ Balanced /\ ops[o] \in OpRecord
  BY ValueIs
<1>3. drawn[o] = 0 /\ ops[o].inputs = {} /\ Secured(o) \notin signed /\ (o \in Sends \cup Receives => ops[o].change = {})
  <2>1. o \in Sends \cup Receives => Keeping(ops[o]) /\ drawn[o] = 0
    BY <1>2, SendIs, ReceiveIs
  <2>2. o \in Outs => ops[o].inputs = {} /\ drawn[o] = 0
    BY <1>2, OutIs
  <2> QED
    BY <1>2, <2>1, <2>2 DEF Keeping, OpHolds, Ops
<1>4. drawn' = [drawn EXCEPT ![o] = 1] /\ Persist(o, swap) /\ swap.outputs = {Secured(o)}
  BY <1>2, <1>3 DEF Secure, RecordTypes, PreparedReceive, Secured, OpRecord
<1>5. /\ swap.state = SecuringState(o) /\ swap.kept = ops[o].kept /\ swap.inputs = ops[o].kept
      /\ swap.change = ops[o].change /\ swap \in OpRecord
  <2>1. {Secured(o)} \subseteq Proofs /\ SecuringState(o) \in States
    BY Names, NamesAre DEF SecuringState, States, SendStates, ReceiveStates, OutStates
  <2> QED
    BY <1>2, <1>3, <2>1 DEF PreparedReceive, OpRecord, Secured
<1> HIDE DEF swap
<1>6. ops' \in [Ops -> OpRecord] /\ ops'[o] = swap /\ \A q \in Ops \ {o} : ops'[q] = ops[q]
  BY <1>2, <1>4, <1>5, Persisted
<1>7. drawn'[o] = 1 /\ drawn' \in [Ops -> 0 .. 1] /\ \A q \in Ops \ {o} : drawn'[q] = drawn[q]
  BY <1>2, <1>4 DEF RecordTypes
<1>8. RecordTypes'
  BY <1>1, <1>2, <1>6, <1>7 DEF RecordTypes
<1>9. Own(o)' = Own(o) /\ Awaits(o)' = Awaits(o) \cup {Secured(o)}
  BY <1>3, <1>4, <1>5, <1>6 DEF Own, Awaits
<1>10. Touches(o)
  BY <1>1, <1>3, <1>6, <1>7, <1>9, NamesAre DEF Touches
<1>11. Repeats(o)
  BY <1>3, <1>5, <1>6, Kinds DEF Repeats
<1>12. ApartHere(o)' /\ Balanced'
  <2>1. Secured(o) \notin Own(o) \cup given \cup Spendable \cup spent
    BY <1>2, <1>3, ValueIs DEF Balanced
  <2> QED
    BY <1>1, <1>2, <1>5, <1>6, <1>9, <2>1 DEF ApartHere, Balanced
<1>13. Keeps(o)
  BY <1>1, <1>5, <1>6, <1>9 DEF Keeps, PlacesOf
<1>14. OpHolds(o)'
  <2>1. Swapping(o)'
    BY <1>4, <1>5, <1>6, <1>7 DEF Swapping
  <2>2. Fresh(o, 1) \notin signed'
    BY <1>1, <1>2 DEF OpHolds
  <2>3. CASE o \in Sends
    BY <1>1, <1>3, <1>5, <1>6, <1>7, <2>1, <2>2, <2>3, Kinds DEF OpHolds, SendHolds, Contested, SecuringState
  <2>4. CASE o \in Receives
    BY <1>1, <1>3, <1>5, <1>6, <1>7, <2>1, <2>2, <2>4, Kinds DEF OpHolds, ReceiveHolds, Contested, SecuringState
  <2>5. CASE o \in Outs
    <3>1. Dispatched(o) /\ Awaits(o) = ops[o].change
      BY <1>2, <2>5, OutIs DEF Awaits
    <3>2. Dispatched(o)'
      <4>1. Untouched(o) => Untouched(o)'
        BY <1>1, <1>3, <1>5, <1>6, <1>9 DEF Untouched
      <4>2. (PaidOut(o) => PaidOut(o)') /\ ~Returned(o)
        BY <1>1, <1>3, <1>5, <1>6 DEF PaidOut, Returned
      <4> QED
        BY <1>1, <1>5, <1>6, <3>1, <4>1, <4>2 DEF Dispatched
    <3> QED
      BY <1>1, <1>5, <1>6, <1>7, <2>1, <2>2, <2>5, <3>2, Kinds DEF OpHolds, OutHolds, SecuringState
  <2> QED
    BY <2>3, <2>4, <2>5 DEF Ops
<1> QED
  BY <1>4, <1>5, <1>6, <1>8, <1>10, <1>11, <1>12, <1>13, <1>14, ValueStep DEF Steps, SecuringState

(* A token is let go of: its recipient has spent it, or nobody wants it.   *)
LEMMA LetGo ==
  ASSUME ValueHolds, NEW o \in Sends \cup Receives, ops[o].kept # {}, ops[o].outputs = {},
         o \in Sends => ops[o].kept \subseteq spent, UNCHANGED <<held, drawn, given, mint>>,
         NEW state, state = IF o \in Sends THEN "accepted" ELSE "failed",
         Persist(o, [ops[o] EXCEPT !.state = state, !.kept = {}])
  PROVE  Steps(o)
<1>1. UNCHANGED <<held, given, drawn, quotes, melts, signed, spent>> /\ Spendable' = Spendable
  BY SameBalance DEF mint
<1>2. RecordTypes /\ OpHolds(o) /\ ApartHere(o) /\ Balanced /\ ops[o] \in OpRecord /\ o \in Ops
  BY ValueIs, Kinds
<1>3. drawn[o] = 0 /\ Keeping(ops[o]) /\ state \in States
  BY <1>2, SendIs, ReceiveIs DEF States, SendStates, ReceiveStates
<1> DEFINE rec == [ops[o] EXCEPT !.state = state, !.kept = {}]
<1>4. rec \in OpRecord /\ rec.state = state /\ Empty(rec)
  BY <1>2, <1>3 DEF OpRecord, Keeping, Empty
<1> HIDE DEF rec
<1>5. ops' \in [Ops -> OpRecord] /\ ops'[o] = rec /\ \A q \in Ops \ {o} : ops'[q] = ops[q]
  BY <1>2, <1>4, Persisted DEF rec
<1>6. RecordTypes'
  BY <1>1, <1>2, <1>5 DEF RecordTypes
<1>7. Own(o)' = {} /\ Awaits(o)' = {} /\ Own(o) = {} /\ Awaits(o) = {}
  BY <1>2, <1>3, <1>4, <1>5, Kinds DEF Own, Awaits, Empty, Keeping
<1>8. Touches(o) /\ Repeats(o)
  BY <1>1, <1>2, <1>3, <1>5, <1>7, Kinds DEF Touches, Repeats, Keeping
<1>9. ApartHere(o)' /\ Balanced' /\ Keeps(o)
  BY <1>1, <1>2, <1>4, <1>5, <1>7 DEF ApartHere, Balanced, Empty, Keeps, PlacesOf
<1>10. OpHolds(o)'
  BY <1>1, <1>2, <1>3, <1>4, <1>5, Kinds DEF OpHolds, SendHolds, ReceiveHolds, Unstarted
<1> QED
  BY <1>2, <1>6, <1>8, <1>9, <1>10, ValueStep DEF Steps

(* Outputs are in the balance and the operation ends with a blank record:  *)
(* fresh proofs for what was kept, or for an add-cash quote.               *)
LEMMA BlankIs ==
  ASSUME NEW state \in States
  PROVE  [Blank EXCEPT !.state = state] \in OpRecord /\ [Blank EXCEPT !.state = state].state = state
         /\ Empty([Blank EXCEPT !.state = state])
BY DEF Blank, OpRecord, Empty

LEMMA EndStep ==
  ASSUME ValueHolds, NEW o \in Ops, NEW state \in States, NEW S \in SUBSET Awaits(o),
         Persist(o, [Blank EXCEPT !.state = state]), Gain(S), UNCHANGED <<drawn, given, melts>>,
         signed \subseteq signed', signed' \subseteq signed \cup S, S \subseteq signed',
         spent \subseteq spent', spent' \subseteq spent \cup Own(o) \cup given,
         spent' \subseteq signed', ops[o].kept \cup ops[o].inputs \subseteq spent',
         Awaits(o) \cap signed' \subseteq S,
         quotes' \in [Adds -> {"unpaid", "paid", "issued"}],
         \A q \in Adds \ {o} : quotes'[q] = quotes[q], o \in Adds => quotes'[o] = "issued",
         OpHolds(o)'
  PROVE  Steps(o) /\ ops'[o].state = state
<1> DEFINE rec == [Blank EXCEPT !.state = state]
<1>1. rec \in OpRecord /\ rec.state = state /\ Empty(rec)
  BY BlankIs
<1> HIDE DEF rec
<1>2. RecordTypes /\ OpHolds(o) /\ ApartHere(o) /\ Balanced /\ ops[o] \in OpRecord
      /\ Awaits(o) \subseteq NamesOf(o) /\ NamesOf(o) \subseteq Proofs
  BY ValueIs, Names
<1>3. ops' \in [Ops -> OpRecord] /\ ops'[o] = rec /\ \A q \in Ops \ {o} : ops'[q] = ops[q]
  BY <1>1, <1>2, Persisted DEF rec
<1>4. HeldTypes' /\ Spendable' = Spendable \cup S
  BY <1>2, GainHolds, ValueIs DEF ApartHere
<1>5. RecordTypes'
  BY <1>2, <1>3, <1>4 DEF RecordTypes, HeldTypes
<1>6. Own(o)' = {} /\ Awaits(o)' = {}
  BY <1>1, <1>3 DEF Own, Awaits, Empty
<1>7. Touches(o)
  BY <1>2, <1>3, <1>4, <1>6 DEF Touches
<1>8. Repeats(o)
  BY <1>3 DEF Repeats
<1>9. ApartHere(o)'
  BY <1>1, <1>3, <1>6 DEF ApartHere, Empty
<1>10. Balanced'
  <2>1. S \cap spent' = {} /\ S \cap given = {} /\ Spendable \cap spent' = {}
    BY <1>2 DEF ApartHere, Balanced
  <2> QED
    BY <1>2, <1>4, <2>1 DEF Balanced
<1>11. Keeps(o)
  <2>1. Own(o) \subseteq spent' /\ (o \in Sends => ops[o].kept \subseteq spent')
    BY DEF Own
  <2> QED
    BY <1>4, <2>1 DEF Keeps, PlacesOf
<1> QED
  BY <1>1, <1>3, <1>5, <1>7, <1>8, <1>9, <1>10, <1>11, ValueStep DEF Steps

(* Recovered: the fresh proofs of a swap.                                  *)
WonStates == {"reclaimed", "settled", "failed"}

LEMMA RecoverStep ==
  ASSUME ValueHolds, NEW o \in Ops \ Adds, ops[o].kept # {}, ops[o].outputs # {},
         Persist(o, [Blank EXCEPT !.state = Won(o)]), Gain(ops[o].outputs),
         UNCHANGED <<drawn, given, quotes, melts>>,
         signed' = signed \cup ops[o].outputs,
         spent' = spent \cup ops[o].kept,
         o \in Outs => melts[o].state = "unpaid" /\ Change(o) \notin signed
  PROVE  Steps(o)
<1>1. RecordTypes /\ OpHolds(o) /\ ApartHere(o) /\ Balanced /\ ops[o] \in OpRecord /\ Own(o) \subseteq signed
  BY ValueIs
<1>2. Swapping(o) /\ (o \in Sends \cup Receives => ops[o].change = {}) /\ (o \in Outs => ops[o].change = {Change(o)})
  BY <1>1, SendIs, ReceiveIs, OutIs DEF Contested, Ops, Dispatched
<1>3. ops[o].outputs = {Secured(o)} /\ ops[o].inputs = ops[o].kept /\ drawn[o] = 1
  BY <1>2 DEF Swapping
<1>4. Won(o) \in States
  BY DEF Won, States, SendStates, ReceiveStates, OutStates
<1>5. Awaits(o) \cap signed' \subseteq ops[o].outputs
  BY <1>2, <1>3, NamesAre, Names DEF Awaits, Ops
<1>6. ops[o].kept \subseteq Own(o) \cup given /\ ops[o].kept \subseteq signed
  BY <1>1 DEF ApartHere, Balanced, Own, Ops
<1>7. OpHolds(o)'
  <2>1. ops'[o] = [Blank EXCEPT !.state = Won(o)] /\ Empty([Blank EXCEPT !.state = Won(o)])
        /\ [Blank EXCEPT !.state = Won(o)].state = Won(o)
    BY <1>1, <1>4, BlankIs, Persisted
  <2>2. Completed(o)'
    BY <1>3, <2>1 DEF Completed
  <2>3. Fresh(o, 1) \notin signed'
    BY <1>1, <1>3, NamesAre, Names DEF OpHolds
  <2> QED
    BY <1>3, <2>1, <2>2, <2>3, Kinds DEF OpHolds, SendHolds, ReceiveHolds, OutHolds, Won, Ops
<1>8. spent' \subseteq signed' /\ spent' \subseteq spent \cup Own(o) \cup given
  BY <1>1, <1>6 DEF Balanced
<1>9. ops[o].kept \cup ops[o].inputs \subseteq spent' /\ ops[o].outputs \subseteq Awaits(o)
  BY <1>3 DEF Awaits
<1>10. quotes' \in [Adds -> {"unpaid", "paid", "issued"}] /\ \A q \in Adds \ {o} : quotes'[q] = quotes[q]
  BY <1>1 DEF RecordTypes
<1>11. signed \subseteq signed' /\ ops[o].outputs \subseteq signed' /\ signed' \subseteq signed \cup ops[o].outputs /\ spent \subseteq spent'
  OBVIOUS
<1> QED
  BY <1>4, <1>5, <1>7, <1>8, <1>9, <1>10, <1>11, EndStep

(* Issued: the proofs of an add-cash quote.                                *)
LEMMA IssueStep ==
  ASSUME ValueHolds, NEW o \in Adds, ops[o].outputs # {},
         Persist(o, [Blank EXCEPT !.state = "settled"]), Gain(ops[o].outputs),
         UNCHANGED <<drawn, given, melts, spent>>, signed' = signed \cup ops[o].outputs,
         quotes' \in [Adds -> {"unpaid", "paid", "issued"}],
         \A q \in Adds \ {o} : quotes'[q] = quotes[q], quotes'[o] = "issued"
  PROVE  Steps(o)
<1>1. RecordTypes /\ OpHolds(o) /\ ApartHere(o) /\ Balanced /\ ops[o] \in OpRecord /\ o \in Ops
  BY ValueIs, Kinds
<1>2. AddHolds(o) /\ ops[o].outputs = {Secured(o)}
  BY <1>1, AddIs DEF AddHolds
<1>3. OpHolds(o)'
  <2>1. ops'[o] = [Blank EXCEPT !.state = "settled"] /\ Empty([Blank EXCEPT !.state = "settled"])
        /\ [Blank EXCEPT !.state = "settled"].state = "settled"
    BY <1>1, StatesAre, BlankIs, Persisted DEF AddStates
  <2>2. Fresh(o, 1) \notin signed'
    BY <1>1, <1>2, NamesAre, Names DEF OpHolds
  <2> QED
    BY <2>1, <2>2, Kinds DEF OpHolds, AddHolds, AddStates, Empty
<1>4. "settled" \in States /\ ops[o].outputs \subseteq Awaits(o) /\ Awaits(o) \subseteq ops[o].outputs
      /\ ops[o].kept \cup ops[o].inputs \subseteq spent' /\ spent' \subseteq signed'
  BY <1>1, <1>2 DEF States, AddStates, Awaits, AddHolds, Balanced
<1>5. signed \subseteq signed' /\ ops[o].outputs \subseteq signed' /\ signed' \subseteq signed \cup ops[o].outputs
      /\ spent \subseteq spent' /\ spent' \subseteq spent \cup Own(o) \cup given
  OBVIOUS
<1> QED
  BY <1>1, <1>3, <1>4, <1>5, EndStep

(* Paid: the change of a melt, if there was any.                           *)
LEMMA PaidStep ==
  ASSUME ValueHolds, NEW o \in Outs, ops[o].kept # {}, melts[o].state = "paid",
         Persist(o, [Blank EXCEPT !.state = "paid"]), Gain(MeltChange(ops[o])),
         UNCHANGED <<drawn, given, mint>>
  PROVE  Steps(o)
<1>1. RecordTypes /\ OpHolds(o) /\ ApartHere(o) /\ Balanced /\ ops[o] \in OpRecord /\ o \in Ops
  BY ValueIs, Kinds
<1>2. PaidOut(o) /\ ops[o].change = {Change(o)} /\ (ops[o].inputs = {} \/ ops[o].inputs = ops[o].kept)
      /\ ops[o].outputs \subseteq {Secured(o)}
  BY <1>1, OutIs DEF Dispatched, Untouched, Returned, Swapping
<1>3. UNCHANGED <<drawn, given, quotes, melts, signed, spent>>
  BY DEF mint
<1>4. OpHolds(o)'
  <2>1. ops'[o] = [Blank EXCEPT !.state = "paid"] /\ Empty([Blank EXCEPT !.state = "paid"])
        /\ [Blank EXCEPT !.state = "paid"].state = "paid"
    BY <1>1, StatesAre, BlankIs, Persisted DEF OutStates
  <2> QED
    BY <1>1, <1>3, <2>1, Kinds DEF OpHolds, OutHolds
<1>5. MeltChange(ops[o]) \subseteq Awaits(o) /\ Awaits(o) \cap signed' \subseteq MeltChange(ops[o])
      /\ MeltChange(ops[o]) \subseteq signed'
  BY <1>2, <1>3 DEF MeltChange, Awaits, PaidOut
<1>6. ops[o].kept \cup ops[o].inputs \subseteq spent' /\ spent' \subseteq signed' /\ "paid" \in States
  BY <1>1, <1>2, <1>3 DEF PaidOut, Balanced, States, OutStates
<1>7. /\ quotes' \in [Adds -> {"unpaid", "paid", "issued"}] /\ \A q \in Adds \ {o} : quotes'[q] = quotes[q]
      /\ o \in Adds => quotes'[o] = "issued"
  BY <1>1, <1>3, Kinds DEF RecordTypes
<1>8. /\ signed \subseteq signed' /\ signed' \subseteq signed \cup MeltChange(ops[o])
      /\ spent \subseteq spent' /\ spent' \subseteq spent \cup Own(o) \cup given
  BY <1>3
<1> QED
  BY <1>1, <1>3, <1>4, <1>5, <1>6, <1>7, <1>8, EndStep

(* Ready: the token is stored with the change.                             *)
LEMMA ReadyStep ==
  ASSUME ValueHolds, NEW o \in Sends, ops[o].kept = {}, ops[o].outputs # {},
         Persist(o, [Blank EXCEPT !.state = "awaiting_acceptance", !.kept = ops[o].outputs]),
         Gain(ops[o].change), given' = given \cup ops[o].outputs,
         UNCHANGED <<drawn, quotes, melts>>,
         signed' = signed \cup Awaits(o), spent' = spent \cup ops[o].inputs
  PROVE  Steps(o)
<1> DEFINE rec == [Blank EXCEPT !.state = "awaiting_acceptance", !.kept = ops[o].outputs]
<1>1. RecordTypes /\ OpHolds(o) /\ ApartHere(o) /\ Balanced /\ ops[o] \in OpRecord /\ o \in Ops
      /\ Own(o) \subseteq signed /\ NamesOf(o) \subseteq Proofs
  BY ValueIs, Kinds, Names
<1>2. Preparing(o)
  BY <1>1, SendIs
<1>3. ops[o].outputs = {Token(o)} /\ ops[o].change = {Change(o)} /\ Awaits(o) = {Token(o), Change(o)}
      /\ Own(o) = ops[o].inputs /\ drawn[o] = 0
  BY <1>2, Kinds DEF Preparing, Awaits, Own
<1>4. /\ rec \in OpRecord /\ rec.state = "awaiting_acceptance" /\ rec.kept = {Token(o)}
      /\ rec.inputs = {} /\ rec.outputs = {} /\ rec.change = {}
  BY <1>1, <1>3, StatesAre DEF Blank, OpRecord, SendStates
<1> HIDE DEF rec
<1>5. ops' \in [Ops -> OpRecord] /\ ops'[o] = rec /\ \A q \in Ops \ {o} : ops'[q] = ops[q]
  BY <1>1, <1>4, Persisted DEF rec
<1>6. HeldTypes' /\ Spendable' = Spendable \cup {Change(o)}
  BY <1>1, <1>3, GainHolds, ValueIs DEF ApartHere
<1>7. {Token(o), Change(o)} \subseteq Proofs /\ given' \subseteq Proofs /\ spent' \subseteq Proofs
  BY <1>1, <1>3, NamesAre DEF RecordTypes, OpRecord
<1>8. RecordTypes'
  BY <1>1, <1>3, <1>5, <1>6, <1>7 DEF RecordTypes, HeldTypes
<1>9. Own(o)' = {} /\ Awaits(o)' = {}
  BY <1>1, <1>4, <1>5, Kinds DEF Own, Awaits
<1>10. Touches(o)
  BY <1>1, <1>3, <1>5, <1>6, <1>9, NamesAre DEF Touches
<1>11. Repeats(o)
  BY <1>1, <1>2, Kinds DEF Repeats
<1>12. ApartHere(o)'
  BY <1>3, <1>4, <1>5, <1>9 DEF ApartHere
<1>13. Balanced'
  BY <1>1, <1>3, <1>6, Names, NamesAre DEF Balanced, ApartHere
<1>14. Keeps(o)
  <2>1. PlacesOf(o)' = Spendable \cup {Change(o), Token(o)}
    BY <1>4, <1>5, <1>6, <1>9 DEF PlacesOf
  <2>2. PlacesOf(o) = Spendable \cup ops[o].inputs \cup {Token(o), Change(o)}
    BY <1>3 DEF PlacesOf
  <2> QED
    BY <1>3, <2>1, <2>2 DEF Keeps
<1>15. OpHolds(o)'
  <2>1. Fresh(o, 1) \notin signed' /\ Secured(o) \notin signed'
    BY <1>1, <1>3, NamesAre, Names, Kinds DEF OpHolds
  <2> QED
    BY <1>1, <1>3, <1>4, <1>5, <2>1, Kinds DEF OpHolds, SendHolds, Keeping
<1> QED
  BY <1>1, <1>8, <1>10, <1>11, <1>12, <1>13, <1>14, <1>15, ValueStep DEF Steps
-----------------------------------------------------------------------------
(* An operation begins with a record of its own, and with what it takes    *)
(* from the balance.                                                       *)
LEMMA BeginStep ==
  ASSUME ValueHolds, NEW o \in Ops, ops[o].state = "none", NEW r \in OpRecord, Persist(o, r),
         NEW send \in SUBSET Spendable, Lose(send) \/ (send = {} /\ UNCHANGED held),
         UNCHANGED <<drawn, mint>>, OpHolds(o)', given \subseteq given', given' \subseteq given \cup send,
         Own(o)' = send \ given', Awaits(o)' \subseteq NamesOf(o) \ signed,
         o \in Sends \cup Receives => r.kept \subseteq given',
         \A p \in send : p \in PlacesOf(o)'
  PROVE  Steps(o)
<1>1. RecordTypes /\ OpHolds(o) /\ ApartHere(o) /\ Balanced /\ ops[o] \in OpRecord
      /\ NamesOf(o) \subseteq Proofs
  BY ValueIs, Names
<1>2. ops' \in [Ops -> OpRecord] /\ ops'[o] = r /\ \A q \in Ops \ {o} : ops'[q] = ops[q]
  BY <1>1, Persisted
<1>3. UNCHANGED <<drawn, quotes, melts, signed, spent>>
  BY DEF mint
<1>4. HeldTypes' /\ Spendable' = Spendable \ send
  BY LoseHolds, SameBalance, ValueIs
<1>5. Spendable \subseteq Proofs /\ Empty(ops[o]) /\ (o \in Adds => quotes'[o] = quotes[o])
  BY <1>1, <1>3, NewIs DEF Spendable
<1>6. RecordTypes'
  BY <1>1, <1>2, <1>3, <1>4, <1>5 DEF RecordTypes, HeldTypes
<1>7. Own(o) = {} /\ Awaits(o) = {}
  BY <1>5 DEF Empty, Own, Awaits
<1>8. Touches(o)
  BY <1>2, <1>3, <1>4, <1>7 DEF Touches
<1>9. Repeats(o)
  BY <1>3, <1>5 DEF Repeats, Empty
<1>10. ApartHere(o)' /\ Balanced'
  BY <1>1, <1>2, <1>3, <1>4 DEF ApartHere, Balanced
<1>11. Keeps(o)
  <2>1. \A p \in PlacesOf(o) : p \in Spendable
    BY <1>5, <1>7 DEF PlacesOf, Empty
  <2>2. \A p \in Spendable' : p \in PlacesOf(o)'
    BY DEF PlacesOf
  <2> QED
    BY <1>3, <1>4, <2>1, <2>2 DEF Keeps
<1> QED
  BY <1>6, <1>8, <1>9, <1>10, <1>11, ValueStep DEF Steps

LEMMA OfflineStep ==
  ASSUME ValueHolds, NEW o \in Sends, ops[o].state = "none", NEW send \in Selections,
         Persist(o, [Blank EXCEPT !.state = "awaiting_acceptance", !.kept = send]),
         Lose(send), given' = given \cup send, UNCHANGED <<drawn, mint>>
  PROVE  Steps(o)
<1> DEFINE r == [Blank EXCEPT !.state = "awaiting_acceptance", !.kept = send]
<1>1. send \subseteq Spendable /\ send # {} /\ send \subseteq Proofs /\ o \in Ops
  BY Kinds DEF Selections, Spendable
<1>2. /\ r \in OpRecord /\ r.state = "awaiting_acceptance" /\ r.kept = send
      /\ r.inputs = {} /\ r.outputs = {} /\ r.change = {}
  BY <1>1, StatesAre DEF Blank, OpRecord, SendStates
<1> HIDE DEF r
<1>3. ops'[o] = r /\ UNCHANGED <<drawn, signed>>
  BY <1>1, <1>2, Persisted, ValueIs DEF mint, r
<1>4. Own(o)' = {} /\ Awaits(o)' = {} /\ send \subseteq PlacesOf(o)'
  BY <1>1, <1>2, <1>3, Kinds DEF Own, Awaits, PlacesOf
<1>5. OpHolds(o)'
  BY <1>1, <1>2, <1>3, Kinds, ValueIs, NewIs DEF OpHolds, SendHolds, Keeping
<1> QED
  BY <1>1, <1>2, <1>4, <1>5, BeginStep DEF r

LEMMA PrepareStep ==
  ASSUME ValueHolds, NEW o \in Sends, ops[o].state = "none", NEW send \in Selections,
         Persist(o, PreparedSend(o, send)), Lose(send), UNCHANGED <<drawn, given, mint>>
  PROVE  Steps(o) /\ PreparedSend(o, send) \in OpRecord /\ ops'[o] = PreparedSend(o, send)
         /\ ops'[o].state # "none" /\ ops'[o].kept = {} /\ ops'[o].outputs # {}
<1> DEFINE r == PreparedSend(o, send)
<1>1. send \subseteq Spendable /\ send # {} /\ send \subseteq Proofs /\ o \in Ops /\ Balanced
  BY Kinds, ValueIs DEF Selections, Spendable
<1>2. /\ r \in OpRecord /\ r.state = "preparing" /\ r.kept = {}
      /\ r.inputs = send /\ r.outputs = {Token(o)} /\ r.change = {Change(o)}
  <2>1. {Token(o)} \subseteq Proofs /\ {Change(o)} \subseteq Proofs /\ "preparing" \in States
    BY <1>1, StatesAre, Names, NamesAre DEF SendStates
  <2> QED
    BY <1>1, <2>1 DEF Blank, OpRecord, PreparedSend
<1> HIDE DEF r
<1>3. ops'[o] = r /\ UNCHANGED <<drawn, signed, spent, given>>
  BY <1>1, <1>2, Persisted, ValueIs DEF mint, r
<1>4. OpHolds(o) /\ Token(o) \notin signed /\ Change(o) \notin signed /\ drawn[o] = 0
  BY <1>1, ValueIs, NewIs, Kinds
<1>5. Own(o)' = send /\ Awaits(o)' = {Token(o), Change(o)} /\ send \subseteq PlacesOf(o)'
  BY <1>1, <1>2, <1>3, Kinds DEF Own, Awaits, PlacesOf
<1>6. OpHolds(o)'
  <2>1. Preparing(o)'
    BY <1>1, <1>2, <1>3, <1>4, <1>5 DEF Preparing, Balanced
  <2> QED
    BY <1>2, <1>3, <1>4, <2>1, Kinds DEF OpHolds, SendHolds
<1>7. Own(o)' = send \ given' /\ given \subseteq given' /\ given' \subseteq given \cup send
      /\ Awaits(o)' \subseteq NamesOf(o) \ signed
  BY <1>1, <1>3, <1>4, <1>5, NamesAre DEF Balanced
<1>8. Steps(o)
  <2>1. r.kept \subseteq given' /\ Persist(o, r)
    BY <1>2 DEF r
  <2> QED
    BY <1>1, <1>2, <1>5, <1>6, <1>7, <2>1, BeginStep
<1> QED
  BY <1>2, <1>3, <1>8 DEF r

LEMMA DispatchStep ==
  ASSUME ValueHolds, NEW o \in Outs, ops[o].state = "none", NEW send \in Selections,
         Persist(o, PreparedMelt(o, send)), Lose(send), UNCHANGED <<drawn, given, mint>>
  PROVE  Steps(o) /\ PreparedMelt(o, send) \in OpRecord /\ ops'[o] = PreparedMelt(o, send)
         /\ ops'[o].state # "none" /\ ops'[o].kept # {}
<1> DEFINE r == PreparedMelt(o, send)
<1>1. send \subseteq Spendable /\ send # {} /\ send \subseteq Proofs /\ o \in Ops /\ Balanced
  BY Kinds, ValueIs DEF Selections, Spendable
<1>2. /\ r \in OpRecord /\ r.state = "dispatching" /\ r.kept = send
      /\ r.inputs = {} /\ r.outputs = {} /\ r.change = {Change(o)}
  <2>1. {Change(o)} \subseteq Proofs /\ "dispatching" \in States
    BY <1>1, StatesAre, Names, NamesAre DEF OutStates
  <2> QED
    BY <1>1, <2>1 DEF Blank, OpRecord, PreparedMelt
<1> HIDE DEF r
<1>3. ops'[o] = r /\ UNCHANGED <<drawn, signed, spent, given, melts>>
  BY <1>1, <1>2, Persisted, ValueIs DEF mint, r
<1>4. OpHolds(o) /\ Change(o) \notin signed /\ drawn[o] = 0 /\ melts[o].state = "unpaid"
  BY <1>1, ValueIs, NewIs, Kinds
<1>5. Own(o)' = send /\ Awaits(o)' = {Change(o)} /\ send \subseteq PlacesOf(o)'
  BY <1>1, <1>2, <1>3, Kinds DEF Own, Awaits, PlacesOf
<1>6. OpHolds(o)'
  <2>1. Dispatched(o)'
    BY <1>1, <1>2, <1>3, <1>4, <1>5 DEF Dispatched, Untouched, Balanced
  <2> QED
    BY <1>1, <1>2, <1>3, <1>4, <2>1, Kinds DEF OpHolds, OutHolds
<1>7. Own(o)' = send \ given' /\ given \subseteq given' /\ given' \subseteq given \cup send
      /\ Awaits(o)' \subseteq NamesOf(o) \ signed
  BY <1>1, <1>3, <1>4, <1>5, NamesAre DEF Balanced
<1>8. Steps(o)
  <2>1. Persist(o, r) /\ o \notin Sends \cup Receives
    BY Kinds DEF r
  <2> QED
    BY <1>1, <1>2, <1>5, <1>6, <1>7, <2>1, BeginStep
<1> QED
  BY <1>1, <1>2, <1>3, <1>8 DEF r

LEMMA ReceiveStep ==
  ASSUME ValueHolds, NEW o \in Receives, ops[o].state = "none", NEW token,
         token \in {{Incoming(o)}} \cup {ops[s].kept : s \in Sends}, token # {},
         Persist(o, [[Blank EXCEPT !.kept = token] EXCEPT !.state = "checking"]),
         UNCHANGED <<held, drawn, given, mint>>
  PROVE  /\ Steps(o) /\ ops'[o] \in OpRecord /\ ops'[o].kept # {} /\ ops'[o].outputs = {}
         /\ ops'[o].state # "none"
<1> DEFINE r == [[Blank EXCEPT !.kept = token] EXCEPT !.state = "checking"]
<1>1. token \subseteq given /\ given \subseteq Proofs /\ o \in Ops
  <2>1. \A s \in Sends : ops[s].kept \subseteq given
    BY Kinds, ValueIs DEF ApartHere
  <2> QED
    BY <2>1, Kinds DEF ValueHolds, BalanceHolds, RecordTypes
<1>2. /\ r \in OpRecord /\ r.state = "checking" /\ r.kept = token
      /\ r.inputs = {} /\ r.outputs = {} /\ r.change = {}
  BY <1>1, StatesAre DEF Blank, OpRecord, ReceiveStates
<1> HIDE DEF r
<1>3. ops'[o] = r /\ UNCHANGED <<drawn, signed, given>>
  BY <1>1, <1>2, Persisted, ValueIs DEF mint, r
<1>4. Own(o)' = {} /\ Awaits(o)' = {}
  BY <1>1, <1>2, <1>3, Kinds DEF Own, Awaits
<1>5. OpHolds(o)'
  BY <1>1, <1>2, <1>3, Kinds, ValueIs, NewIs DEF OpHolds, ReceiveHolds, Keeping
<1>6. Steps(o)
  <2>1. Persist(o, r) /\ {} \in SUBSET Spendable /\ Own(o)' = {} \ given'
    BY <1>4 DEF r
  <2> QED
    BY <1>1, <1>2, <1>3, <1>4, <1>5, <2>1, BeginStep
<1> QED
  BY <1>2, <1>3, <1>6

(* The outputs of a paid quote are drawn and stored.                       *)
LEMMA MintStep ==
  ASSUME ValueHolds, NEW o \in Adds, ops[o].outputs = {}, ops[o].state # "settled", QuoteIsPaid(o),
         Persist(o, [PreparedMint(o, ops[o]) EXCEPT !.state = "issuing"]),
         UNCHANGED <<held, drawn, given, mint>>
  PROVE  Steps(o) /\ ops'[o] \in OpRecord /\ ops'[o].outputs # {} /\ ops'[o].state # "none"
<1> DEFINE r == [PreparedMint(o, ops[o]) EXCEPT !.state = "issuing"]
<1>1. UNCHANGED <<held, drawn, given, quotes, melts, signed, spent>> /\ Spendable' = Spendable
  BY SameBalance DEF mint
<1>2. RecordTypes /\ OpHolds(o) /\ ApartHere(o) /\ Balanced /\ ops[o] \in OpRecord /\ o \in Ops /\ AddHolds(o)
  BY ValueIs, Kinds, AddIs
<1>3. {Secured(o)} \subseteq Proofs /\ Secured(o) \notin signed /\ Secured(o) = Fresh(o, 0)
  BY <1>2, Names, NamesAre DEF AddHolds
<1>4. /\ r \in OpRecord /\ r.state = "issuing" /\ r.kept = {}
      /\ r.inputs = {} /\ r.outputs = {Secured(o)} /\ r.change = {}
  BY <1>2, <1>3, StatesAre DEF AddHolds, PreparedMint, OpRecord, AddStates
<1> HIDE DEF r
<1>5. ops' \in [Ops -> OpRecord] /\ ops'[o] = r /\ \A q \in Ops \ {o} : ops'[q] = ops[q]
  BY <1>2, <1>4, Persisted DEF r
<1>6. RecordTypes'
  BY <1>1, <1>2, <1>5 DEF RecordTypes
<1>7. Own(o)' = {} /\ Awaits(o)' = {Secured(o)} /\ Own(o) = {} /\ Awaits(o) = {}
  BY <1>2, <1>4, <1>5, Kinds DEF Own, Awaits, AddHolds
<1>8. Touches(o) /\ Repeats(o)
  BY <1>1, <1>2, <1>3, <1>5, <1>7, Kinds, NamesAre DEF Touches, Repeats, AddHolds
<1>9. ApartHere(o)' /\ Balanced' /\ Keeps(o)
  BY <1>1, <1>2, <1>3, <1>5, <1>7, Kinds DEF ApartHere, Balanced, Keeps, PlacesOf
<1>10. OpHolds(o)'
  BY <1>1, <1>2, <1>3, <1>4, <1>5, Kinds DEF OpHolds, AddHolds, AddStates
<1> QED
  BY <1>2, <1>4, <1>5, <1>6, <1>8, <1>9, <1>10, ValueStep DEF Steps
-----------------------------------------------------------------------------
(* A request is served: what the mint signs is awaited by its operation.   *)
LEMMA Served ==
  ASSUME ValueHolds, NEW r \in Requests, RequestHolds(r), Serve(r)
  PROVE  LET o == r.op IN
         /\ o \in Ops
         /\ r.kind = "issue" =>
              /\ o \in Adds /\ ops[o].outputs = {Secured(o)} /\ r.outputs = {Secured(o)}
              /\ quotes' = [quotes EXCEPT ![o] = "issued"]
              /\ signed' = signed \cup r.outputs /\ UNCHANGED <<melts, spent>>
         /\ r.kind = "swap" =>
              /\ o \in Ops \ Adds /\ Live(r.inputs) /\ r.inputs # {}
              /\ r.inputs = ops[o].inputs /\ r.outputs = SwapOutputs(o)
              /\ signed' = signed \cup r.outputs /\ spent' = spent \cup r.inputs
              /\ UNCHANGED <<quotes, melts>>
         /\ r.kind = "melt" =>
              /\ o \in Outs /\ Live(r.inputs) /\ r.inputs # {} /\ melts[o].state = "unpaid"
              /\ r.inputs = ops[o].kept /\ r.outputs = ops[o].change
              /\ melts' = [melts EXCEPT ![o] = [state |-> "pending", inputs |-> r.inputs,
                                                outputs |-> r.outputs]]
              /\ UNCHANGED <<quotes, signed, spent>>
<1>1. r.op \in Ops /\ (Live(r.inputs) => r.inputs \cap spent = {})
  BY DEF Requests, Live
<1>2. CASE r.kind = "issue"
  <2>1. quotes[r.op] = "paid"
    BY <1>2 DEF Serve, Serves
  <2> QED
    BY <1>1, <1>2, <2>1 DEF Serve, RequestHolds
<1>3. CASE r.kind = "swap"
  <2>1. Live(r.inputs)
    BY <1>3 DEF Serve, Serves
  <2>2. r.inputs # {} /\ r.op \notin Adds /\ ~(r.inputs \subseteq spent)
    BY <1>1, <1>3, <2>1 DEF RequestHolds
  <2> QED
    BY <1>1, <1>3, <2>1, <2>2 DEF Serve, RequestHolds
<1>4. CASE r.kind = "melt"
  <2>1. Live(r.inputs) /\ melts[r.op].state = "unpaid"
    BY <1>4 DEF Serve, Serves
  <2>2. r.inputs # {} /\ ~(r.inputs \subseteq spent)
    BY <1>1, <1>4, <2>1 DEF RequestHolds
  <2> QED
    BY <1>1, <1>4, <2>1, <2>2 DEF Serve, RequestHolds
<1> QED
  BY <1>1, <1>2, <1>3, <1>4 DEF Requests

LEMMA OutLive ==
  ASSUME ValueHolds, NEW o \in Outs, ops[o].kept # {}, Live(ops[o].kept)
  PROVE  Untouched(o) /\ melts[o].state = "unpaid"
<1>1. Dispatched(o) /\ ~(ops[o].kept \subseteq spent) /\ RecordTypes
  BY Kinds, ValueIs, OutIs DEF Live
<1>2. Untouched(o)
  BY <1>1 DEF Dispatched, PaidOut, Returned
<1>3. melts[o].state # "pending"
  BY <1>1 DEF Dispatched, Live, Reserved
<1> QED
  BY <1>1, <1>2, <1>3 DEF Untouched, RecordTypes, MeltRecord

(* The mint moves and the snapshot does not.                               *)
LEMMA MintMoves ==
  ASSUME ValueHolds, NEW o \in Ops, UNCHANGED <<snapshot, drawn, given>>,
         quotes' \in [Adds -> {"unpaid", "paid", "issued"}], melts' \in [Outs -> MeltRecord],
         \A q \in Adds \ {o} : quotes'[q] = quotes[q],
         \A q \in Outs \ {o} : melts'[q] = melts[q],
         o \in Adds /\ quotes[o] = "issued" => quotes'[o] = "issued",
         signed \subseteq signed', signed' \subseteq signed \cup Awaits(o),
         spent \subseteq spent', spent' \subseteq spent \cup Own(o) \cup given, OpHolds(o)'
  PROVE  Steps(o)
<1>1. RecordTypes /\ OpHolds(o) /\ ApartHere(o) /\ Balanced /\ Awaits(o) \subseteq NamesOf(o)
      /\ NamesOf(o) \subseteq Proofs /\ Own(o) \subseteq signed
  BY ValueIs, Names
<1>2. UNCHANGED <<held, ops, drawn, given>> /\ Spendable' = Spendable
  BY SameBalance DEF snapshot
<1>3. Own(o)' = Own(o) /\ Awaits(o)' = Awaits(o) /\ SwapOutputs(o)' = SwapOutputs(o)
      /\ PlacesOf(o)' = PlacesOf(o)
  BY <1>2 DEF Own, Awaits, SwapOutputs, PlacesOf
<1>4. signed' \subseteq Proofs /\ spent' \subseteq signed'
  BY <1>1 DEF RecordTypes, Balanced
<1>5. RecordTypes'
  BY <1>1, <1>2, <1>4 DEF RecordTypes
<1>6. Touches(o)
  BY <1>1, <1>2, <1>3 DEF Touches
<1>7. Repeats(o)
  BY <1>2, <1>3 DEF Repeats
<1>8. ApartHere(o)' /\ Balanced'
  BY <1>1, <1>2, <1>3, <1>4 DEF ApartHere, Balanced
<1>9. Keeps(o)
  BY <1>3 DEF Keeps, PlacesOf
<1> QED
  BY <1>5, <1>6, <1>7, <1>8, <1>9, ValueStep DEF Steps

(* A request is served and nobody waits for the answer.                    *)
LEMMA ServeStep ==
  ASSUME ValueHolds, NEW r \in Requests, RequestHolds(r), Serve(r),
         UNCHANGED <<snapshot, drawn, given>>
  PROVE  Steps(r.op)
<1> DEFINE o == r.op
<1>1. o \in Ops /\ RecordTypes /\ OpHolds(o) /\ ApartHere(o) /\ Balanced /\ ops[o] \in OpRecord
  BY Served, ValueIs
<1>2. UNCHANGED <<held, ops, drawn, given>> /\ Spendable' = Spendable
  BY SameBalance DEF snapshot
<1>3. CASE r.kind = "issue"
  <2>1. /\ o \in Adds /\ ops[o].outputs = {Secured(o)} /\ r.outputs = {Secured(o)}
        /\ quotes' = [quotes EXCEPT ![o] = "issued"]
        /\ signed' = signed \cup r.outputs /\ UNCHANGED <<melts, spent>>
    BY <1>3, Served
  <2>2. OpHolds(o)'
    <3>1. quotes'[o] = "issued" /\ ops'[o] = ops[o] /\ AddHolds(o)
      BY <1>1, <1>2, <2>1 DEF OpHolds, RecordTypes
    <3>2. AddHolds(o)'
      BY <2>1, <3>1 DEF AddHolds
    <3>3. Fresh(o, 1) \notin signed'
      BY <1>1, <2>1, Names, NamesAre DEF OpHolds
    <3> QED
      BY <1>1, <2>1, <3>2, <3>3, Kinds DEF OpHolds
  <2>3. signed \subseteq signed' /\ signed' \subseteq signed \cup Awaits(o)
        /\ spent \subseteq spent' /\ spent' \subseteq spent \cup Own(o) \cup given
    BY <2>1 DEF Awaits
  <2>4. /\ quotes' \in [Adds -> {"unpaid", "paid", "issued"}] /\ melts' \in [Outs -> MeltRecord]
        /\ \A q \in Adds \ {o} : quotes'[q] = quotes[q] /\ quotes'[o] = "issued"
        /\ \A q \in Outs \ {o} : melts'[q] = melts[q]
    BY <1>1, <2>1 DEF RecordTypes
  <2> HIDE DEF o
  <2>5. o \in Adds /\ quotes[o] = "issued" => quotes'[o] = "issued"
    BY <1>1, <2>1 DEF RecordTypes
  <2>6. Steps(o)
    BY <1>1, <1>2, <2>2, <2>3, <2>4, <2>5, MintMoves
  <2> QED
    BY <2>6 DEF o
<1>4. CASE r.kind = "swap"
  <2>1. /\ o \in Ops \ Adds /\ Live(r.inputs) /\ r.inputs # {}
        /\ r.inputs = ops[o].inputs /\ r.outputs = SwapOutputs(o)
        /\ signed' = signed \cup r.outputs /\ spent' = spent \cup r.inputs
        /\ UNCHANGED <<quotes, melts>>
    BY <1>4, Served
  <2> HIDE DEF o
  <2>2. r.outputs \subseteq Awaits(o) /\ r.inputs \subseteq Own(o) \cup given
    <3>1. CASE o \in Sends \cup Receives
      <4>1. ops[o].kept # {} => ops[o].inputs \subseteq ops[o].kept
        BY <1>1, <3>1, SendIs, ReceiveIs DEF Contested, Swapping, Keeping
      <4> QED
        BY <1>1, <2>1, <3>1, <4>1, Kinds DEF SwapOutputs, Awaits, Own, ApartHere
    <3>2. CASE o \in Outs
      BY <1>1, <2>1, <3>2, OutIs DEF SwapOutputs, Awaits, Own, Swapping, Empty
    <3> QED
      BY <2>1, <3>1, <3>2 DEF Ops
  <2>3. OpHolds(o)'
    <3>1. CASE ops[o].kept = {}
      <4>1. o \in Sends /\ Preparing(o)
        BY <1>1, <2>1, <3>1, SendIs, ReceiveIs, OutIs DEF Ops, Empty
      <4>2. r.outputs = {Token(o), Change(o)}
        BY <2>1, <4>1 DEF SwapOutputs, Awaits, Preparing
      <4>3. ops[o].inputs \subseteq spent' /\ Awaits(o)' \subseteq signed' /\ Secured(o) \notin r.outputs
            /\ Fresh(o, 1) \notin r.outputs
        BY <1>1, <1>2, <2>1, <4>1, <4>2, Names, NamesAre DEF Preparing, Awaits
      <4>4. Preparing(o)'
        BY <1>2, <2>1, <4>1, <4>3 DEF Preparing
      <4>5. ops[o].state \in {"preparing", "recovery_required"}
        BY <1>1, <4>1, Kinds
           DEF OpHolds, SendHolds, Preparing, Unstarted, Keeping, Contested, Swapping, Completed, Empty
      <4> QED
        BY <1>1, <1>2, <2>1, <4>1, <4>3, <4>4, <4>5, Kinds DEF OpHolds, SendHolds
    <3>2. CASE ops[o].kept # {}
      <4>1. Swapping(o)
        <5>1. ops[o].outputs # {}
          BY <1>1, <2>1, <3>2, SendIs, ReceiveIs, OutIs DEF Ops, Keeping
        <5> QED
          BY <1>1, <2>1, <3>2, <5>1, SendIs, ReceiveIs, OutIs DEF Ops, Contested
      <4>2. r.outputs = {Secured(o)} /\ r.inputs = ops[o].kept /\ drawn[o] = 1
        BY <2>1, <3>2, <4>1 DEF SwapOutputs, Swapping
      <4>3. Swapping(o)' /\ Fresh(o, 1) \notin signed' /\ Secured(o) \in signed' /\ ops[o].kept \subseteq spent'
        BY <1>1, <1>2, <2>1, <4>1, <4>2, Names, NamesAre DEF Swapping, OpHolds
      <4>4. CASE o \in Sends \cup Receives
        <5>1. Contested(o) /\ Contested(o)'
          BY <1>1, <1>2, <3>2, <4>1, <4>3, <4>4, SendIs, ReceiveIs DEF Contested, Swapping
        <5>2. CASE o \in Sends
          <6>1. ops[o].state \in {"reclaiming", "recovery_required"}
            BY <1>1, <3>2, <5>1, <5>2, Kinds
               DEF OpHolds, SendHolds, Preparing, Unstarted, Keeping, Contested, Swapping, Completed, Empty
          <6> QED
            BY <1>2, <2>1, <4>2, <4>3, <5>1, <5>2, <6>1, Kinds DEF OpHolds, SendHolds
        <5>3. CASE o \in Receives
          <6>1. ops[o].state \in {"securing", "recoverable"}
            BY <1>1, <3>2, <5>1, <5>3, Kinds
               DEF OpHolds, ReceiveHolds, Unstarted, Keeping, Contested, Swapping, Completed, Empty
          <6> QED
            BY <1>2, <2>1, <4>2, <4>3, <5>1, <5>3, <6>1, Kinds DEF OpHolds, ReceiveHolds
        <5> QED
          BY <4>4, <5>2, <5>3
      <4>5. CASE o \in Outs
        <5>1. Untouched(o) /\ melts[o].state = "unpaid" /\ Dispatched(o) /\ ops[o].state \in {"pending", "unknown"}
          BY <1>1, <2>1, <3>2, <4>1, <4>2, <4>5, OutLive, OutIs DEF Swapping
        <5>2. Change(o) \notin signed'
          BY <2>1, <4>2, <5>1, Names DEF Untouched, Dispatched, Awaits
        <5>3. Dispatched(o)'
          BY <1>2, <2>1, <4>1, <4>3, <5>1, <5>2 DEF Dispatched, Returned, Swapping
        <5> QED
          BY <1>2, <2>1, <4>2, <4>3, <4>5, <5>1, <5>3, Kinds DEF OpHolds, OutHolds
      <4> QED
        BY <2>1, <4>4, <4>5 DEF Ops
    <3> QED
      BY <3>1, <3>2
  <2>4. signed \subseteq signed' /\ signed' \subseteq signed \cup Awaits(o)
        /\ spent \subseteq spent' /\ spent' \subseteq spent \cup Own(o) \cup given
    BY <2>1, <2>2
  <2>5. Steps(o)
    BY <1>1, <1>2, <2>1, <2>3, <2>4, MintMoves DEF RecordTypes
  <2> QED
    BY <2>5 DEF o
<1>5. CASE r.kind = "melt"
  <2> DEFINE melt == [state |-> "pending", inputs |-> r.inputs, outputs |-> r.outputs]
  <2>1. /\ o \in Outs /\ Live(r.inputs) /\ r.inputs # {} /\ melts[o].state = "unpaid"
        /\ r.inputs = ops[o].kept /\ r.outputs = ops[o].change
        /\ melts' = [melts EXCEPT ![o] = melt] /\ UNCHANGED <<quotes, signed, spent>>
    BY <1>5, Served
  <2>2. melt \in MeltRecord /\ melt.state = "pending" /\ melt.inputs = r.inputs /\ melt.outputs = r.outputs
    BY <1>1, <2>1 DEF MeltRecord, OpRecord
  <2> HIDE DEF o, melt
  <2>3. Untouched(o) /\ Dispatched(o) /\ ops[o].state \in {"dispatching", "pending", "unknown"}
    BY <1>1, <2>1, OutLive, OutIs
  <2>4. melts'[o] = melt /\ melts' \in [Outs -> MeltRecord] /\ \A q \in Outs \ {o} : melts'[q] = melts[q]
    BY <1>1, <2>1, <2>2 DEF RecordTypes
  <2>5. Dispatched(o)'
    BY <1>2, <2>1, <2>2, <2>3, <2>4 DEF Dispatched, Untouched, Awaits
  <2>6. OpHolds(o)'
    <3>1. ops[o].outputs = {} => ops[o].inputs = {} /\ drawn[o] = 0
      BY <1>1, <2>1, OutIs
    <3>2. ops[o].outputs # {} => Swapping(o)' /\ ops[o].state \in {"pending", "unknown"}
      BY <1>1, <1>2, <2>1, OutIs DEF Swapping
    <3> QED
      BY <1>1, <1>2, <2>1, <2>3, <2>5, <3>1, <3>2, Kinds DEF OpHolds, OutHolds
  <2>7. Steps(o)
    BY <1>1, <1>2, <2>1, <2>4, <2>6, Kinds, MintMoves DEF RecordTypes
  <2> QED
    BY <2>7 DEF o
<1> QED
  BY <1>3, <1>4, <1>5 DEF Requests

(* A quote is paid, and a melt ends.                                       *)
LEMMA PayStep == ASSUME ValueHolds, NEW o \in Adds, Pay(o) PROVE Steps(o)
<1>1. o \in Ops /\ RecordTypes /\ OpHolds(o) /\ AddHolds(o)
  BY Kinds, ValueIs, AddIs
<1>2. /\ UNCHANGED <<snapshot, drawn, given, melts, signed, spent>> /\ UNCHANGED <<held, ops>>
      /\ quotes[o] = "unpaid" /\ quotes' = [quotes EXCEPT ![o] = "paid"]
  BY DEF Pay, snapshot
<1>3. /\ quotes' \in [Adds -> {"unpaid", "paid", "issued"}] /\ melts' \in [Outs -> MeltRecord]
      /\ \A q \in Adds \ {o} : quotes'[q] = quotes[q]
      /\ \A q \in Outs \ {o} : melts'[q] = melts[q]
  BY <1>1, <1>2 DEF RecordTypes
<1>4. OpHolds(o)'
  BY <1>1, <1>2, <1>3, Kinds DEF OpHolds, AddHolds
<1> QED
  BY <1>1, <1>2, <1>3, <1>4, MintMoves

LEMMA ResolveStep == ASSUME ValueHolds, NEW o \in Outs, Resolve(o) PROVE Steps(o)
<1>1. o \in Ops /\ RecordTypes /\ OpHolds(o) /\ Balanced /\ ops[o] \in OpRecord
  BY Kinds, ValueIs
<1>2. UNCHANGED <<snapshot, drawn, given, quotes>> /\ UNCHANGED <<held, ops>> /\ melts[o].state = "pending"
  BY DEF Resolve, snapshot
<1>3. ops[o].kept # {}
  BY <1>1, <1>2, Kinds DEF OpHolds, OutHolds, Swapping
<1>4. /\ Dispatched(o) /\ ops[o].state \in {"dispatching", "pending", "unknown"}
      /\ ops[o].outputs = {} => ops[o].inputs = {} /\ drawn[o] = 0
      /\ ops[o].outputs # {} => Swapping(o) /\ ops[o].state \in {"pending", "unknown"}
  BY <1>1, <1>3, OutIs
<1>5. /\ Untouched(o) /\ ops[o].change = {Change(o)} /\ melts[o].inputs = ops[o].kept
      /\ melts[o].outputs = {Change(o)} /\ Own(o) = ops[o].kept
  BY <1>2, <1>4 DEF Dispatched, PaidOut, Returned, Own
<1>6. Secured(o) \notin signed
  BY <1>1, <1>4, <1>5, Kinds DEF OpHolds, Untouched, Awaits, Swapping
<1>7. /\ melts' \in [Outs -> MeltRecord] /\ \A q \in Outs \ {o} : melts'[q] = melts[q]
      /\ melts'[o].inputs = melts[o].inputs /\ melts'[o].outputs = melts[o].outputs
      /\ \/ /\ melts'[o].state = "paid" /\ spent' = spent \cup ops[o].kept
            /\ signed' \in {signed, signed \cup {Change(o)}}
         \/ melts'[o].state = "unpaid" /\ UNCHANGED <<signed, spent>>
  BY <1>1, <1>5 DEF Resolve, RecordTypes, MeltRecord
<1>8. Dispatched(o)' /\ Secured(o) \notin signed' /\ Fresh(o, 1) \notin signed'
  <2>1. Secured(o) \notin signed' /\ Fresh(o, 1) \notin signed'
    BY <1>1, <1>6, <1>7, Names, NamesAre DEF OpHolds
  <2>2. CASE melts'[o].state = "paid"
    <3>1. PaidOut(o)'
      BY <1>2, <1>7, <2>1, <2>2 DEF PaidOut
    <3> QED
      BY <1>2, <1>5, <2>1, <2>2, <3>1 DEF Dispatched
  <2>3. CASE melts'[o].state = "unpaid"
    <3>1. Untouched(o)'
      BY <1>2, <1>5, <1>7, <2>3 DEF Untouched, Awaits
    <3> QED
      BY <1>2, <1>5, <2>1, <2>3, <3>1 DEF Dispatched
  <2> QED
    BY <1>7, <2>2, <2>3
<1>9. OpHolds(o)'
  <2>1. ops[o].outputs # {} => Swapping(o)'
    BY <1>2, <1>4 DEF Swapping
  <2> QED
    BY <1>2, <1>3, <1>4, <1>8, <2>1, Kinds DEF OpHolds, OutHolds
<1>10. /\ signed \subseteq signed' /\ signed' \subseteq signed \cup Awaits(o)
       /\ spent \subseteq spent' /\ spent' \subseteq spent \cup Own(o) \cup given
  BY <1>5, <1>7 DEF Awaits
<1> QED
  BY <1>1, <1>2, <1>7, <1>9, <1>10, Kinds, MintMoves DEF RecordTypes

(* Somebody spends a proof they were shown.                                *)
LEMMA SpendStep == ASSUME ValueHolds, LateHolds, NEW p, Spend(p) PROVE ValueHolds' /\ LateHolds'
<1>1. p \in given /\ p \in signed /\ spent' = spent \cup {p}
      /\ UNCHANGED <<snapshot, run, drawn, given, quotes, melts, signed, late, faults>>
  BY DEF Spend, Live
<1>2. UNCHANGED <<held, ops>> /\ Spendable' = Spendable
  BY <1>1, SameBalance DEF snapshot
<1>3. CASE Ops = {}
  <2>1. RecordTypes' /\ BalanceHolds'
    BY <1>1, <1>2, <1>3, Kinds DEF ValueHolds, RecordTypes, BalanceHolds, Placed
  <2> QED
    BY <1>1, <1>2, <1>3, <2>1 DEF ValueHolds, LateHolds, Requests
<1>4. ASSUME NEW o \in Ops PROVE ValueHolds' /\ LateHolds'
  <2>1. RecordTypes /\ Apart(o)
    BY ValueIs
  <2>2. OpHolds(o)'
    BY <1>1, <1>2, <2>1, HoldsStill DEF Apart
  <2>3. Steps(o)
    BY <1>1, <2>1, <2>2, MintMoves DEF RecordTypes
  <2> QED
    BY <1>1, <2>3, SameLate DEF Steps
<1> QED
  BY <1>3, <1>4
-----------------------------------------------------------------------------
(* Requests: what a handler sends is what its record would send again.     *)
LEMMA RequestIs ==
  ASSUME NEW kind \in {"issue", "melt", "swap"}, NEW o \in Ops, NEW inputs \in SUBSET Proofs,
         NEW outputs \in SUBSET Proofs
  PROVE  LET r == Request(kind, o, inputs, outputs) IN
         /\ r \in Requests /\ r.kind = kind /\ r.op = o /\ r.inputs = inputs /\ r.outputs = outputs
BY DEF Request, Requests

LEMMA SendRequestHolds ==
  ASSUME ValueHolds, NEW o \in Sends, ops[o].kept = {}, ops[o].outputs # {}
  PROVE  LET r == SendRequest(ops[o], o) IN
         /\ r \in Requests /\ RequestHolds(r) /\ r.op = o /\ r.kind = "swap"
<1>1. o \in Ops /\ ops[o] \in OpRecord /\ Preparing(o)
  BY Kinds, ValueIs, SendIs
<1>2. ops[o].inputs \in SUBSET Proofs /\ ops[o].outputs \cup ops[o].change \in SUBSET Proofs
  BY <1>1 DEF OpRecord
<1>3. ops[o].inputs # {} /\ SwapOutputs(o) = ops[o].outputs \cup ops[o].change
  BY <1>1 DEF Preparing, SwapOutputs, Awaits
<1>4. "swap" \in {"issue", "melt", "swap"}
  OBVIOUS
<1> DEFINE r == SendRequest(ops[o], o)
<1>5. r \in Requests /\ r.kind = "swap" /\ r.op = o /\ r.inputs = ops[o].inputs
      /\ r.outputs = ops[o].outputs \cup ops[o].change
  BY <1>1, <1>2, <1>4, RequestIs DEF SendRequest
<1> HIDE DEF r
<1>6. RequestHolds(r)
  BY <1>1, <1>3, <1>5, Kinds DEF RequestHolds
<1> QED
  BY <1>5, <1>6 DEF r

LEMMA SwapRequestHolds ==
  ASSUME ValueHolds, NEW o \in Ops \ Adds, ops[o].kept # {}, ops[o].outputs # {}
  PROVE  LET r == SwapRequest(ops[o], o) IN
         /\ r \in Requests /\ RequestHolds(r) /\ r.op = o /\ r.kind = "swap"
<1>1. OpHolds(o) /\ ops[o] \in OpRecord
  BY ValueIs
<1>2. Swapping(o)
  BY <1>1, SendIs, ReceiveIs, OutIs DEF Ops, Contested
<1>3. ops[o].inputs \in SUBSET Proofs /\ ops[o].outputs \in SUBSET Proofs
  BY <1>1 DEF OpRecord
<1>4. ops[o].inputs # {} /\ SwapOutputs(o) = ops[o].outputs
  BY <1>2 DEF Swapping, SwapOutputs
<1>5. "swap" \in {"issue", "melt", "swap"}
  OBVIOUS
<1> DEFINE r == SwapRequest(ops[o], o)
<1>6. r \in Requests /\ r.kind = "swap" /\ r.op = o /\ r.inputs = ops[o].inputs
      /\ r.outputs = ops[o].outputs
  BY <1>3, <1>5, RequestIs DEF SwapRequest
<1> HIDE DEF r
<1>7. RequestHolds(r)
  BY <1>4, <1>6 DEF RequestHolds
<1> QED
  BY <1>6, <1>7 DEF r

LEMMA IssueRequestHolds ==
  ASSUME ValueHolds, NEW o \in Adds, ops[o].outputs # {}
  PROVE  LET r == IssueRequest(ops[o], o) IN
         /\ r \in Requests /\ RequestHolds(r) /\ r.op = o /\ r.kind = "issue"
<1>1. o \in Ops /\ ops[o] \in OpRecord /\ AddHolds(o)
  BY Kinds, ValueIs, AddIs
<1>2. ops[o].outputs = {Secured(o)} /\ ops[o].outputs \in SUBSET Proofs /\ {} \in SUBSET Proofs
  BY <1>1 DEF AddHolds, OpRecord
<1>3. "issue" \in {"issue", "melt", "swap"}
  OBVIOUS
<1> DEFINE r == IssueRequest(ops[o], o)
<1>4. r \in Requests /\ r.kind = "issue" /\ r.op = o /\ r.inputs = {} /\ r.outputs = ops[o].outputs
  BY <1>1, <1>2, <1>3, RequestIs DEF IssueRequest
<1> HIDE DEF r
<1>5. RequestHolds(r)
  BY <1>2, <1>4 DEF RequestHolds
<1> QED
  BY <1>4, <1>5 DEF r

LEMMA MeltRequestHolds ==
  ASSUME ValueHolds, NEW o \in Outs, ops[o].kept # {}
  PROVE  LET r == MeltRequest(ops[o], o) IN
         /\ r \in Requests /\ RequestHolds(r) /\ r.op = o /\ r.kind = "melt"
<1>1. o \in Ops /\ ops[o] \in OpRecord
  BY Kinds, ValueIs
<1>2. ops[o].kept \in SUBSET Proofs /\ ops[o].change \in SUBSET Proofs
  BY <1>1 DEF OpRecord
<1>3. "melt" \in {"issue", "melt", "swap"}
  OBVIOUS
<1> DEFINE r == MeltRequest(ops[o], o)
<1>4. r \in Requests /\ r.kind = "melt" /\ r.op = o /\ r.inputs = ops[o].kept
      /\ r.outputs = ops[o].change
  BY <1>1, <1>2, <1>3, RequestIs DEF MeltRequest
<1> HIDE DEF r
<1>5. RequestHolds(r)
  BY <1>1, <1>4, Kinds DEF RequestHolds
<1> QED
  BY <1>4, <1>5 DEF r
-----------------------------------------------------------------------------
(* The invariant after a step of one operation, by what its handler does.  *)
LEMMA Counted == ASSUME RunsHold, UNCHANGED faults \/ Fault PROVE faults' \in 0 .. MaxFaults
BY WalletAssumption DEF RunsHold, RunTypes, Fault

LEMMA AllIdle == ASSUME NEW o, \A w \in Handlers : run[w][o] = Idle PROVE \A w \in Handlers : Alone(w, o)
BY DEF Alone

LEMMA FreeIsIdle ==
  ASSUME WalletInv, NEW o \in Ops, Free(o) PROVE \A w \in Handlers : run[w][o] = Idle
BY DEF WalletInv, Free, At, Handlers, RunsHold, RunHolds

LEMMA Stayed ==
  ASSUME WalletInv, NEW o \in Ops, Steps(o), LateHolds', UNCHANGED run,
         ops'[o] = ops[o] \/ \A w \in Handlers : run[w][o] = Idle, UNCHANGED faults \/ Fault
  PROVE  WalletInv'
<1>1. faults' \in 0 .. MaxFaults /\ \A q \in Ops \ {o} : ops'[q] = ops[q]
  BY Counted DEF WalletInv, Steps, Touches
<1> QED
  BY <1>1, RunStays DEF WalletInv, Steps

LEMMA Ended ==
  ASSUME WalletInv, NEW w \in Handlers, NEW o \in Ops, Steps(o), LateHolds', Done(w, o), Alone(w, o),
         UNCHANGED faults \/ Fault
  PROVE  WalletInv'
<1>1. faults' \in 0 .. MaxFaults /\ \A q \in Ops \ {o} : ops'[q] = ops[q]
  BY Counted DEF WalletInv, Steps, Touches
<1>2. Idle \in [at : Places, seen : OpRecord] /\ Idle.at = "idle"
  BY StatesAre DEF Idle, Blank, Places, OpRecord
<1>3. RunTo(w, o, Idle) /\ PlaceHolds(w, o, "idle")'
  BY DEF Done, RunTo, PlaceHolds
<1> QED
  BY <1>1, <1>2, <1>3, RunStep DEF WalletInv, Steps

LEMMA Went ==
  ASSUME WalletInv, NEW w \in Handlers, NEW o \in Ops, Steps(o), LateHolds',
         NEW place \in Places \ {"idle"}, Goto(w, o, place, ops'[o]), Alone(w, o),
         ops'[o].state # "none", PlaceHolds(w, o, place)', UNCHANGED faults \/ Fault
  PROVE  WalletInv'
<1> DEFINE next == [at |-> place, seen |-> ops'[o]]
<1>1. faults' \in 0 .. MaxFaults /\ \A q \in Ops \ {o} : ops'[q] = ops[q]
  BY Counted DEF WalletInv, Steps, Touches
<1>2. ops'[o] \in OpRecord
  BY DEF Steps, ValueHolds, RecordTypes
<1>3. RunTo(w, o, next) /\ next \in [at : Places, seen : OpRecord] /\ next.at = place /\ next.seen = ops'[o]
  BY <1>2 DEF Goto, RunTo
<1> HIDE DEF next
<1> QED
  BY <1>1, <1>3, RunStep DEF WalletInv, Steps

LEMMA Moved ==
  ASSUME WalletInv, NEW w \in Handlers, NEW o \in Ops, Steps(o), LateHolds',
         run[w][o].at # "idle", UNCHANGED ops,
         NEW place \in Places \ {"idle"}, Stay(w, o, place),
         PlaceHolds(w, o, place), UNCHANGED faults \/ Fault
  PROVE  WalletInv'
<1>1. run[w][o].seen = ops[o] /\ ops[o].state # "none" /\ Alone(w, o)
  BY AtWork DEF WalletInv
<1>2. Goto(w, o, place, ops'[o])
  <2>1. run[w][o] \in [at : Places, seen : OpRecord]
    BY DEF WalletInv, RunsHold, RunTypes
  <2>2. [run[w][o] EXCEPT !.at = place] = [at |-> place, seen |-> ops'[o]]
    BY <1>1, <2>1
  <2>3. run' = [run EXCEPT ![w] = [run[w] EXCEPT ![o] = [run[w][o] EXCEPT !.at = place]]]
    BY DEF Stay
  <2> QED
    BY <2>2, <2>3 DEF Goto
<1>3. ops'[o].state # "none" /\ PlaceHolds(w, o, place)'
  BY <1>1, SameRun
<1> QED
  BY <1>1, <1>2, <1>3, Went

(* A handler at work has the record that is stored.                        *)
LEMMA AtIs ==
  ASSUME WalletInv, NEW w \in Handlers, NEW o \in Ops, NEW place, At(w, o, place), place # "idle"
  PROVE  /\ run[w][o].at # "idle" /\ run[w][o].seen = ops[o] /\ ops[o].state # "none"
         /\ Alone(w, o) /\ PlaceHolds(w, o, place)
BY AtWork DEF At, WalletInv

LEMMA NewIsAlone ==
  ASSUME WalletInv, NEW o \in Ops, New(o)
  PROVE  ops[o].state = "none" /\ \A w \in Handlers : run[w][o] = Idle /\ Alone(w, o)
BY NewIsIdle, AllIdle DEF New, WalletInv

LEMMA LateSame ==
  ASSUME WalletInv, NEW o \in Ops, Steps(o), UNCHANGED late PROVE LateHolds'
BY SameLate DEF WalletInv, Steps

LEMMA Unserved ==
  ASSUME NEW r, Refused(r) \/ GivenUp(r)
  PROVE  UNCHANGED mint /\ (UNCHANGED faults \/ Fault) /\ (UNCHANGED late \/ late' = late \cup {r})
BY DEF Refused, GivenUp

LEMMA LateUnserved ==
  ASSUME WalletInv, NEW o \in Ops, Steps(o), NEW r \in Requests, RequestHolds(r),
         Refused(r) \/ GivenUp(r)
  PROVE  LateHolds'
BY Unserved, SameLate, OneMoreLate DEF WalletInv, Steps

LEMMA HandlersAre == "make" \in Handlers /\ "refresh" \in Handlers
BY DEF Handlers
-----------------------------------------------------------------------------
(* Outgoing tokens.                                                        *)
LEMMA CreateOfflineHolds ==
  ASSUME WalletInv, NEW o \in Sends, NEW send \in Selections, CreateOffline(o, send)
  PROVE  WalletInv'
<1>1. o \in Ops /\ ValueHolds /\ ops[o].state = "none" /\ \A w \in Handlers : run[w][o] = Idle
  BY Kinds, NewIsAlone DEF CreateOffline, WalletInv
<1>2. Steps(o)
  BY <1>1, OfflineStep DEF CreateOffline
<1> QED
  BY <1>1, <1>2, LateSame, Stayed DEF CreateOffline

LEMMA CreateOutgoingHolds ==
  ASSUME WalletInv, NEW o \in Sends, NEW send \in Selections, CreateOutgoing(o, send)
  PROVE  WalletInv'
<1>1. o \in Ops /\ ValueHolds /\ ops[o].state = "none" /\ Alone("make", o)
  BY Kinds, NewIsAlone, HandlersAre DEF CreateOutgoing, WalletInv
<1>2. /\ Steps(o) /\ ops'[o] = PreparedSend(o, send)
      /\ ops'[o].state # "none" /\ ops'[o].kept = {} /\ ops'[o].outputs # {}
  BY <1>1, PrepareStep DEF CreateOutgoing
<1>3. PlaceHolds("make", o, "sending")' /\ Goto("make", o, "sending", ops'[o]) /\ "sending" \in Places \ {"idle"}
  BY <1>2 DEF PlaceHolds, CreateOutgoing, Places
<1> QED
  BY <1>1, <1>2, <1>3, LateSame, Went, HandlersAre DEF CreateOutgoing

LEMMA SendingHolds ==
  ASSUME WalletInv, NEW o \in Sends, NEW w \in Handlers, Send(w, o) PROVE WalletInv'
<1> DEFINE r == SendRequest(ops[o], o)
<1>1. o \in Ops /\ ValueHolds
  BY Kinds DEF WalletInv
<1>2. /\ run[w][o].at # "idle" /\ run[w][o].seen = ops[o] /\ Alone(w, o)
      /\ ops[o].kept = {} /\ ops[o].outputs # {}
  <2>1. At(w, o, "sending")
    BY DEF Send
  <2>2. /\ run[w][o].at # "idle" /\ run[w][o].seen = ops[o] /\ ops[o].state # "none"
        /\ Alone(w, o) /\ PlaceHolds(w, o, "sending")
    BY <1>1, <2>1, AtIs
  <2> QED
    BY <1>1, <2>2 DEF PlaceHolds
<1>3. r \in Requests /\ RequestHolds(r) /\ r.op = o /\ r.kind = "swap"
  BY <1>1, <1>2, SendRequestHolds
<1>4. UNCHANGED drawn
  BY DEF Send
<1>5. \/ Answered(r) /\ Ready(w, o, ops[o])
      \/ (Refused(r) \/ GivenUp(r)) /\ Stay(w, o, "restoring send") /\ UNCHANGED <<snapshot, given>>
  BY <1>2 DEF Send
<1> HIDE DEF r
<1>6. CASE Answered(r) /\ Ready(w, o, ops[o])
  <2>1. /\ r.inputs = ops[o].inputs /\ r.outputs = SwapOutputs(o)
        /\ signed' = signed \cup r.outputs /\ spent' = spent \cup r.inputs /\ UNCHANGED <<quotes, melts>>
    BY <1>1, <1>3, <1>6, Served DEF Answered
  <2>2. SwapOutputs(o) = Awaits(o)
    BY <1>2 DEF SwapOutputs
  <2>3. Steps(o)
    BY <1>1, <1>2, <1>4, <1>6, <2>1, <2>2, ReadyStep DEF Ready
  <2> QED
    BY <1>1, <1>2, <1>6, <2>3, LateSame, Ended DEF Answered, Ready
<1>7. CASE (Refused(r) \/ GivenUp(r)) /\ Stay(w, o, "restoring send") /\ UNCHANGED <<snapshot, given>>
  <2>1. Steps(o)
    BY <1>1, <1>4, <1>7, Unserved, Nothing
  <2>2. PlaceHolds(w, o, "restoring send") /\ "restoring send" \in Places \ {"idle"}
    BY <1>2 DEF PlaceHolds, Places
  <2> QED
    BY <1>1, <1>2, <1>3, <1>7, <2>1, <2>2, LateUnserved, Unserved, Moved DEF snapshot
<1> QED
  BY <1>5, <1>6, <1>7

LEMMA RestoreSendHolds ==
  ASSUME WalletInv, NEW o \in Sends, NEW w \in Handlers, RestoreSend(w, o) PROVE WalletInv'
<1>1. o \in Ops /\ ValueHolds
  BY Kinds DEF WalletInv
<1>2. /\ run[w][o].at # "idle" /\ run[w][o].seen = ops[o] /\ Alone(w, o)
      /\ ops[o].kept = {} /\ ops[o].outputs # {}
  <2>1. At(w, o, "restoring send")
    BY DEF RestoreSend
  <2>2. /\ run[w][o].at # "idle" /\ run[w][o].seen = ops[o] /\ ops[o].state # "none"
        /\ Alone(w, o) /\ PlaceHolds(w, o, "restoring send")
    BY <1>1, <2>1, AtIs
  <2> QED
    BY <1>1, <2>2 DEF PlaceHolds
<1>3. UNCHANGED <<drawn, mint, late>>
  BY DEF RestoreSend
<1>4. \/ Restored(ops[o].outputs \cup ops[o].change) /\ Ready(w, o, ops[o])
      \/ /\ NotRestored(ops[o].outputs \cup ops[o].change)
         /\ Persist(o, [ops[o] EXCEPT !.state = "recovery_required"])
         /\ Done(w, o) /\ UNCHANGED <<held, given>>
  BY <1>2 DEF RestoreSend
<1>5. CASE Restored(ops[o].outputs \cup ops[o].change) /\ Ready(w, o, ops[o])
  <2>1. Awaits(o) \subseteq signed /\ UNCHANGED faults
    BY <1>5 DEF Restored, Matched, RestoreResponse, Awaits
  <2>2. Preparing(o)
    BY <1>1, <1>2, ValueIs, SendIs
  <2>3. ops[o].inputs \subseteq spent
    BY <2>1, <2>2 DEF Preparing, Awaits
  <2>4. signed' = signed \cup Awaits(o) /\ spent' = spent \cup ops[o].inputs /\ UNCHANGED <<quotes, melts>>
    BY <1>3, <2>1, <2>3 DEF mint
  <2>5. Steps(o)
    BY <1>1, <1>2, <1>3, <1>5, <2>4, ReadyStep DEF Ready
  <2> QED
    BY <1>1, <1>2, <1>3, <1>5, <2>1, <2>5, LateSame, Ended DEF Ready
<1>6. CASE /\ NotRestored(ops[o].outputs \cup ops[o].change)
           /\ Persist(o, [ops[o] EXCEPT !.state = "recovery_required"])
           /\ Done(w, o) /\ UNCHANGED <<held, given>>
  <2>1. Fits(o, "recovery_required") /\ (UNCHANGED faults \/ Fault)
    BY <1>2, <1>6 DEF Fits, NotRestored
  <2>2. Steps(o)
    BY <1>1, <1>3, <1>6, <2>1, Restate
  <2> QED
    BY <1>1, <1>2, <1>3, <1>6, <2>1, <2>2, LateSame, Ended
<1> QED
  BY <1>4, <1>5, <1>6

LEMMA AskTokenHolds == ASSUME WalletInv, NEW o \in Sends, AskToken(o) PROVE WalletInv'
<1>1. o \in Ops /\ ValueHolds
  BY Kinds DEF WalletInv
<1>2. /\ run["refresh"][o].seen = ops[o] /\ Alone("refresh", o)
      /\ ops[o].kept # {} /\ ops[o].outputs = {}
  <2>1. At("refresh", o, "asking")
    BY DEF AskToken
  <2>2. /\ run["refresh"][o].at # "idle" /\ run["refresh"][o].seen = ops[o] /\ ops[o].state # "none"
        /\ Alone("refresh", o) /\ PlaceHolds("refresh", o, "asking")
    BY <1>1, <2>1, AtIs, HandlersAre
  <2> QED
    BY <1>1, <2>2 DEF PlaceHolds
<1>3. Done("refresh", o) /\ UNCHANGED <<held, drawn, given, mint, late>>
  BY DEF AskToken
<1>4. ASSUME ops[o].kept \subseteq spent, Persist(o, [ops[o] EXCEPT !.state = "accepted", !.kept = {}])
      PROVE  Steps(o)
  BY <1>1, <1>2, <1>3, <1>4, LetGo
<1>5. ASSUME Persist(o, [ops[o] EXCEPT !.state = "recovery_required"]) PROVE Steps(o)
  <2>1. Fits(o, "recovery_required")
    BY <1>2 DEF Fits
  <2> QED
    BY <1>1, <1>3, <1>5, <2>1, Restate
<1>6. ASSUME UNCHANGED ops PROVE Steps(o)
  BY <1>1, <1>3, <1>6, Nothing DEF snapshot
<1>7. Steps(o) /\ (UNCHANGED faults \/ Fault)
  BY <1>2, <1>4, <1>5, <1>6 DEF AskToken, Elsewhere
<1> QED
  BY <1>1, <1>2, <1>3, <1>7, LateSame, Ended, HandlersAre

LEMMA ReclaimHolds == ASSUME WalletInv, NEW o \in Sends, Reclaim(o) PROVE WalletInv'
<1>1. o \in Ops /\ ValueHolds /\ Alone("refresh", o)
  BY Kinds, FreeIsIdle, AllIdle, HandlersAre DEF Reclaim, WalletInv
<1>2. Steps(o) /\ UNCHANGED ops
  BY <1>1, Nothing DEF Reclaim, snapshot
<1>3. /\ PlaceHolds("refresh", o, "reclaiming")' /\ Goto("refresh", o, "reclaiming", ops'[o])
      /\ ops'[o].state # "none" /\ "reclaiming" \in Places \ {"idle"}
  BY <1>2 DEF Reclaim, PlaceHolds, Places
<1> QED
  BY <1>1, <1>2, <1>3, LateSame, Went, HandlersAre DEF Reclaim

(* A swap of what the record keeps is stored and on its way.               *)
LEMMA SecureHolds ==
  ASSUME WalletInv, NEW o \in Ops \ Adds, ops[o].kept # {}, ops[o].outputs = {},
         Alone("refresh", o), Secure(o, SecuringState(o), ops[o]),
         UNCHANGED <<held, given, mint, late>>, UNCHANGED faults \/ Fault
  PROVE  WalletInv'
<1>1. /\ Steps(o) /\ ops'[o].kept # {} /\ ops'[o].outputs # {} /\ ops'[o].state # "none"
  BY SecureStep DEF WalletInv
<1>2. /\ PlaceHolds("refresh", o, "swapping")' /\ "swapping" \in Places \ {"idle"}
  BY <1>1 DEF PlaceHolds, Places
<1>3. Goto("refresh", o, "swapping", ops'[o])
  <2> DEFINE swap == [PreparedReceive(o, ops[o]) EXCEPT !.state = SecuringState(o)]
  <2>1. Persist(o, swap) /\ Goto("refresh", o, "swapping", swap)
    BY DEF Secure
  <2>2. ops'[o] = swap
    BY <2>1 DEF Persist, WalletInv, ValueHolds, RecordTypes
  <2> QED
    BY <2>1, <2>2
<1> QED
  BY <1>1, <1>2, <1>3, LateSame, Went, HandlersAre

LEMMA CheckReclaimHolds == ASSUME WalletInv, NEW o \in Sends, CheckReclaim(o) PROVE WalletInv'
<1>1. o \in Ops \ Adds /\ ValueHolds
  BY Kinds DEF WalletInv
<1>2. /\ run["refresh"][o].seen = ops[o] /\ Alone("refresh", o)
      /\ ops[o].kept # {} /\ ops[o].outputs = {}
  <2>1. At("refresh", o, "reclaiming")
    BY DEF CheckReclaim
  <2>2. /\ run["refresh"][o].at # "idle" /\ run["refresh"][o].seen = ops[o] /\ ops[o].state # "none"
        /\ Alone("refresh", o) /\ PlaceHolds("refresh", o, "reclaiming")
    BY <1>1, <2>1, AtIs, HandlersAre
  <2> QED
    BY <1>1, <2>2 DEF PlaceHolds
<1>3. UNCHANGED <<held, given, mint, late>>
  BY DEF CheckReclaim
<1>4. CASE Secure(o, "reclaiming", ops[o]) /\ UNCHANGED faults
  BY <1>1, <1>2, <1>3, <1>4, SecureHolds DEF SecuringState
<1>5. CASE /\ ops[o].kept \subseteq spent /\ Persist(o, [ops[o] EXCEPT !.state = "accepted", !.kept = {}])
           /\ Done("refresh", o) /\ UNCHANGED <<drawn, faults>>
  <2>1. Steps(o)
    BY <1>1, <1>2, <1>3, <1>5, LetGo
  <2> QED
    BY <1>1, <1>2, <1>3, <1>5, <2>1, LateSame, Ended, HandlersAre
<1>6. CASE (Elsewhere(ops[o].kept) \/ Fault) /\ Done("refresh", o) /\ UNCHANGED <<ops, drawn>>
  <2>1. Steps(o) /\ (UNCHANGED faults \/ Fault)
    BY <1>1, <1>3, <1>6, Nothing DEF snapshot, Elsewhere
  <2> QED
    BY <1>1, <1>2, <1>3, <1>6, <2>1, LateSame, Ended, HandlersAre
<1> QED
  BY <1>2, <1>4, <1>5, <1>6 DEF CheckReclaim
-----------------------------------------------------------------------------
(* Incoming tokens.                                                        *)
LEMMA ReceiveTokenHolds ==
  ASSUME WalletInv, NEW o \in Receives,
         NEW token \in {{Incoming(o)}} \cup {ops[s].kept : s \in Sends}, ReceiveToken(o, token)
  PROVE  WalletInv'
<1> DEFINE r == [Blank EXCEPT !.kept = token]
<1>1. o \in Ops /\ ValueHolds /\ ops[o].state = "none" /\ Alone("refresh", o)
  BY Kinds, NewIsAlone, HandlersAre DEF ReceiveToken, WalletInv
<1>2. r.outputs = {}
  BY DEF Blank
<1>3. Persist(o, [r EXCEPT !.state = "checking"])
      /\ Goto("refresh", o, "checking token", [r EXCEPT !.state = "checking"])
  BY <1>2 DEF ReceiveToken, BeginSettle
<1>4. ops'[o] = [r EXCEPT !.state = "checking"]
  BY <1>1, <1>3 DEF Persist, ValueHolds, RecordTypes
<1>5. /\ Steps(o) /\ ops'[o].kept # {} /\ ops'[o].outputs = {} /\ ops'[o].state # "none"
  BY <1>1, <1>3, ReceiveStep DEF ReceiveToken
<1>6. PlaceHolds("refresh", o, "checking token")' /\ "checking token" \in Places \ {"idle"}
  BY <1>5 DEF PlaceHolds, Places
<1> QED
  BY <1>1, <1>3, <1>4, <1>5, <1>6, LateSame, Went, HandlersAre DEF ReceiveToken

LEMMA CheckTokenHolds == ASSUME WalletInv, NEW o \in Receives, CheckToken(o) PROVE WalletInv'
<1>1. o \in Ops \ Adds /\ o \notin Sends /\ ValueHolds
  BY Kinds DEF WalletInv
<1>2. /\ run["refresh"][o].seen = ops[o] /\ Alone("refresh", o)
      /\ ops[o].kept # {} /\ ops[o].outputs = {}
  <2>1. At("refresh", o, "checking token")
    BY DEF CheckToken
  <2>2. /\ run["refresh"][o].at # "idle" /\ run["refresh"][o].seen = ops[o] /\ ops[o].state # "none"
        /\ Alone("refresh", o) /\ PlaceHolds("refresh", o, "checking token")
    BY <1>1, <2>1, AtIs, HandlersAre
  <2> QED
    BY <1>1, <2>2 DEF PlaceHolds
<1>3. UNCHANGED <<held, given, mint, late>>
  BY DEF CheckToken
<1>4. CASE Secure(o, "securing", ops[o]) /\ UNCHANGED faults
  BY <1>1, <1>2, <1>3, <1>4, SecureHolds DEF SecuringState
<1>5. ASSUME NEW state \in {"failed", "recoverable"}, Persist(o, [ops[o] EXCEPT !.state = state]),
             Done("refresh", o), UNCHANGED drawn, UNCHANGED faults \/ Fault
      PROVE  WalletInv'
  <2>1. Fits(o, state)
    BY <1>2 DEF Fits
  <2>2. Steps(o)
    BY <1>1, <1>3, <1>5, <2>1, Restate
  <2> QED
    BY <1>1, <1>2, <1>3, <1>5, <2>2, LateSame, Ended, HandlersAre
<1> QED
  BY <1>2, <1>4, <1>5 DEF CheckToken, Elsewhere

LEMMA DiscardHolds == ASSUME WalletInv, NEW o \in Receives, Discard(o) PROVE WalletInv'
<1>1. o \in Ops /\ o \notin Sends /\ ValueHolds /\ \A w \in Handlers : run[w][o] = Idle
  BY Kinds, FreeIsIdle DEF Discard, WalletInv
<1>2. Steps(o)
  BY <1>1, LetGo DEF Discard
<1> QED
  BY <1>1, <1>2, LateSame, Stayed DEF Discard
-----------------------------------------------------------------------------
(* Add cash.                                                               *)
LEMMA RequestAddHolds == ASSUME WalletInv, NEW o \in Adds, RequestAdd(o) PROVE WalletInv'
<1>1. o \in Ops /\ ValueHolds /\ ops[o].state = "none" /\ \A w \in Handlers : run[w][o] = Idle
  BY Kinds, NewIsAlone DEF RequestAdd, WalletInv
<1>2. ops[o] = Blank
  <2>1. Empty(ops[o]) /\ ops[o] \in OpRecord
    BY <1>1, ValueIs, NewIs
  <2> QED
    BY <1>1, <2>1 DEF Empty, OpRecord, Blank
<1>3. Fits(o, "awaiting_payment")
  BY <1>1 DEF Fits, AddStates
<1>4. Steps(o)
  BY <1>1, <1>2, <1>3, Restate DEF RequestAdd
<1> QED
  BY <1>1, <1>4, LateSame, Stayed DEF RequestAdd

LEMMA CheckQuoteHolds == ASSUME WalletInv, NEW o \in Adds, CheckQuote(o) PROVE WalletInv'
<1>1. o \in Ops /\ ValueHolds
  BY Kinds DEF WalletInv
<1>2. /\ run["refresh"][o].seen = ops[o] /\ Alone("refresh", o) /\ ops[o].state # "settled"
      /\ ops[o].state # "none"
  <2>1. At("refresh", o, "checking quote")
    BY DEF CheckQuote
  <2>2. /\ run["refresh"][o].at # "idle" /\ run["refresh"][o].seen = ops[o] /\ ops[o].state # "none"
        /\ Alone("refresh", o) /\ PlaceHolds("refresh", o, "checking quote")
    BY <1>1, <2>1, AtIs, HandlersAre
  <2> QED
    BY <1>1, <2>2 DEF PlaceHolds
<1>3. UNCHANGED <<held, drawn, given, mint, late>>
  BY DEF CheckQuote
<1>4. ASSUME NEW state \in {ops[o].state, "expired", "recoverable"},
             Persist(o, [ops[o] EXCEPT !.state = state]), Done("refresh", o), UNCHANGED faults \/ Fault
      PROVE  WalletInv'
  <2>1. Fits(o, state)
    BY <1>2 DEF Fits, AddStates
  <2>2. Steps(o)
    BY <1>1, <1>3, <1>4, <2>1, Restate
  <2> QED
    BY <1>1, <1>2, <1>3, <1>4, <2>2, LateSame, Ended, HandlersAre
<1>5. ASSUME NEW issuing, Steps(o), ops'[o].outputs # {}, ops'[o].state # "none", ops'[o] = issuing,
             Goto("refresh", o, "issuing", issuing), UNCHANGED faults
      PROVE  WalletInv'
  <2>1. PlaceHolds("refresh", o, "issuing")' /\ "issuing" \in Places \ {"idle"}
    BY <1>5 DEF PlaceHolds, Places
  <2>2. Goto("refresh", o, "issuing", ops'[o])
    BY <1>5
  <2> QED
    BY <1>1, <1>2, <1>3, <1>5, <2>1, <2>2, LateSame, Went, HandlersAre
<1>6. ASSUME NEW issuing, ops[o].outputs = {}, QuoteIsPaid(o), UNCHANGED faults,
             issuing = [PreparedMint(o, ops[o]) EXCEPT !.state = "issuing"],
             Persist(o, issuing), Goto("refresh", o, "issuing", issuing)
      PROVE  WalletInv'
  <2>1. Steps(o) /\ ops'[o].outputs # {} /\ ops'[o].state # "none"
    BY <1>1, <1>2, <1>3, <1>6, MintStep
  <2>2. ops'[o] = issuing
    BY <1>1, <1>6 DEF Persist, ValueHolds, RecordTypes
  <2> QED
    BY <1>5, <1>6, <2>1, <2>2
<1>7. ASSUME NEW issuing, ops[o].outputs # {}, UNCHANGED faults,
             issuing = [ops[o] EXCEPT !.state = "payment_observed"],
             Persist(o, issuing), Goto("refresh", o, "issuing", issuing)
      PROVE  WalletInv'
  <2>1. Fits(o, "payment_observed")
    BY <1>2 DEF Fits, AddStates
  <2>2. Steps(o) /\ ops'[o].state = "payment_observed"
    BY <1>1, <1>3, <1>7, <2>1, Restate
  <2>3. ops'[o] = issuing /\ issuing.outputs = ops[o].outputs
    BY <1>1, <1>7, ValueIs DEF Persist, ValueHolds, RecordTypes, OpRecord
  <2> QED
    BY <1>5, <1>7, <2>2, <2>3
<1> QED
  BY <1>2, <1>4, <1>6, <1>7 DEF CheckQuote

LEMMA IssueHolds == ASSUME WalletInv, NEW o \in Adds, Issue(o) PROVE WalletInv'
<1> DEFINE r == IssueRequest(ops[o], o)
<1>1. o \in Ops /\ ValueHolds /\ RecordTypes
  BY Kinds, ValueIs DEF WalletInv
<1>2. /\ run["refresh"][o].at # "idle" /\ run["refresh"][o].seen = ops[o] /\ Alone("refresh", o)
      /\ ops[o].outputs # {}
  <2>1. At("refresh", o, "issuing")
    BY DEF Issue
  <2>2. /\ run["refresh"][o].at # "idle" /\ run["refresh"][o].seen = ops[o] /\ ops[o].state # "none"
        /\ Alone("refresh", o) /\ PlaceHolds("refresh", o, "issuing")
    BY <1>1, <2>1, AtIs, HandlersAre
  <2> QED
    BY <1>1, <2>2 DEF PlaceHolds
<1>3. r \in Requests /\ RequestHolds(r) /\ r.op = o /\ r.kind = "issue"
  BY <1>1, <1>2, IssueRequestHolds
<1>4. UNCHANGED <<drawn, given>>
  BY DEF Issue
<1>5. \/ Answered(r) /\ Issued(o, ops[o])
      \/ (Refused(r) \/ GivenUp(r)) /\ Stay("refresh", o, "restoring add") /\ UNCHANGED snapshot
  BY <1>2 DEF Issue
<1> HIDE DEF r
<1>6. CASE Answered(r) /\ Issued(o, ops[o])
  <2>1. /\ quotes' = [quotes EXCEPT ![o] = "issued"] /\ ops[o].outputs = r.outputs
        /\ signed' = signed \cup r.outputs /\ UNCHANGED <<melts, spent>>
    BY <1>1, <1>3, <1>6, Served DEF Answered
  <2>2. quotes' \in [Adds -> {"unpaid", "paid", "issued"}] /\ quotes'[o] = "issued"
        /\ \A q \in Adds \ {o} : quotes'[q] = quotes[q]
    BY <1>1, <2>1 DEF RecordTypes
  <2>3. Steps(o)
    BY <1>1, <1>2, <1>4, <1>6, <2>1, <2>2, IssueStep DEF Issued
  <2> QED
    BY <1>1, <1>2, <1>6, <2>3, LateSame, Ended, HandlersAre DEF Answered, Issued
<1>7. CASE (Refused(r) \/ GivenUp(r)) /\ Stay("refresh", o, "restoring add") /\ UNCHANGED snapshot
  <2>1. Steps(o)
    BY <1>1, <1>4, <1>7, Unserved, Nothing
  <2>2. PlaceHolds("refresh", o, "restoring add") /\ "restoring add" \in Places \ {"idle"}
    BY <1>2 DEF PlaceHolds, Places
  <2> QED
    BY <1>1, <1>2, <1>3, <1>7, <2>1, <2>2, LateUnserved, Unserved, Moved, HandlersAre DEF snapshot
<1> QED
  BY <1>5, <1>6, <1>7

LEMMA RestoreAddHolds == ASSUME WalletInv, NEW o \in Adds, RestoreAdd(o) PROVE WalletInv'
<1>1. o \in Ops /\ ValueHolds /\ RecordTypes /\ AddHolds(o)
  BY Kinds, ValueIs, AddIs DEF WalletInv
<1>2. /\ run["refresh"][o].seen = ops[o] /\ Alone("refresh", o) /\ ops[o].outputs # {}
  <2>1. At("refresh", o, "restoring add")
    BY DEF RestoreAdd
  <2>2. /\ run["refresh"][o].at # "idle" /\ run["refresh"][o].seen = ops[o] /\ ops[o].state # "none"
        /\ Alone("refresh", o) /\ PlaceHolds("refresh", o, "restoring add")
    BY <1>1, <2>1, AtIs, HandlersAre
  <2> QED
    BY <1>1, <2>2 DEF PlaceHolds
<1>3. UNCHANGED <<drawn, given, mint, late>> /\ UNCHANGED <<quotes, melts, signed, spent>>
  BY DEF RestoreAdd, mint
<1>4. CASE Restored(ops[o].outputs) /\ Issued(o, ops[o])
  <2>1. ops[o].outputs \subseteq signed /\ UNCHANGED faults
    BY <1>4 DEF Restored, Matched, RestoreResponse
  <2>2. quotes'[o] = "issued" /\ signed' = signed \cup ops[o].outputs
    BY <1>1, <1>2, <1>3, <2>1 DEF AddHolds
  <2>3. Steps(o)
    BY <1>1, <1>2, <1>3, <1>4, <2>2, IssueStep DEF Issued, RecordTypes
  <2> QED
    BY <1>1, <1>2, <1>3, <1>4, <2>1, <2>3, LateSame, Ended, HandlersAre DEF Issued
<1>5. CASE /\ NotRestored(ops[o].outputs) /\ Persist(o, [ops[o] EXCEPT !.state = "recoverable"])
           /\ Done("refresh", o) /\ UNCHANGED held
  <2>1. Fits(o, "recoverable") /\ (UNCHANGED faults \/ Fault)
    BY <1>1, <1>2, <1>5 DEF Fits, NotRestored, AddHolds, AddStates
  <2>2. Steps(o)
    BY <1>1, <1>3, <1>5, <2>1, Restate
  <2> QED
    BY <1>1, <1>2, <1>3, <1>5, <2>1, <2>2, LateSame, Ended, HandlersAre
<1> QED
  BY <1>2, <1>4, <1>5 DEF RestoreAdd
-----------------------------------------------------------------------------
(* Cash out.                                                               *)
LEMMA ConfirmCashOutHolds ==
  ASSUME WalletInv, NEW o \in Outs, NEW send \in Selections, ConfirmCashOut(o, send)
  PROVE  WalletInv'
<1>1. o \in Ops /\ ValueHolds /\ ops[o].state = "none" /\ Alone("make", o)
  BY Kinds, NewIsAlone, HandlersAre DEF ConfirmCashOut, WalletInv
<1>2. /\ Steps(o) /\ ops'[o] = PreparedMelt(o, send) /\ ops'[o].state # "none" /\ ops'[o].kept # {}
  BY <1>1, DispatchStep DEF ConfirmCashOut
<1>3. PlaceHolds("make", o, "melting")' /\ Goto("make", o, "melting", ops'[o]) /\ "melting" \in Places \ {"idle"}
  BY <1>2 DEF PlaceHolds, ConfirmCashOut, Places
<1> QED
  BY <1>1, <1>2, <1>3, LateSame, Went, HandlersAre DEF ConfirmCashOut

LEMMA PaidHolds ==
  ASSUME WalletInv, NEW w \in Handlers, NEW o \in Outs, ops[o].kept # {}, melts[o].state = "paid",
         Alone(w, o), Paid(w, o, ops[o]), UNCHANGED <<drawn, given, mint, late, faults>>
  PROVE  WalletInv'
<1>1. o \in Ops /\ ValueHolds
  BY Kinds DEF WalletInv
<1>2. Steps(o)
  BY <1>1, PaidStep DEF Paid
<1> QED
  BY <1>1, <1>2, LateSame, Ended DEF Paid

LEMMA UnclearSteps ==
  ASSUME WalletInv, NEW w \in Handlers, NEW o \in Outs, NEW state \in {"pending", "unknown"},
         ops[o].kept # {}, Unclear(w, o, ops[o], state), UNCHANGED <<drawn, given, mint>>
  PROVE  Steps(o)
<1>1. o \in Ops /\ ValueHolds /\ Fits(o, state)
  BY Kinds DEF WalletInv, Fits
<1> QED
  BY <1>1, Restate DEF Unclear

LEMMA UnclearHolds ==
  ASSUME WalletInv, NEW w \in Handlers, NEW o \in Outs, NEW state \in {"pending", "unknown"},
         ops[o].kept # {}, Alone(w, o), Unclear(w, o, ops[o], state),
         UNCHANGED <<drawn, given, mint, late>>, UNCHANGED faults \/ Fault
  PROVE  WalletInv'
BY UnclearSteps, LateSame, Ended, Kinds DEF Unclear

LEMMA MeltHolds == ASSUME WalletInv, NEW o \in Outs, Melt(o) PROVE WalletInv'
<1> DEFINE r == MeltRequest(ops[o], o)
<1>1. o \in Ops /\ ValueHolds
  BY Kinds DEF WalletInv
<1>2. /\ run["make"][o].at # "idle" /\ run["make"][o].seen = ops[o] /\ Alone("make", o)
      /\ ops[o].kept # {}
  <2>1. At("make", o, "melting")
    BY DEF Melt
  <2>2. run["make"][o].at # "idle" /\ run["make"][o].seen = ops[o] /\ Alone("make", o)
        /\ PlaceHolds("make", o, "melting")
    BY <1>1, <2>1, AtIs, HandlersAre
  <2> QED
    BY <2>2 DEF PlaceHolds
<1>3. r \in Requests /\ RequestHolds(r) /\ r.op = o /\ r.kind = "melt"
  BY <1>1, <1>2, MeltRequestHolds
<1>4. UNCHANGED <<drawn, given>>
  BY DEF Melt
<1>5. \/ Answered(r) /\ Stay("make", o, "melted") /\ UNCHANGED snapshot
      \/ (Refused(r) \/ GivenUp(r)) /\ Unclear("make", o, ops[o], "unknown")
  BY <1>2 DEF Melt
<1> HIDE DEF r
<1>6. CASE Answered(r) /\ Stay("make", o, "melted") /\ UNCHANGED snapshot
  <2>1. Steps(o)
    BY <1>1, <1>3, <1>4, <1>6, ServeStep DEF Answered
  <2>2. PlaceHolds("make", o, "melted") /\ "melted" \in Places \ {"idle"}
    BY <1>2 DEF PlaceHolds, Places
  <2> QED
    BY <1>1, <1>2, <1>6, <2>1, <2>2, LateSame, Moved, HandlersAre DEF snapshot, Answered
<1>7. CASE (Refused(r) \/ GivenUp(r)) /\ Unclear("make", o, ops[o], "unknown")
  <2>1. Steps(o)
    BY <1>2, <1>4, <1>7, Unserved, UnclearSteps, HandlersAre
  <2> QED
    BY <1>1, <1>2, <1>3, <1>7, <2>1, LateUnserved, Unserved, Ended, HandlersAre DEF Unclear
<1> QED
  BY <1>5, <1>6, <1>7

LEMMA MeltAnswerHolds == ASSUME WalletInv, NEW o \in Outs, MeltAnswer(o) PROVE WalletInv'
<1>1. o \in Ops
  BY Kinds
<1>2. /\ run["make"][o].seen = ops[o] /\ Alone("make", o) /\ ops[o].kept # {}
  <2>1. At("make", o, "melted")
    BY DEF MeltAnswer
  <2>2. run["make"][o].at # "idle" /\ run["make"][o].seen = ops[o] /\ Alone("make", o)
        /\ PlaceHolds("make", o, "melted")
    BY <1>1, <2>1, AtIs, HandlersAre
  <2> QED
    BY <2>2 DEF PlaceHolds
<1>3. UNCHANGED <<drawn, given, mint, late>>
  BY DEF MeltAnswer
<1>4. CASE melts[o].state = "paid" /\ Paid("make", o, ops[o]) /\ UNCHANGED faults
  BY <1>2, <1>3, <1>4, PaidHolds, HandlersAre
<1>5. ASSUME NEW state \in {"pending", "unknown"}, Unclear("make", o, ops[o], state),
             UNCHANGED faults \/ Fault
      PROVE  WalletInv'
  BY <1>2, <1>3, <1>5, UnclearHolds, HandlersAre
<1> QED
  BY <1>2, <1>4, <1>5 DEF MeltAnswer

LEMMA CheckMeltHolds == ASSUME WalletInv, NEW o \in Outs, CheckMelt(o) PROVE WalletInv'
<1>1. o \in Ops /\ ValueHolds
  BY Kinds DEF WalletInv
<1>2. /\ run["refresh"][o].at # "idle" /\ run["refresh"][o].seen = ops[o]
      /\ Alone("refresh", o) /\ ops[o].kept # {}
  <2>1. At("refresh", o, "checking melt")
    BY DEF CheckMelt
  <2>2. /\ run["refresh"][o].at # "idle" /\ run["refresh"][o].seen = ops[o] /\ ops[o].state # "none"
        /\ Alone("refresh", o) /\ PlaceHolds("refresh", o, "checking melt")
    BY <1>1, <2>1, AtIs, HandlersAre
  <2> QED
    BY <1>1, <2>2 DEF PlaceHolds
<1>3. UNCHANGED <<drawn, given, mint, late>>
  BY DEF CheckMelt
<1>4. CASE melts[o].state = "paid" /\ Paid("refresh", o, ops[o]) /\ UNCHANGED faults
  BY <1>2, <1>3, <1>4, PaidHolds, HandlersAre
<1>5. ASSUME NEW state \in {"pending", "unknown"}, Unclear("refresh", o, ops[o], state),
             UNCHANGED faults \/ Fault
      PROVE  WalletInv'
  BY <1>2, <1>3, <1>5, UnclearHolds, HandlersAre
<1>6. ASSUME NEW place, place = IF ops[o].outputs = {} THEN "inspecting" ELSE "swapping",
             Stay("refresh", o, place), UNCHANGED <<snapshot, faults>>
      PROVE  WalletInv'
  <2>1. PlaceHolds("refresh", o, place) /\ place \in Places \ {"idle"}
    BY <1>1, <1>2, <1>6, Kinds DEF PlaceHolds, Places
  <2>2. Steps(o)
    BY <1>1, <1>3, <1>6, Nothing
  <2> QED
    BY <1>1, <1>2, <1>3, <1>6, <2>1, <2>2, LateSame, Moved, HandlersAre DEF snapshot
<1> QED
  BY <1>2, <1>4, <1>5, <1>6 DEF CheckMelt

LEMMA InspectHolds == ASSUME WalletInv, NEW o \in Outs, Inspect(o) PROVE WalletInv'
<1>1. o \in Ops \ Adds /\ o \notin Sends /\ o \notin Receives
  BY Kinds
<1>2. /\ run["refresh"][o].seen = ops[o] /\ Alone("refresh", o) /\ ops[o].kept # {} /\ ops[o].outputs = {}
  <2>1. At("refresh", o, "inspecting")
    BY DEF Inspect
  <2>2. /\ run["refresh"][o].at # "idle" /\ run["refresh"][o].seen = ops[o] /\ ops[o].state # "none"
        /\ Alone("refresh", o) /\ PlaceHolds("refresh", o, "inspecting")
    BY <1>1, <2>1, AtIs, HandlersAre
  <2> QED
    BY <1>1, <2>2 DEF PlaceHolds
<1>3. UNCHANGED <<given, mint, late>>
  BY DEF Inspect
<1>4. CASE Secure(o, "unknown", ops[o]) /\ UNCHANGED <<held, faults>>
  BY <1>1, <1>2, <1>3, <1>4, SecureHolds DEF SecuringState
<1>5. CASE Unclear("refresh", o, ops[o], "unknown") /\ UNCHANGED drawn /\ (UNCHANGED faults \/ Fault)
  BY <1>2, <1>3, <1>5, UnclearHolds, HandlersAre
<1> QED
  BY <1>2, <1>4, <1>5 DEF Inspect

LEMMA ResolveHolds == ASSUME WalletInv, NEW o \in Outs, Resolve(o) PROVE WalletInv'
<1>1. Steps(o) /\ o \in Ops
  BY ResolveStep, Kinds DEF WalletInv
<1> QED
  BY <1>1, LateSame, Stayed DEF Resolve, snapshot

LEMMA PayHolds == ASSUME WalletInv, NEW o \in Adds, Pay(o) PROVE WalletInv'
<1>1. Steps(o) /\ o \in Ops
  BY PayStep, Kinds DEF WalletInv
<1> QED
  BY <1>1, LateSame, Stayed DEF Pay, snapshot
-----------------------------------------------------------------------------
(* A refresh, and the swaps that a refresh completes.                      *)
LEMMA RefreshHolds == ASSUME WalletInv, NEW o \in Ops, Refresh(o) PROVE WalletInv'
<1>1. ValueHolds /\ OpHolds(o) /\ Alone("refresh", o) /\ ops[o].state \in Attention
  BY FreeIsIdle, AllIdle, HandlersAre, ValueIs DEF Refresh, WalletInv
<1>2. UNCHANGED <<held, drawn, given, mint, late, faults>> /\ ops[o].state # "none"
  BY <1>1 DEF Refresh, Attention
<1>3. ASSUME NEW place \in Places \ {"idle"}, Goto("refresh", o, place, ops[o]), UNCHANGED ops,
             PlaceHolds("refresh", o, place)
      PROVE  WalletInv'
  <2>1. Steps(o)
    BY <1>1, <1>2, <1>3, Nothing DEF snapshot
  <2>2. Goto("refresh", o, place, ops'[o]) /\ PlaceHolds("refresh", o, place)' /\ ops'[o].state # "none"
    BY <1>2, <1>3, SameRun
  <2> QED
    BY <1>1, <1>2, <1>3, <2>1, <2>2, LateSame, Went, HandlersAre
<1>4. ASSUME o \in Receives PROVE ops[o].kept # {}
  BY <1>1, <1>4, Kinds DEF OpHolds, ReceiveHolds, Attention, Contested, Swapping, Keeping
<1>5. CASE o \in Sends
  <2>1. CASE ops[o].outputs # {}
    <3> DEFINE place == IF ops[o].kept = {} THEN "sending" ELSE "swapping"
    <3>1. Goto("refresh", o, place, ops[o]) /\ UNCHANGED ops
      BY <1>5, <2>1, Kinds DEF Refresh
    <3>2. PlaceHolds("refresh", o, place) /\ place \in Places \ {"idle"}
      BY <1>5, <2>1, Kinds DEF PlaceHolds, Places
    <3> HIDE DEF place
    <3> QED
      BY <1>3, <3>1, <3>2
  <2>2. CASE ops[o].outputs = {}
    <3>1. Goto("refresh", o, "asking", ops[o]) /\ UNCHANGED ops /\ ops[o].kept # {}
      BY <1>5, <2>2, Kinds DEF Refresh
    <3>2. PlaceHolds("refresh", o, "asking") /\ "asking" \in Places \ {"idle"}
      BY <1>5, <2>2, <3>1, Kinds DEF PlaceHolds, Places
    <3> QED
      BY <1>3, <3>1, <3>2
  <2> QED
    BY <2>1, <2>2
<1>6. CASE o \in Receives
  <2>1. BeginSettle(o, ops[o])
    BY <1>6, Kinds DEF Refresh
  <2>2. CASE ops[o].outputs # {}
    <3>1. Goto("refresh", o, "swapping", ops[o]) /\ Persist(o, ops[o])
      BY <2>1, <2>2 DEF BeginSettle
    <3>2. UNCHANGED ops
      BY <1>1, <3>1 DEF Persist, ValueHolds, RecordTypes
    <3>3. PlaceHolds("refresh", o, "swapping") /\ "swapping" \in Places \ {"idle"}
      BY <1>4, <1>6, <2>2, Kinds DEF PlaceHolds, Places
    <3> QED
      BY <1>3, <3>1, <3>2, <3>3
  <2>3. CASE ops[o].outputs = {}
    <3> DEFINE checking == [ops[o] EXCEPT !.state = "checking"]
    <3>1. Goto("refresh", o, "checking token", checking) /\ Persist(o, checking)
      BY <2>1, <2>3 DEF BeginSettle
    <3>2. Fits(o, "checking")
      BY <1>4, <1>6, <2>3 DEF Fits
    <3>3. Steps(o) /\ ops'[o].state = "checking"
      BY <1>1, <1>2, <3>1, <3>2, Restate
    <3>4. ops'[o] = checking /\ checking.kept = ops[o].kept /\ checking.outputs = ops[o].outputs
      BY <1>1, <3>1, ValueIs DEF Persist, ValueHolds, RecordTypes, OpRecord
    <3>5. PlaceHolds("refresh", o, "checking token")' /\ "checking token" \in Places \ {"idle"}
      BY <1>4, <1>6, <2>3, <3>4 DEF PlaceHolds, Places
    <3>6. Goto("refresh", o, "checking token", ops'[o])
      BY <3>1, <3>4
    <3> QED
      BY <1>1, <1>2, <3>3, <3>5, <3>6, LateSame, Went, HandlersAre
  <2> QED
    BY <2>2, <2>3
<1>7. CASE o \in Adds
  <2>1. Goto("refresh", o, "checking quote", ops[o]) /\ UNCHANGED ops
    BY <1>7, Kinds DEF Refresh
  <2>2. PlaceHolds("refresh", o, "checking quote") /\ "checking quote" \in Places \ {"idle"}
    BY <1>1, <1>7 DEF PlaceHolds, Places, Attention
  <2> QED
    BY <1>3, <2>1, <2>2
<1>8. CASE o \in Outs
  <2>1. Goto("refresh", o, "checking melt", ops[o]) /\ UNCHANGED ops
    BY <1>8, Kinds DEF Refresh
  <2>2. ops[o].kept # {}
    BY <1>1, <1>8, Kinds DEF OpHolds, OutHolds, Attention, Swapping
  <2>3. PlaceHolds("refresh", o, "checking melt") /\ "checking melt" \in Places \ {"idle"}
    BY <1>8, <2>2 DEF PlaceHolds, Places
  <2> QED
    BY <1>3, <2>1, <2>3
<1> QED
  BY <1>5, <1>6, <1>7, <1>8 DEF Ops

LEMMA SwapHolds == ASSUME WalletInv, NEW o \in Ops, Swap(o) PROVE WalletInv'
<1> DEFINE r == SwapRequest(ops[o], o)
<1>1. /\ run["refresh"][o].at # "idle" /\ run["refresh"][o].seen = ops[o] /\ Alone("refresh", o)
      /\ o \in Ops \ Adds /\ ops[o].kept # {} /\ ops[o].outputs # {}
  <2>1. At("refresh", o, "swapping")
    BY DEF Swap
  <2>2. /\ run["refresh"][o].at # "idle" /\ run["refresh"][o].seen = ops[o] /\ ops[o].state # "none"
        /\ Alone("refresh", o) /\ PlaceHolds("refresh", o, "swapping")
    BY <2>1, AtIs, HandlersAre
  <2> QED
    BY <2>2, Kinds DEF PlaceHolds
<1>2. ValueHolds /\ OpHolds(o)
  BY ValueIs DEF WalletInv
<1>3. r \in Requests /\ RequestHolds(r) /\ r.op = o /\ r.kind = "swap"
  BY <1>1, <1>2, SwapRequestHolds
<1>4. UNCHANGED <<drawn, given>>
  BY DEF Swap
<1>5. \/ Answered(r) /\ Recovered(o, ops[o])
      \/ (Refused(r) \/ GivenUp(r)) /\ Stay("refresh", o, "restoring") /\ UNCHANGED snapshot
  BY <1>1 DEF Swap
<1> HIDE DEF r
<1>6. CASE Answered(r) /\ Recovered(o, ops[o])
  <2>1. /\ r.inputs = ops[o].inputs /\ r.outputs = SwapOutputs(o) /\ Live(r.inputs)
        /\ signed' = signed \cup r.outputs /\ spent' = spent \cup r.inputs /\ UNCHANGED <<quotes, melts>>
    BY <1>2, <1>3, <1>6, Served DEF Answered
  <2>2. SwapOutputs(o) = ops[o].outputs /\ ops[o].inputs = ops[o].kept
    BY <1>1, <1>2, SendIs, ReceiveIs, OutIs DEF SwapOutputs, Contested, Swapping, Ops
  <2>3. o \in Outs => melts[o].state = "unpaid" /\ Change(o) \notin signed
    <3>1. ASSUME o \in Outs PROVE Untouched(o) /\ melts[o].state = "unpaid" /\ Dispatched(o)
      BY <1>1, <1>2, <2>1, <2>2, <3>1, OutLive, OutIs
    <3> QED
      BY <3>1 DEF Untouched, Dispatched, Awaits
  <2>4. Steps(o)
    BY <1>1, <1>2, <1>4, <1>6, <2>1, <2>2, <2>3, RecoverStep DEF Recovered
  <2> QED
    BY <1>1, <1>6, <2>4, LateSame, Ended, HandlersAre DEF Answered, Recovered
<1>7. CASE (Refused(r) \/ GivenUp(r)) /\ Stay("refresh", o, "restoring") /\ UNCHANGED snapshot
  <2>1. Steps(o)
    BY <1>2, <1>4, <1>7, Unserved, Nothing
  <2>2. PlaceHolds("refresh", o, "restoring") /\ "restoring" \in Places \ {"idle"}
    BY <1>1 DEF PlaceHolds, Places
  <2> QED
    BY <1>1, <1>3, <1>7, <2>1, <2>2, LateUnserved, Unserved, Moved, HandlersAre DEF snapshot
<1> QED
  BY <1>5, <1>6, <1>7

LEMMA RestoreHolds == ASSUME WalletInv, NEW o \in Ops, Restore(o) PROVE WalletInv'
<1>1. /\ run["refresh"][o].seen = ops[o] /\ Alone("refresh", o)
      /\ o \in Ops \ Adds /\ ops[o].kept # {} /\ ops[o].outputs # {}
  <2>1. At("refresh", o, "restoring")
    BY DEF Restore
  <2>2. /\ run["refresh"][o].at # "idle" /\ run["refresh"][o].seen = ops[o] /\ ops[o].state # "none"
        /\ Alone("refresh", o) /\ PlaceHolds("refresh", o, "restoring")
    BY <2>1, AtIs, HandlersAre
  <2> QED
    BY <2>2, Kinds DEF PlaceHolds
<1>2. ValueHolds /\ OpHolds(o)
  BY ValueIs DEF WalletInv
<1>3. UNCHANGED <<drawn, given, mint, late>> /\ UNCHANGED <<quotes, melts, signed, spent>>
  BY DEF Restore, mint
<1>4. CASE Restored(ops[o].outputs) /\ Recovered(o, ops[o])
  <2>1. ops[o].outputs \subseteq signed /\ UNCHANGED faults
    BY <1>4 DEF Restored, Matched, RestoreResponse
  <2>2. o \in Sends \cup Receives => ops[o].kept \subseteq spent
    BY <1>1, <1>2, <2>1, SendIs, ReceiveIs DEF Contested, Swapping
  <2>3. o \in Outs => ops[o].kept \subseteq spent /\ melts[o].state = "unpaid" /\ Change(o) \notin signed
    <3> SUFFICES ASSUME o \in Outs
                 PROVE  ops[o].kept \subseteq spent /\ melts[o].state = "unpaid" /\ Change(o) \notin signed
      OBVIOUS
    <3>1. Dispatched(o) /\ Swapping(o)
      BY <1>1, <1>2, OutIs
    <3>2. ~Untouched(o) /\ ~PaidOut(o)
      BY <2>1, <3>1 DEF Untouched, PaidOut, Swapping, Awaits
    <3> QED
      BY <3>1, <3>2 DEF Dispatched, Returned
  <2>4. signed' = signed \cup ops[o].outputs /\ spent' = spent \cup ops[o].kept
    BY <1>1, <1>3, <2>1, <2>2, <2>3 DEF Ops
  <2>5. Steps(o)
    BY <1>1, <1>2, <1>3, <1>4, <2>3, <2>4, RecoverStep DEF Recovered
  <2> QED
    BY <1>1, <1>3, <1>4, <2>1, <2>5, LateSame, Ended, HandlersAre DEF Recovered
<1>5. CASE /\ NotRestored(ops[o].outputs) /\ Persist(o, [ops[o] EXCEPT !.state = Stuck(o)])
           /\ Done("refresh", o) /\ UNCHANGED held
  <2>1. Fits(o, Stuck(o)) /\ (UNCHANGED faults \/ Fault)
    BY <1>1, <1>5, Kinds DEF Fits, NotRestored, Stuck, Ops
  <2>2. Steps(o)
    BY <1>2, <1>3, <1>5, <2>1, Restate
  <2> QED
    BY <1>1, <1>3, <1>5, <2>1, <2>2, LateSame, Ended, HandlersAre
<1> QED
  BY <1>1, <1>4, <1>5 DEF Restore
-----------------------------------------------------------------------------
(* Requests arrive late, others spend what they were shown, the tab reloads*)
LEMMA ArriveHolds == ASSUME WalletInv, NEW r \in late, Arrive(r) PROVE WalletInv'
<1>1. ValueHolds /\ r \in Requests /\ RequestHolds(r) /\ r.op \in Ops
  BY DEF WalletInv, LateHolds, Requests
<1>2. UNCHANGED <<snapshot, run, drawn, given, faults>> /\ late' = late \ {r} /\ (Serve(r) \/ UNCHANGED mint)
  BY DEF Arrive
<1>3. Steps(r.op)
  BY <1>1, <1>2, ServeStep, Nothing
<1>4. LateHolds'
  BY <1>1, <1>2, <1>3, LateStep DEF Steps, WalletInv
<1> QED
  BY <1>1, <1>2, <1>3, <1>4, Stayed DEF snapshot

LEMMA SpentHolds == ASSUME WalletInv, NEW p, Spend(p) PROVE WalletInv'
<1>1. ValueHolds' /\ LateHolds' /\ RunsHold
  BY SpendStep DEF WalletInv
<1>2. UNCHANGED <<ops, run, faults>>
  BY DEF Spend, snapshot
<1>3. RunsHold'
  BY <1>1, <1>2, SameRun DEF RunsHold, RunTypes, RunHolds
<1> QED
  BY <1>1, <1>3 DEF WalletInv

LEMMA SendingIs ==
  ASSUME WalletInv, NEW w \in Handlers, NEW o \in Ops, NEW r \in Sending(w, o)
  PROVE  r \in Requests /\ RequestHolds(r)
<1>1. ValueHolds
  BY DEF WalletInv
<1>2. run[w][o].at \in {"sending", "swapping", "issuing", "melting"}
  BY DEF Sending
<1>3. run[w][o].seen = ops[o] /\ PlaceHolds(w, o, run[w][o].at)
  BY <1>2, AtWork DEF WalletInv
<1>4. CASE run[w][o].at = "sending"
  <2>1. r = SendRequest(ops[o], o) /\ o \in Sends /\ ops[o].kept = {} /\ ops[o].outputs # {}
    BY <1>3, <1>4 DEF Sending, PlaceHolds
  <2> QED
    BY <1>1, <2>1, SendRequestHolds
<1>5. CASE run[w][o].at = "swapping"
  <2>1. r = SwapRequest(ops[o], o) /\ o \in Ops \ Adds /\ ops[o].kept # {} /\ ops[o].outputs # {}
    BY <1>3, <1>5 DEF Sending, PlaceHolds
  <2> QED
    BY <1>1, <2>1, SwapRequestHolds
<1>6. CASE run[w][o].at = "issuing"
  <2>1. r = IssueRequest(ops[o], o) /\ o \in Adds /\ ops[o].outputs # {}
    BY <1>3, <1>6 DEF Sending, PlaceHolds
  <2> QED
    BY <1>1, <2>1, IssueRequestHolds
<1>7. CASE run[w][o].at = "melting"
  <2>1. r = MeltRequest(ops[o], o) /\ o \in Outs /\ ops[o].kept # {}
    BY <1>3, <1>7 DEF Sending, PlaceHolds
  <2> QED
    BY <1>1, <2>1, MeltRequestHolds
<1> QED
  BY <1>2, <1>4, <1>5, <1>6, <1>7

LEMMA ReloadHolds == ASSUME WalletInv, Reload PROVE WalletInv'
<1>1. PICK o \in Ops : \E w \in Handlers : run[w][o] # Idle
  BY DEF Reload
<1>2. /\ UNCHANGED <<snapshot, drawn, given, mint>> /\ Fault
      /\ run' = [w \in Handlers |-> [q \in Ops |-> Idle]]
  BY DEF Reload
<1>3. \A r \in late' : r \in late \/ (r \in Requests /\ RequestHolds(r))
  BY SendingIs DEF Reload
<1>4. Steps(o)
  BY <1>2, Nothing DEF WalletInv
<1>5. LateHolds'
  BY <1>3, <1>4, LateStep DEF Steps, WalletInv
<1>6. RunsHold'
  <2>1. Idle \in [at : Places, seen : OpRecord] /\ Idle.at = "idle"
    BY StatesAre DEF Idle, Blank, Places, OpRecord
  <2>2. \A w \in Handlers, q \in Ops : run'[w][q] = Idle
    BY <1>2
  <2>3. ASSUME NEW w \in Handlers, NEW q \in Ops PROVE RunHolds(w, q)'
    <3>1. PlaceHolds(w, q, "idle")'
      BY IdleHolds DEF PlaceHolds
    <3> QED
      BY <2>1, <2>2, <3>1 DEF RunHolds
  <2>4. faults' \in 0 .. MaxFaults
    BY <1>2, Counted DEF WalletInv
  <2> QED
    BY <1>2, <2>1, <2>3, <2>4 DEF RunsHold, RunTypes
<1> QED
  BY <1>4, <1>5, <1>6 DEF WalletInv, Steps
-----------------------------------------------------------------------------
LEMMA WalletInit == ~Overlap /\ Init => WalletInv
<1> SUFFICES ASSUME ~Overlap, Init PROVE WalletInv
  OBVIOUS
<1>1. /\ held = [p \in Proofs |-> IF p \in Start THEN 1 ELSE 0]
      /\ ops = [o \in Ops |-> Blank] /\ drawn = [o \in Ops |-> 0]
      /\ given = {Incoming(o) : o \in Receives} /\ signed = Start \cup given /\ spent = {}
      /\ quotes = [a \in Adds |-> "unpaid"]
      /\ melts = [c \in Outs |-> [state |-> "unpaid", inputs |-> {}, outputs |-> {}]]
      /\ run = [w \in Handlers |-> [o \in Ops |-> Idle]] /\ late = {} /\ faults = 0
  BY DEF Init
<1>2. Start \subseteq Proofs /\ given \subseteq Proofs /\ Start \cap given = {}
  <2>1. \A q \in Receives : Incoming(q) \in Proofs /\ Incoming(q) \notin Start
    BY Kinds, Names DEF Incoming, Start
  <2> QED
    BY <1>1, <2>1 DEF Proofs
<1>3. Spendable = Start
  BY <1>1, <1>2 DEF Spendable
<1>4. \A o \in Ops : (NamesOf(o) \cup {Fresh(o, 1)}) \cap signed = {}
  <2>1. ASSUME NEW o \in Ops PROVE Fresh(o, 1) \notin Start
    BY DEF Fresh, Start
  <2>2. ASSUME NEW o \in Ops, NEW q \in Receives PROVE Fresh(o, 1) # Incoming(q)
    BY DEF Fresh, Incoming
  <2> QED
    BY <1>1, <2>1, <2>2, Names, Kinds
<1>5. Blank \in OpRecord /\ Empty(Blank) /\ Blank.state = "none"
  BY StatesAre DEF Blank, OpRecord, Empty
<1>6. RecordTypes
  <2>1. [state |-> "unpaid", inputs |-> {}, outputs |-> {}] \in MeltRecord
    BY DEF MeltRecord
  <2>2. held \in [Proofs -> 0 .. 1]
    BY <1>1
  <2>3. ops \in [Ops -> OpRecord] /\ drawn \in [Ops -> 0 .. 1] /\ melts \in [Outs -> MeltRecord]
        /\ quotes \in [Adds -> {"unpaid", "paid", "issued"}]
    BY <1>1, <1>5, <2>1
  <2> QED
    BY <1>1, <1>2, <2>2, <2>3 DEF RecordTypes
<1>7. BalanceHolds
  BY <1>1, <1>2, <1>3 DEF BalanceHolds, Placed
<1>8. ASSUME NEW o \in Ops PROVE OpHolds(o) /\ Apart(o)
  <2>1. ops[o] = Blank /\ drawn[o] = 0
    BY <1>1
  <2>2. \A q \in Ops : Own(q) = {} /\ Awaits(q) = {}
    BY <1>1, <1>5 DEF Own, Awaits, Empty
  <2>3. Apart(o)
    BY <1>5, <2>1, <2>2 DEF Apart, Empty
  <2>4. Unstarted(o)
    BY <1>5, <2>1 DEF Unstarted
  <2>5. o \in Outs => melts[o].state = "unpaid"
    BY <1>1
  <2> QED
    BY <1>4, <1>5, <2>1, <2>3, <2>4, <2>5, NamesAre, Kinds
       DEF OpHolds, SendHolds, ReceiveHolds, AddHolds, OutHolds, Empty
<1>9. LateHolds
  BY <1>1 DEF LateHolds
<1>10. RunsHold
  <2>1. Idle \in [at : Places, seen : OpRecord] /\ Idle.at = "idle"
    BY <1>5 DEF Idle, Places
  <2>2. \A w \in Handlers, q \in Ops : run[w][q] = Idle
    BY <1>1
  <2>3. ASSUME NEW w \in Handlers, NEW q \in Ops PROVE RunHolds(w, q)
    <3>1. PlaceHolds(w, q, "idle")
      BY IdleHolds
    <3> QED
      BY <2>1, <2>2, <3>1 DEF RunHolds
  <2>4. run \in [Handlers -> [Ops -> [at : Places, seen : OpRecord]]]
    BY <1>1, <2>1
  <2>5. faults \in 0 .. MaxFaults
    BY <1>1, WalletAssumption
  <2> QED
    BY <2>3, <2>4, <2>5 DEF RunsHold, RunTypes
<1> QED
  BY <1>6, <1>7, <1>8, <1>9, <1>10 DEF WalletInv, ValueHolds

LEMMA WalletNext == WalletInv /\ [Next]_vars => WalletInv'
<1> SUFFICES ASSUME WalletInv, [Next]_vars PROVE WalletInv'
  OBVIOUS
<1>1. CASE UNCHANGED vars
  <2>1. UNCHANGED <<snapshot, run, drawn, given, mint, late, faults>>
    BY <1>1 DEF vars
  <2>2. ASSUME NEW o \in Ops PROVE WalletInv'
    <3>1. Steps(o) /\ ops'[o] = ops[o]
      BY <2>1, Nothing DEF WalletInv, snapshot
    <3> QED
      BY <2>1, <3>1, LateSame, Stayed
  <2>3. CASE Ops = {}
    <3>1. late = {}
      BY <2>3 DEF WalletInv, LateHolds, Requests
    <3>2. RecordTypes' /\ BalanceHolds'
      BY <2>1, <2>3, Kinds
         DEF WalletInv, ValueHolds, RecordTypes, BalanceHolds, Placed, Spendable, snapshot, mint
    <3>3. RunsHold'
      BY <2>1, <2>3 DEF WalletInv, RunsHold, RunTypes
    <3> QED
      BY <2>1, <2>3, <3>1, <3>2, <3>3 DEF WalletInv, ValueHolds, LateHolds
  <2> QED
    BY <2>2, <2>3
<1>2. ASSUME NEW o \in Sends, NEW send \in Selections, CreateOffline(o, send) \/ CreateOutgoing(o, send)
      PROVE  WalletInv'
  BY <1>2, CreateOfflineHolds, CreateOutgoingHolds
<1>3. ASSUME NEW o \in Sends, NEW w \in Handlers, Send(w, o) \/ RestoreSend(w, o) PROVE WalletInv'
  BY <1>3, SendingHolds, RestoreSendHolds
<1>4. ASSUME NEW o \in Sends, AskToken(o) \/ Reclaim(o) \/ CheckReclaim(o) PROVE WalletInv'
  BY <1>4, AskTokenHolds, ReclaimHolds, CheckReclaimHolds
<1>5. ASSUME NEW o \in Receives,
             \/ \E token \in {{Incoming(o)}} \cup {ops[s].kept : s \in Sends} : ReceiveToken(o, token)
             \/ CheckToken(o) \/ Discard(o)
      PROVE  WalletInv'
  BY <1>5, ReceiveTokenHolds, CheckTokenHolds, DiscardHolds
<1>6. ASSUME NEW o \in Adds, RequestAdd(o) \/ CheckQuote(o) \/ Issue(o) \/ RestoreAdd(o) \/ Pay(o)
      PROVE  WalletInv'
  BY <1>6, RequestAddHolds, CheckQuoteHolds, IssueHolds, RestoreAddHolds, PayHolds
<1>7. ASSUME NEW o \in Outs, NEW send \in Selections, ConfirmCashOut(o, send) PROVE WalletInv'
  BY <1>7, ConfirmCashOutHolds
<1>8. ASSUME NEW o \in Outs, Melt(o) \/ MeltAnswer(o) \/ CheckMelt(o) \/ Inspect(o) \/ Resolve(o)
      PROVE  WalletInv'
  BY <1>8, MeltHolds, MeltAnswerHolds, CheckMeltHolds, InspectHolds, ResolveHolds
<1>9. ASSUME NEW o \in Ops, Refresh(o) \/ Swap(o) \/ Restore(o) PROVE WalletInv'
  BY <1>9, RefreshHolds, SwapHolds, RestoreHolds
<1>10. ASSUME (\E p \in Proofs : Spend(p)) \/ (\E r \in late : Arrive(r)) \/ Reload PROVE WalletInv'
  BY <1>10, SpentHolds, ArriveHolds, ReloadHolds
<1> QED
  BY <1>1, <1>2, <1>3, <1>4, <1>5, <1>6, <1>7, <1>8, <1>9, <1>10 DEF Next

LEMMA WalletAlways == ~Overlap /\ Spec => []WalletInv
BY WalletInit, WalletNext, PTL DEF Spec
-----------------------------------------------------------------------------
LEMMA EndedIsBlank ==
  ASSUME NEW r \in OpRecord, Empty(r) PROVE r = [Blank EXCEPT !.state = r.state]
BY DEF OpRecord, Empty, Blank

LEMMA TypesHold == WalletInv => TypeOK
<1> SUFFICES ASSUME WalletInv PROVE TypeOK
  OBVIOUS
<1>1. RecordTypes /\ BalanceHolds /\ RunsHold
  BY DEF WalletInv, ValueHolds
<1>2. held \in [Proofs -> 0 .. 2] /\ drawn \in [Ops -> 0 .. 2]
  BY <1>1 DEF RecordTypes
<1>3. ops \in [Ops -> [state : {"none"} \cup SendStates \cup ReceiveStates \cup AddStates
                                \cup OutStates,
                       kept : SUBSET Proofs, inputs : SUBSET Proofs,
                       outputs : SUBSET Proofs, change : SUBSET Proofs]]
  BY <1>1 DEF RecordTypes, OpRecord, States
<1>4. ASSUME NEW o \in Ops
      PROVE  /\ ops[o].state = "none" \/
                  ops[o].state \in IF o \in Sends THEN SendStates
                                  ELSE IF o \in Receives THEN ReceiveStates
                                  ELSE IF o \in Adds THEN AddStates ELSE OutStates
             /\ ops[o].state \in {"accepted", "reclaimed", "settled", "paid"} =>
                  ops[o] = [Blank EXCEPT !.state = ops[o].state]
  <2>1. ops[o] \in OpRecord /\ OpHolds(o)
    BY ValueIs DEF WalletInv
  <2>2. ops[o].state \in {"accepted", "reclaimed", "settled", "paid"} => Empty(ops[o])
    <3>1. CASE o \in Sends
      BY <2>1, <3>1 DEF OpHolds, SendHolds, Unstarted, Completed
    <3>2. CASE o \in Receives
      BY <2>1, <3>2 DEF OpHolds, ReceiveHolds, Completed
    <3>3. CASE o \in Adds
      BY <2>1, <3>3 DEF OpHolds, AddHolds, AddStates, Empty
    <3>4. CASE o \in Outs
      BY <2>1, <3>4 DEF OpHolds, OutHolds
    <3> QED
      BY <3>1, <3>2, <3>3, <3>4 DEF Ops
  <2>3. o \in Sends => ops[o].state \in {"none"} \cup SendStates
    BY <2>1 DEF OpHolds, SendHolds, SendStates
  <2>4. o \in Receives => ops[o].state \in {"none"} \cup ReceiveStates
    BY <2>1 DEF OpHolds, ReceiveHolds, ReceiveStates
  <2>5. o \in Adds => ops[o].state \in {"none"} \cup AddStates
    BY <2>1 DEF OpHolds, AddHolds
  <2>6. o \in Outs => ops[o].state \in {"none"} \cup OutStates
    BY <2>1 DEF OpHolds, OutHolds, OutStates
  <2>7. o \in Sends \cup Receives \cup Adds \cup Outs
    BY DEF Ops
  <2> QED
    BY <2>1, <2>2, <2>3, <2>4, <2>5, <2>6, <2>7, EndedIsBlank
<1>5. DOMAIN run = Handlers /\ faults \in 0 .. MaxFaults
  BY <1>1 DEF RunsHold, RunTypes
<1>6. \A w \in Handlers, o \in Ops : run[w][o].at = "idle" => run[w][o] = Idle
  BY <1>1 DEF RunsHold, RunHolds
<1>7. /\ given \subseteq Proofs /\ signed \subseteq Proofs /\ spent \subseteq signed
      /\ quotes \in [Adds -> {"unpaid", "paid", "issued"}]
  BY <1>1 DEF RecordTypes, BalanceHolds
<1> QED
  BY <1>2, <1>3, <1>4, <1>5, <1>6, <1>7 DEF TypeOK

(* What an operation has set aside is not in the balance.                  *)
LEMMA NotSpendable ==
  ASSUME ValueHolds, NEW o \in Ops
  PROVE  Spendable \cap (ops[o].kept \cup ops[o].inputs) = {}
<1>1. OpHolds(o) /\ Apart(o) /\ Spendable \cap given = {}
  BY DEF ValueHolds, BalanceHolds
<1>2. CASE o \in Sends
  BY <1>1, <1>2, Kinds
     DEF OpHolds, SendHolds, Unstarted, Completed, Empty, Preparing, Keeping, Contested, Swapping,
         Apart, Own
<1>3. CASE o \in Receives
  BY <1>1, <1>3, Kinds
     DEF OpHolds, ReceiveHolds, Unstarted, Completed, Empty, Keeping, Contested, Swapping, Apart
<1>4. CASE o \in Adds
  BY <1>1, <1>4 DEF OpHolds, AddHolds
<1>5. CASE o \in Outs
  BY <1>1, <1>5 DEF OpHolds, OutHolds, Unstarted, Completed, Empty, Swapping, Apart, Own
<1> QED
  BY <1>2, <1>3, <1>4, <1>5 DEF Ops

(* A pending melt reserves what its cash-out has set aside.                *)
LEMMA ReservedIsKept ==
  ASSUME ValueHolds PROVE Spendable \cap Reserved = {}
<1>1. ASSUME NEW c \in Outs, melts[c].state = "pending" PROVE melts[c].inputs = ops[c].kept
  <2>1. OutHolds(c)
    BY Kinds DEF ValueHolds, OpHolds
  <2> QED
    BY <1>1, <2>1 DEF OutHolds, Dispatched, Completed
<1>2. \A c \in Outs : c \in Ops
  BY Kinds
<1> QED
  BY <1>1, <1>2, NotSpendable DEF Reserved

LEMMA BalanceReal == WalletInv => BalanceIsReal
<1> SUFFICES ASSUME WalletInv PROVE BalanceIsReal
  OBVIOUS
<1>1. ValueHolds /\ RecordTypes /\ BalanceHolds
  BY DEF WalletInv, ValueHolds
<1>2. \A p \in Spendable : held[p] = 1
  BY <1>1 DEF RecordTypes, Spendable
<1>3. Live(Spendable)
  BY <1>1, ReservedIsKept DEF BalanceHolds, Live
<1>4. ASSUME NEW r \in late PROVE Spendable \cap r.inputs = {}
  <2>1. r \in Requests /\ RequestHolds(r) /\ r.op \in Ops
    BY DEF WalletInv, LateHolds, Requests
  <2>2. Spendable \cap spent = {} /\ Spendable \cap (ops[r.op].kept \cup ops[r.op].inputs) = {}
    BY <1>1, <2>1, NotSpendable DEF BalanceHolds
  <2> QED
    BY <2>1, <2>2 DEF Requests, RequestHolds
<1> QED
  BY <1>1, <1>2, <1>3, <1>4, NotSpendable DEF BalanceIsReal, BalanceHolds

LEMMA ValuePlaced == WalletInv => ValueIsInOnePlace
<1> SUFFICES ASSUME WalletInv PROVE ValueIsInOnePlace
  OBVIOUS
<1>1. ASSUME NEW p \in signed \ (spent \cup {Incoming(o) : o \in Receives})
      PROVE  p \in Spendable \cup UNION {ops[o].kept \cup ops[o].inputs \cup ops[o].outputs
                                            \cup ops[o].change : o \in Ops}
  <2>1. Placed(p)
    BY DEF WalletInv, ValueHolds, BalanceHolds
  <2>2. CASE \E o \in Ops : p \in Own(o) \cup Awaits(o)
    <3>1. PICK o \in Ops : p \in Own(o) \cup Awaits(o)
      BY <2>2
    <3>2. p \in ops[o].kept \cup ops[o].inputs \cup ops[o].outputs \cup ops[o].change
      BY <3>1 DEF Own, Awaits
    <3> QED
      BY <3>2
  <2> QED
    BY <2>1, <2>2, Kinds DEF Placed
<1> QED
  BY <1>1, BalanceReal DEF ValueIsInOnePlace

(* No request of an ended operation can still be served.                   *)
LEMMA EndedIsEnded ==
  ASSUME WalletInv, NEW o \in Ops \ Adds, ops[o].inputs = {}, o \in Outs => ops[o].kept = {}
  PROVE  \A r \in late : r.op = o => ~Live(r.inputs)
<1> SUFFICES ASSUME NEW r \in late, r.op = o PROVE ~Live(r.inputs)
  OBVIOUS
<1>1. r \in Requests /\ RequestHolds(r)
  BY DEF WalletInv, LateHolds
<1>2. r.kind # "issue" /\ r.inputs # {}
  BY <1>1 DEF RequestHolds
<1>3. r.kind = "swap" \/ r.kind = "melt"
  BY <1>1, <1>2 DEF Requests
<1>4. r.inputs \subseteq spent
  BY <1>1, <1>2, <1>3 DEF RequestHolds
<1> QED
  BY <1>2, <1>4 DEF Live

LEMMA OutcomesHold == WalletInv => OutcomesAreTrue
<1> SUFFICES ASSUME WalletInv PROVE OutcomesAreTrue
  OBVIOUS
<1> DEFINE recovered(o) == \E n \in 0 .. 1 : Fresh(o, n) \in signed
           pending(o) == \E r \in late : r.op = o /\ Live(r.inputs)
<1>1. \A o \in Ops : OpHolds(o)
  BY DEF WalletInv, ValueHolds
<1>2. \A o \in Ops : Secured(o) \in signed => recovered(o)
  BY DEF Secured
<1>3. \A o \in Ops \ Adds : drawn[o] = 0 => ~recovered(o)
  <2>1. \A n \in 0 .. 1 : n = 0 \/ n = 1
    OBVIOUS
  <2> QED
    BY <1>1, <2>1 DEF OpHolds, Secured
<1>4. ASSUME NEW o \in Ops \ Adds, ops[o].inputs = {}, o \in Outs => ops[o].kept = {}
      PROVE  ~pending(o)
  BY <1>4, EndedIsEnded
<1> HIDE DEF recovered, pending
<1>5. ASSUME NEW o \in Sends
      PROVE  /\ ops[o].state = "accepted" => ~recovered(o) /\ ~pending(o)
             /\ ops[o].state = "reclaimed" => recovered(o)
  <2>1. SendHolds(o) /\ o \in Ops \ Adds /\ o \notin Outs
    BY <1>1, Kinds DEF OpHolds
  <2>2. ops[o].state = "accepted" => Unstarted(o)
    BY <2>1 DEF SendHolds
  <2>3. ops[o].state = "reclaimed" => Completed(o)
    BY <2>1 DEF SendHolds
  <2> QED
    BY <1>2, <1>3, <1>4, <2>1, <2>2, <2>3 DEF Unstarted, Completed, Empty
<1>6. ASSUME NEW o \in Receives
      PROVE  /\ ops[o].state = "settled" => recovered(o)
             /\ ops[o].state = "failed" => ~recovered(o) /\ ~pending(o)
  <2>1. ReceiveHolds(o) /\ o \in Ops \ Adds /\ o \notin Outs
    BY <1>1, Kinds DEF OpHolds
  <2>2. ops[o].state = "settled" => Completed(o)
    BY <2>1 DEF ReceiveHolds
  <2>3. ops[o].state = "failed" => drawn[o] = 0 /\ ops[o].inputs = {}
    BY <2>1 DEF ReceiveHolds, Unstarted, Empty, Keeping
  <2> QED
    BY <1>2, <1>3, <1>4, <2>1, <2>2, <2>3 DEF Completed
<1>7. \A o \in Adds : ops[o].state = "settled" => quotes[o] = "issued"
  BY <1>1, Kinds DEF OpHolds, AddHolds
<1>8. ASSUME NEW o \in Outs
      PROVE  /\ ops[o].state = "paid" => melts[o].state = "paid"
             /\ ops[o].state = "failed" =>
                  recovered(o) /\ melts[o].state = "unpaid" /\ ~pending(o)
  <2>1. OutHolds(o) /\ o \in Ops \ Adds
    BY <1>1, Kinds DEF OpHolds
  <2>2. ops[o].state = "failed" => Completed(o) /\ melts[o].state = "unpaid"
    BY <2>1 DEF OutHolds
  <2>3. ops[o].state = "paid" => melts[o].state = "paid"
    BY <2>1 DEF OutHolds
  <2> QED
    BY <1>2, <1>4, <2>1, <2>2, <2>3 DEF Completed, Empty
<1> QED
  BY <1>5, <1>6, <1>7, <1>8 DEF OutcomesAreTrue, recovered, pending

(* The snapshot, the mint's books and the handlers keep their types: an    *)
(* operation is in a state of its kind, its record is emptied when it has  *)
(* ended (App.tsx's saves), and a handler that is done holds nothing.      *)
THEOREM WalletTypes == ~Overlap /\ Spec => []TypeOK
BY WalletAlways, TypesHold, PTL

(* No value is lost or doubled, whatever answers are lost, requests arrive *)
(* late and reloads come between: a proof the mint would accept is in the  *)
(* balance or in the record of an operation that recovers it, and the      *)
(* balance holds nothing that is spent, reserved, shown to anybody or in a *)
(* request that may still arrive (the restores and refreshes of App.tsx).  *)
THEOREM WalletValueTheorem == ~Overlap /\ Spec => []ValueIsInOnePlace
BY WalletAlways, ValuePlaced, PTL

(* What Activity says of an ended operation happened and stays so: no      *)
(* token is accepted that this wallet took back, no receipt has failed and *)
(* no cash-out was recovered that a late request can still carry out.      *)
THEOREM WalletOutcomesTheorem == ~Overlap /\ Spec => []OutcomesAreTrue
BY WalletAlways, OutcomesHold, PTL
-----------------------------------------------------------------------------
(* The wallet as a vault: what it has set aside is what it could still     *)
(* spend and does not show.                                                *)
LEMMA TheirsAreGiven == ValueHolds => Theirs \subseteq given /\ given \subseteq signed
BY DEF ValueHolds, BalanceHolds, Theirs

LEMMA AsideIs == ValueHolds => SetAside = (signed \ (spent \cup Theirs)) \ Spendable
<1> SUFFICES ASSUME ValueHolds PROVE SetAside = (signed \ (spent \cup Theirs)) \ Spendable
  OBVIOUS
<1>1. ASSUME NEW p \in SetAside PROVE p \in (signed \ (spent \cup Theirs)) \ Spendable
  <2>1. p \in signed \ (spent \cup Theirs)
    BY DEF SetAside
  <2>2. PICK o \in Ops : p \in ops[o].kept \cup ops[o].inputs \cup ops[o].outputs \cup ops[o].change
    BY DEF SetAside
  <2>3. Spendable \cap (ops[o].kept \cup ops[o].inputs) = {}
    BY NotSpendable
  <2>4. Spendable \cap (ops[o].outputs \cup ops[o].change) = {}
    BY DEF ValueHolds, Apart, Awaits
  <2> QED
    BY <2>1, <2>2, <2>3, <2>4
<1>2. ASSUME NEW p \in (signed \ (spent \cup Theirs)) \ Spendable PROVE p \in SetAside
  <2>1. Placed(p) /\ p \notin Theirs
    BY DEF ValueHolds, BalanceHolds
  <2>2. PICK o \in Ops : p \in Own(o) \cup Awaits(o) \cup ops[o].kept
    BY <1>2, <2>1, Kinds DEF Placed, Theirs
  <2>3. p \in ops[o].kept \cup ops[o].inputs \cup ops[o].outputs \cup ops[o].change
    BY <2>2 DEF Own, Awaits
  <2> QED
    BY <2>3 DEF SetAside
<1> QED
  BY <1>1, <1>2

Parts ==
  /\ SetAside = (signed \ (spent \cup Theirs)) \ Spendable
  /\ Spendable \subseteq signed \ (spent \cup Theirs)
  /\ spent \subseteq signed /\ Theirs \subseteq signed

LEMMA PartsAre == WalletInv => Parts
<1> SUFFICES ASSUME WalletInv PROVE Parts
  OBVIOUS
<1>1. ValueHolds
  BY DEF WalletInv
<1> QED
  BY <1>1, AsideIs, TheirsAreGiven DEF ValueHolds, BalanceHolds, Parts

LEMMA GainGrows ==
  ASSUME HeldTypes, NEW S, Gain(S)
  PROVE  Spendable \subseteq Spendable' /\ Spendable' \subseteq Spendable \cup S
<1>1. \A p \in Proofs : held[p] \in 0 .. 1
  BY DEF HeldTypes
<1>2. \A p \in Proofs : held'[p] = IF p \in S THEN held[p] + 1 ELSE held[p]
  BY DEF Gain
<1>3. \A p \in Proofs : /\ held[p] > 0 => held'[p] > 0
                        /\ held'[p] > 0 => held[p] > 0 \/ p \in S
  BY <1>1, <1>2
<1> QED
  BY <1>3 DEF Spendable

(* Steps that ask nothing of the mint take from the balance or give back.  *)
LEMMA WalletMoves ==
  ASSUME Parts, Parts', UNCHANGED <<signed, spent>>,
         Spendable' \subseteq Spendable \/ Spendable \subseteq Spendable'
  PROVE  Vault!Next
<1>0. /\ SetAside = (signed \ (spent \cup Theirs)) \ Spendable
      /\ SetAside' = (signed \ (spent \cup Theirs)) \ Spendable'
      /\ Spendable \subseteq signed \ (spent \cup Theirs)
      /\ Spendable' \subseteq signed \ (spent \cup Theirs)
      /\ (spent \ Theirs)' = spent \ Theirs /\ (signed \ Theirs)' = signed \ Theirs
  BY DEF Parts, Theirs
<1>1. CASE Spendable' \subseteq Spendable
  <2> DEFINE S == Spendable \ Spendable'
  <2>1. S \in SUBSET Spendable /\ Spendable' = Spendable \ S /\ SetAside' = SetAside \cup S
    BY <1>0, <1>1
  <2> QED
    BY <1>0, <2>1 DEF Vault!Next, Vault!SetAside
<1>2. CASE Spendable \subseteq Spendable'
  <2> DEFINE S == Spendable' \ Spendable
  <2>1. S \in SUBSET SetAside /\ Spendable' = Spendable \cup S /\ SetAside' = SetAside \ S
    BY <1>0, <1>2
  <2> QED
    BY <1>0, <2>1 DEF Vault!Next, Vault!Credit
<1> QED
  BY <1>1, <1>2

(* Steps of the mint spend what was set aside, and what the wallet shows   *)
(* with their answer is newly signed.                                      *)
LEMMA ExchangeMoves ==
  ASSUME Parts, Parts', signed \subseteq signed', spent \subseteq spent',
         spent' \ spent \subseteq signed,
         Spendable \subseteq Spendable', Spendable' \subseteq Spendable \cup (signed' \ signed)
  PROVE  Vault!Next
<1> DEFINE used == (spent' \ spent) \ Theirs
           new == (signed \ Theirs)' \ (signed \ Theirs)
           received == Spendable' \ Spendable
<1>0. /\ SetAside = (signed \ (spent \cup Theirs)) \ Spendable
      /\ SetAside' = (signed' \ (spent' \cup Theirs)) \ Spendable'
      /\ Spendable \subseteq signed \ (spent \cup Theirs)
      /\ Spendable' \subseteq signed' \ (spent' \cup Theirs)
      /\ spent \subseteq signed /\ Theirs \subseteq signed
      /\ (spent \ Theirs)' = spent' \ Theirs /\ (signed \ Theirs)' = signed' \ Theirs
  BY DEF Parts, Theirs
<1>1. used \in SUBSET SetAside /\ (spent \ Theirs)' = (spent \ Theirs) \cup used
  BY <1>0
<1>2. new = signed' \ signed /\ signed \ Theirs \subseteq (signed \ Theirs)'
  BY <1>0
<1>3. received \subseteq new
  BY <1>2
<1>4. SetAside' = (SetAside \ used) \cup (new \ received)
  BY <1>0, <1>2
<1> QED
  BY <1>1, <1>2, <1>3, <1>4 DEF Vault!Next, Vault!Exchange

(* What the mint signs for an operation had not been signed.               *)
LEMMA ServedIsNew ==
  ASSUME ValueHolds, NEW r \in Requests, RequestHolds(r), Serve(r), r.kind # "melt"
  PROVE  r.outputs \cap signed = {}
<1> DEFINE o == r.op
<1>0. o \in Ops /\ OpHolds(o) /\ RecordTypes
  BY Served, ValueIs
<1>1. CASE r.kind = "issue"
  <2>1. o \in Adds /\ r.outputs = {Secured(o)} /\ ops[o].outputs = {Secured(o)}
    BY <1>1, Served
  <2>2. quotes[o] = "paid"
    BY <1>1 DEF Serve, Serves
  <2>3. AddHolds(o)
    BY <1>0, <2>1 DEF OpHolds
  <2> QED
    BY <2>1, <2>2, <2>3 DEF AddHolds
<1>2. CASE r.kind = "swap"
  <2>1. /\ o \in Ops \ Adds /\ Live(r.inputs) /\ r.inputs # {}
        /\ r.inputs = ops[o].inputs /\ r.outputs = SwapOutputs(o)
    BY <1>2, Served
  <2>2. ~(ops[o].inputs \subseteq spent)
    BY <2>1 DEF Live
  <2> HIDE DEF o
  <2>3. CASE ops[o].kept = {}
    <3>1. o \in Sends
      BY <1>0, <2>1, <2>3 DEF Ops, OpHolds, ReceiveHolds, OutHolds, Unstarted, Completed, Empty, Keeping,
         Contested, Swapping
    <3>2. Preparing(o)
      BY <1>0, <2>1, <2>3, <3>1 DEF OpHolds, SendHolds, Unstarted, Completed, Empty, Keeping,
         Contested, Swapping
    <3>3. Awaits(o) \cap signed = {}
      BY <2>2, <3>2 DEF Preparing
    <3> QED
      BY <2>1, <2>3, <3>3 DEF SwapOutputs
  <2>4. CASE ops[o].kept # {} /\ o \in Outs
    <3>1. Swapping(o)
      BY <1>0, <2>1, <2>4 DEF OpHolds, OutHolds, Unstarted, Completed, Empty
    <3>2. Untouched(o)
      BY <2>1, <2>4, <3>1, OutLive DEF Swapping
    <3> QED
      BY <2>1, <2>4, <3>2 DEF SwapOutputs, Untouched, Awaits
  <2>5. CASE ops[o].kept # {} /\ o \in Sends \cup Receives
    <3>1. Contested(o)
      BY <1>0, <2>1, <2>5 DEF OpHolds, SendHolds, ReceiveHolds, Unstarted, Completed, Empty, Keeping,
         Preparing
    <3> QED
      BY <2>1, <2>2, <2>5, <3>1 DEF SwapOutputs, Contested, Swapping
  <2> QED
    BY <2>1, <2>3, <2>4, <2>5 DEF Ops
<1> QED
  BY <1>1, <1>2 DEF Requests

LEMMA ServedMoves ==
  ASSUME WalletInv, Parts', NEW r \in Requests, RequestHolds(r), Serve(r),
         UNCHANGED held \/ (r.kind # "melt" /\ \E S \in SUBSET r.outputs : Gain(S))
  PROVE  Vault!Next
<1>0. ValueHolds /\ HeldTypes /\ Parts /\ r.kind \in {"issue", "melt", "swap"} /\ Serves(r)
  BY PartsAre DEF WalletInv, ValueHolds, RecordTypes, HeldTypes, Requests, Serve
<1>1. /\ signed' = IF r.kind = "melt" THEN signed ELSE signed \cup r.outputs
      /\ spent' = IF r.kind = "swap" THEN spent \cup r.inputs ELSE spent
  BY DEF Serve
<1>2. spent' \ spent \subseteq signed
  BY <1>0, <1>1 DEF Serves, Live
<1>3. r.kind # "melt" => r.outputs \cap signed = {}
  BY <1>0, ServedIsNew
<1>4. /\ Spendable \subseteq Spendable'
      /\ Spendable' = Spendable \/ (r.kind # "melt" /\ Spendable' \subseteq Spendable \cup r.outputs)
  BY <1>0, SameBalance, GainGrows
<1>5. Spendable' \subseteq Spendable \cup (signed' \ signed)
  BY <1>1, <1>3, <1>4
<1> QED
  BY <1>0, <1>1, <1>2, <1>4, <1>5, ExchangeMoves

LEMMA RecordMoves ==
  ASSUME WalletInv, Parts', UNCHANGED mint,
         \/ UNCHANGED held
         \/ \E S : Gain(S)
         \/ \E S \in SUBSET Spendable : Lose(S)
  PROVE  Vault!Next
<1>1. Parts /\ HeldTypes /\ UNCHANGED <<signed, spent>>
  BY PartsAre DEF WalletInv, ValueHolds, RecordTypes, HeldTypes, mint
<1>2. Spendable' \subseteq Spendable \/ Spendable \subseteq Spendable'
  BY <1>1, SameBalance, GainGrows, LoseHolds
<1> QED
  BY <1>1, <1>2, WalletMoves

LEMMA SendMoves ==
  ASSUME WalletInv, Parts', NEW o \in Sends, NEW w \in Handlers, Send(w, o) PROVE Vault!Next
<1> DEFINE r == SendRequest(ops[o], o)
<1>1. o \in Ops /\ ValueHolds /\ At(w, o, "sending")
  BY Kinds DEF WalletInv, Send
<1>2. run[w][o].seen = ops[o] /\ PlaceHolds(w, o, "sending")
  BY <1>1, AtIs
<1>3. r \in Requests /\ RequestHolds(r) /\ r.kind = "swap"
  BY <1>1, <1>2, SendRequestHolds DEF PlaceHolds
<1>4. ops[o].change \subseteq r.outputs
  BY DEF SendRequest, Request
<1>5. \/ Answered(r) /\ Ready(w, o, ops[o])
      \/ (Refused(r) \/ GivenUp(r)) /\ UNCHANGED snapshot
  BY <1>2 DEF Send
<1> HIDE DEF r
<1>6. CASE Answered(r) /\ Ready(w, o, ops[o])
  BY <1>3, <1>4, <1>6, ServedMoves DEF Answered, Ready
<1>7. CASE (Refused(r) \/ GivenUp(r)) /\ UNCHANGED snapshot
  BY <1>7, Unserved, RecordMoves DEF snapshot
<1> QED
  BY <1>5, <1>6, <1>7

LEMMA SwapMoves == ASSUME WalletInv, Parts', NEW o \in Ops, Swap(o) PROVE Vault!Next
<1> DEFINE r == SwapRequest(ops[o], o)
<1>1. ValueHolds /\ At("refresh", o, "swapping")
  BY DEF WalletInv, Swap
<1>2. run["refresh"][o].seen = ops[o] /\ PlaceHolds("refresh", o, "swapping")
  BY <1>1, AtIs, HandlersAre
<1>3. r \in Requests /\ RequestHolds(r) /\ r.kind = "swap"
  BY <1>1, <1>2, SwapRequestHolds DEF PlaceHolds
<1>4. ops[o].outputs \subseteq r.outputs
  BY DEF SwapRequest, Request
<1>5. \/ Answered(r) /\ Recovered(o, ops[o])
      \/ (Refused(r) \/ GivenUp(r)) /\ UNCHANGED snapshot
  BY <1>2 DEF Swap
<1> HIDE DEF r
<1>6. CASE Answered(r) /\ Recovered(o, ops[o])
  BY <1>3, <1>4, <1>6, ServedMoves DEF Answered, Recovered
<1>7. CASE (Refused(r) \/ GivenUp(r)) /\ UNCHANGED snapshot
  BY <1>7, Unserved, RecordMoves DEF snapshot
<1> QED
  BY <1>5, <1>6, <1>7

LEMMA IssueMoves == ASSUME WalletInv, Parts', NEW o \in Adds, Issue(o) PROVE Vault!Next
<1> DEFINE r == IssueRequest(ops[o], o)
<1>1. o \in Ops /\ ValueHolds /\ At("refresh", o, "issuing")
  BY Kinds DEF WalletInv, Issue
<1>2. run["refresh"][o].seen = ops[o] /\ PlaceHolds("refresh", o, "issuing")
  BY <1>1, AtIs, HandlersAre
<1>3. r \in Requests /\ RequestHolds(r) /\ r.kind = "issue"
  BY <1>1, <1>2, IssueRequestHolds DEF PlaceHolds
<1>4. ops[o].outputs \subseteq r.outputs
  BY DEF IssueRequest, Request
<1>5. \/ Answered(r) /\ Issued(o, ops[o])
      \/ (Refused(r) \/ GivenUp(r)) /\ UNCHANGED snapshot
  BY <1>2 DEF Issue
<1> HIDE DEF r
<1>6. CASE Answered(r) /\ Issued(o, ops[o])
  BY <1>3, <1>4, <1>6, ServedMoves DEF Answered, Issued
<1>7. CASE (Refused(r) \/ GivenUp(r)) /\ UNCHANGED snapshot
  BY <1>7, Unserved, RecordMoves DEF snapshot
<1> QED
  BY <1>5, <1>6, <1>7

LEMMA MeltMoves == ASSUME WalletInv, Parts', NEW o \in Outs, Melt(o) PROVE Vault!Next
<1> DEFINE r == MeltRequest(ops[o], o)
<1>1. o \in Ops /\ ValueHolds /\ At("make", o, "melting")
  BY Kinds DEF WalletInv, Melt
<1>2. run["make"][o].seen = ops[o] /\ PlaceHolds("make", o, "melting")
  BY <1>1, AtIs, HandlersAre
<1>3. r \in Requests /\ RequestHolds(r)
  BY <1>1, <1>2, MeltRequestHolds DEF PlaceHolds
<1>4. UNCHANGED held /\ (Answered(r) \/ Refused(r) \/ GivenUp(r))
  BY <1>2 DEF Melt, Unclear, snapshot
<1> HIDE DEF r
<1>5. CASE Answered(r)
  BY <1>3, <1>4, <1>5, ServedMoves DEF Answered
<1>6. CASE Refused(r) \/ GivenUp(r)
  BY <1>4, <1>6, Unserved, RecordMoves
<1> QED
  BY <1>4, <1>5, <1>6

(* A melt ends with what it had reserved, and that was set aside.          *)
LEMMA ResolveMoves == ASSUME WalletInv, Parts', NEW o \in Outs, Resolve(o) PROVE Vault!Next
<1>1. Parts /\ OutHolds(o) /\ melts[o].state = "pending" /\ Spendable' = Spendable
  BY PartsAre, Kinds, SameBalance DEF WalletInv, ValueHolds, OpHolds, Resolve, snapshot
<1>2. melts[o].inputs \subseteq signed
  <2>1. Dispatched(o)
    BY <1>1 DEF OutHolds, Completed
  <2>2. melts[o].inputs = ops[o].kept /\ (Untouched(o) \/ ops[o].kept \subseteq spent)
    BY <1>1, <2>1 DEF Dispatched, PaidOut, Returned
  <2> QED
    BY <1>1, <2>2 DEF Untouched, Parts
<1>3. spent' = spent \/ spent' = spent \cup melts[o].inputs
  BY DEF Resolve
<1>4. signed \subseteq signed'
  BY DEF Resolve
<1> QED
  BY <1>1, <1>2, <1>3, <1>4, ExchangeMoves

LEMMA SpendMoves == ASSUME WalletInv, Parts', NEW p, Spend(p) PROVE Vault!Next
<1>1. Parts /\ Spendable' = Spendable
  BY PartsAre, SameBalance DEF Spend, snapshot
<1>2. p \in signed /\ spent' = spent \cup {p} /\ signed' = signed
  BY DEF Spend, Live
<1> QED
  BY <1>1, <1>2, ExchangeMoves

LEMMA ArriveMoves == ASSUME WalletInv, Parts', NEW r \in late, Arrive(r) PROVE Vault!Next
<1>1. r \in Requests /\ RequestHolds(r) /\ UNCHANGED held
  BY DEF WalletInv, LateHolds, Arrive, snapshot
<1> QED
  BY <1>1, ServedMoves, RecordMoves DEF Arrive

LEMMA CreateMoves ==
  ASSUME WalletInv, Parts', NEW o, NEW send \in Selections,
         CreateOffline(o, send) \/ CreateOutgoing(o, send) \/ ConfirmCashOut(o, send)
  PROVE  Vault!Next
<1>1. Lose(send) /\ UNCHANGED mint
  BY DEF CreateOffline, CreateOutgoing, ConfirmCashOut
<1>2. send \in SUBSET Spendable
  BY DEF Selections
<1> QED
  BY <1>1, <1>2, RecordMoves

(* Every step of the wallet, or of its mint, is one of the vault's.        *)
LEMMA VaultNext == WalletInv /\ [Next]_vars => [Vault!Next]_(Vault!vault)
<1> SUFFICES ASSUME WalletInv, [Next]_vars PROVE Vault!Next
  OBVIOUS
<1>0. Parts'
  <2>1. WalletInv'
    BY WalletNext
  <2>2. WalletInv' => Parts'
    BY PartsAre, PTL
  <2> QED
    BY <2>1, <2>2
<1>1. CASE UNCHANGED vars
  BY <1>0, <1>1, RecordMoves DEF vars, snapshot
<1>2. ASSUME NEW o \in Sends, NEW send \in Selections, CreateOffline(o, send) \/ CreateOutgoing(o, send)
      PROVE  Vault!Next
  BY <1>0, <1>2, CreateMoves
<1>3. ASSUME NEW o \in Sends, NEW w \in Handlers, Send(w, o) \/ RestoreSend(w, o) PROVE Vault!Next
  <2>1. CASE RestoreSend(w, o)
    <3>1. UNCHANGED mint /\ (UNCHANGED held \/ \E S : Gain(S))
      BY <2>1 DEF RestoreSend, Ready
    <3> QED
      BY <1>0, <3>1, RecordMoves
  <2> QED
    BY <1>0, <1>3, <2>1, SendMoves
<1>4. ASSUME NEW o \in Sends, AskToken(o) \/ Reclaim(o) \/ CheckReclaim(o) PROVE Vault!Next
  BY <1>0, <1>4, RecordMoves DEF AskToken, Reclaim, CheckReclaim, snapshot
<1>5. ASSUME NEW o \in Receives,
             \/ \E token \in {{Incoming(o)}} \cup {ops[s].kept : s \in Sends} : ReceiveToken(o, token)
             \/ CheckToken(o) \/ Discard(o)
      PROVE  Vault!Next
  BY <1>0, <1>5, RecordMoves DEF ReceiveToken, CheckToken, Discard
<1>6. ASSUME NEW o \in Adds, RequestAdd(o) \/ CheckQuote(o) \/ Issue(o) \/ RestoreAdd(o) \/ Pay(o)
      PROVE  Vault!Next
  <2>1. CASE RequestAdd(o) \/ CheckQuote(o)
    BY <1>0, <2>1, RecordMoves DEF RequestAdd, CheckQuote
  <2>2. CASE RestoreAdd(o)
    <3>1. UNCHANGED mint /\ (UNCHANGED held \/ \E S : Gain(S))
      BY <2>2 DEF RestoreAdd, Issued
    <3> QED
      BY <1>0, <3>1, RecordMoves
  <2>3. CASE Pay(o)
    <3>1. Parts /\ UNCHANGED <<signed, spent>> /\ Spendable' = Spendable
      BY <2>3, PartsAre, SameBalance DEF Pay, snapshot
    <3> QED
      BY <1>0, <3>1, WalletMoves
  <2> QED
    BY <1>0, <1>6, <2>1, <2>2, <2>3, IssueMoves
<1>7. ASSUME NEW o \in Outs, NEW send \in Selections, ConfirmCashOut(o, send) PROVE Vault!Next
  BY <1>0, <1>7, CreateMoves
<1>8. ASSUME NEW o \in Outs, Melt(o) \/ MeltAnswer(o) \/ CheckMelt(o) \/ Inspect(o) \/ Resolve(o)
      PROVE  Vault!Next
  <2>1. CASE MeltAnswer(o) \/ CheckMelt(o)
    <3>1. UNCHANGED mint /\ (UNCHANGED held \/ \E S : Gain(S))
      BY <2>1 DEF MeltAnswer, CheckMelt, Paid, Unclear, snapshot
    <3> QED
      BY <1>0, <3>1, RecordMoves
  <2>2. CASE Inspect(o)
    <3>1. UNCHANGED mint /\ UNCHANGED held
      BY <2>2 DEF Inspect, Unclear
    <3> QED
      BY <1>0, <3>1, RecordMoves
  <2> QED
    BY <1>0, <1>8, <2>1, <2>2, MeltMoves, ResolveMoves
<1>9. ASSUME NEW o \in Ops, Refresh(o) \/ Swap(o) \/ Restore(o) PROVE Vault!Next
  <2>1. CASE Refresh(o)
    BY <1>0, <2>1, RecordMoves DEF Refresh
  <2>2. CASE Restore(o)
    <3>1. UNCHANGED mint /\ (UNCHANGED held \/ \E S : Gain(S))
      BY <2>2 DEF Restore, Recovered
    <3> QED
      BY <1>0, <3>1, RecordMoves
  <2> QED
    BY <1>0, <1>9, <2>1, <2>2, SwapMoves
<1>10. ASSUME (\E p \in Proofs : Spend(p)) \/ (\E r \in late : Arrive(r)) \/ Reload PROVE Vault!Next
  <2>1. CASE Reload
    BY <1>0, <2>1, RecordMoves DEF Reload, snapshot
  <2> QED
    BY <1>0, <1>10, <2>1, SpendMoves, ArriveMoves
<1> QED
  BY <1>1, <1>2, <1>3, <1>4, <1>5, <1>6, <1>7, <1>8, <1>9, <1>10 DEF Next

LEMMA VaultInit == ~Overlap /\ Init => Vault!Init
<1> SUFFICES ASSUME ~Overlap, Init PROVE Vault!Init
  OBVIOUS
<1>1. Parts /\ spent = {}
  BY WalletInit, PartsAre DEF Init
<1>2. signed = Start \cup Theirs
  BY DEF Init, Theirs
<1>3. Start \subseteq Spendable
  BY DEF Init, Spendable, Proofs
<1> QED
  BY <1>1, <1>2, <1>3 DEF Parts, Vault!Init

(* The wallet is a vault, through every lost answer, late request and      *)
(* reload: what is spendable is set aside before it is spent, what is set  *)
(* aside stays in an operation until it is spent or given back, and what   *)
(* is spent does not come back.                                            *)
THEOREM WalletVault == ~Overlap /\ Spec => ImplementsVault
BY WalletAlways, VaultInit, VaultNext, PTL DEF Spec, ImplementsVault, Vault!Spec
===============================================================================
