---------------------------- MODULE MarketCashProofs ----------------------------
(***************************************************************************)
(* Proofs about MarketCash, for any number of tabs, adds, cash-outs, lost  *)
(* requests and closed tabs: no value is lost or doubled in the browser,   *)
(* and what a finished record says of the mint is so.                      *)
(***************************************************************************)
EXTENDS MarketCash, TLAPS

(* What a record has drawn, and what it may be signed as.                  *)
DrawnBy(kind, op, n) == {kind} \X {op} \X (0 .. n - 1)

AddRecord == [state : AddStates, source : {"payer", "faucet"}, key : BOOLEAN,
              outputs : SUBSET Outputs, drawn : Nat]

OutRecord == [state : OutStates, reserved : SUBSET Proofs, change : SUBSET Outputs,
              recovery : SUBSET Outputs, drawn : Nat]

MeltRecord == [state : {"unpaid", "pending", "paid"}, inputs : SUBSET Proofs,
               outputs : SUBSET Outputs]

Requests == [kind : {"issue", "melt", "swap"}, op : Adds \cup Outs,
             inputs : SUBSET Proofs, outputs : SUBSET Outputs]

RecordTypes ==
  /\ adds \in [Adds -> AddRecord]
  /\ outs \in [Outs -> OutRecord]
  /\ quotes \in [Adds -> {"unpaid", "paid", "issued"}]
  /\ melts \in [Outs -> MeltRecord]

Tasks == [job : {"none", "fund", "add", "out", "confirm"}, at : Places, op : Nat]

TabTypes ==
  /\ task \in [Tabs -> Tasks]
  /\ review \in [Tabs -> [seen : SUBSET Proofs, send : SUBSET Proofs]]
  /\ lapsed \subseteq Adds /\ faults \in 0 .. MaxFaults

(* Proofs and outputs are where they can be used: an output that a record  *)
(* awaits is nowhere else, and the proofs a record has reserved are its    *)
(* own.                                                                    *)
AddValue(a) ==
  /\ adds[a].outputs \subseteq DrawnBy("add", a, adds[a].drawn)
  /\ adds[a].outputs \cap signed # {} => quotes[a] = "issued"
  /\ adds[a].outputs \cap (proofs \cup spent) = {}
  /\ \A c \in Outs : adds[a].outputs \cap outs[c].reserved = {}

Awaits(c) == outs[c].change \cup outs[c].recovery

OutValue(c) ==
  /\ Awaits(c) \subseteq DrawnBy("out", c, outs[c].drawn)
  /\ outs[c].change \cap outs[c].recovery = {}
  /\ outs[c].reserved = {} => Awaits(c) = {}
  /\ outs[c].reserved # {} => outs[c].change # {}
  /\ outs[c].reserved \cap proofs = {}
  /\ Awaits(c) \cap (proofs \cup spent) = {}
  /\ \A d \in Outs : Awaits(c) \cap outs[d].reserved = {}
  /\ \A d \in Outs \ {c} : outs[c].reserved \cap outs[d].reserved = {}

(* What became of the proofs a cash-out has reserved.                      *)
Untouched(c) ==
  /\ melts[c].state # "paid"
  /\ outs[c].reserved \subseteq signed \ spent
  /\ Awaits(c) \cap signed = {}

PaidOut(c) ==
  /\ melts[c].state = "paid"
  /\ outs[c].reserved \subseteq spent
  /\ outs[c].recovery \cap signed = {}

Recovered(c) ==
  /\ melts[c].state = "unpaid"
  /\ outs[c].reserved \subseteq spent
  /\ outs[c].recovery # {} /\ outs[c].recovery \subseteq signed
  /\ outs[c].change \cap signed = {}

MeltValue(c) ==
  /\ outs[c].reserved # {} => Untouched(c) \/ PaidOut(c) \/ Recovered(c)
  /\ melts[c].state = "pending" =>
       /\ melts[c].inputs = outs[c].reserved /\ melts[c].outputs = outs[c].change
       /\ outs[c].reserved # {}
  /\ melts[c].state = "paid" /\ outs[c].reserved # {} => melts[c].outputs = outs[c].change

(* A request that may still arrive is its record's, or comes too late.     *)
RequestHolds(r) ==
  /\ r.outputs # {}
  /\ r.kind = "issue" => /\ r.op \in Adds /\ r.inputs = {}
                         /\ r.outputs = adds[r.op].outputs \/ quotes[r.op] = "issued"
  /\ r.kind # "issue" => r.op \in Outs /\ r.inputs # {}
  /\ r.kind = "melt" => \/ r.inputs \subseteq spent
                        \/ r.inputs = outs[r.op].reserved /\ r.outputs = outs[r.op].change
  /\ r.kind = "swap" => \/ r.inputs \subseteq spent
                        \/ r.inputs = outs[r.op].reserved /\ r.outputs = outs[r.op].recovery

(* Everything the mint has signed is a seed or was drawn, and is in a      *)
(* place of its own until it is spent.                                     *)
Named(v) ==
  \/ v \in Seeds
  \/ \E a \in Adds : v \in DrawnBy("add", a, adds[a].drawn)
  \/ \E c \in Outs : v \in DrawnBy("out", c, outs[c].drawn)

Placed(v) ==
  \/ v \in proofs
  \/ \E a \in Adds : v \in adds[a].outputs
  \/ \E c \in Outs : v \in outs[c].reserved \cup Awaits(c)

SignedHolds ==
  /\ proofs \subseteq signed \ spent /\ spent \subseteq signed
  /\ \A v \in signed : Named(v)
  /\ \A v \in signed \ spent : Placed(v)

ValueHolds ==
  /\ RecordTypes
  /\ SignedHolds
  /\ \A a \in Adds : AddValue(a)
  /\ \A c \in Outs : OutValue(c) /\ MeltValue(c)

LateHolds == late \subseteq Requests /\ \A r \in late : RequestHolds(r)

(* What the state of a record says of the rest of it and of the mint.      *)
AddStateHolds(a) == adds[a].state = "settled" => quotes[a] = "issued"

OutStateHolds(c) ==
  /\ outs[c].state = "none" => outs[c].drawn = 0
  /\ outs[c].state \in {"none", "failed"} => melts[c].state = "unpaid"
  /\ outs[c].state \in {"none", "paid", "failed"} => outs[c].reserved = {}
  /\ outs[c].state = "paid" => melts[c].state = "paid"

RecordsHold ==
  /\ ValueHolds
  /\ \A a \in Adds : AddStateHolds(a)
  /\ \A c \in Outs : OutStateHolds(c)

(* What a tab that waits for the lock, or has it, knows of its record.     *)
Passive == {"idle", "waiting"}

TaskHolds(t) ==
  LET op == task[t].op
      at == task[t].at
  IN
  /\ at = "waiting" /\ task[t].job \in {"fund", "add"} => op \in Adds
  /\ at = "waiting" /\ task[t].job = "out" => op \in Outs
  /\ at = "waiting" /\ task[t].job = "confirm" => review[t] # NoReview
  /\ at = "preparing" => op \in Adds /\ adds[op].outputs = {}
  /\ at \in {"issuing", "restoring add"} => op \in Adds /\ adds[op].outputs # {}
  /\ at \in {"melting", "melted"} => op \in Outs /\ outs[op].reserved # {}
  /\ at = "inspecting" => op \in Outs /\ outs[op].reserved # {} /\ outs[op].recovery = {}
  /\ at \in {"recovering", "restoring out"} =>
       op \in Outs /\ outs[op].reserved # {} /\ outs[op].recovery # {}

ReviewHolds(t) == review[t] # NoReview => review[t].send # {} /\ review[t].send \subseteq review[t].seen

OneLock == \A t, u \in Tabs : task[t].at \notin Passive /\ task[u].at \notin Passive => t = u

TabsHold == TabTypes /\ OneLock /\ \A t \in Tabs : TaskHolds(t) /\ ReviewHolds(t)

CashInv == RecordsHold /\ LateHolds /\ TabsHold
-----------------------------------------------------------------------------
(* Outputs drawn for different records, or at different times, differ.     *)
LEMMA Names ==
  ASSUME NEW kind \in {"add", "out"}, NEW op \in Nat, NEW n \in Nat
  PROVE  /\ DrawnBy(kind, op, n) \subseteq Outputs
         /\ \A v \in DrawnBy(kind, op, n) : v \notin Seeds
         /\ \A k, o, m : \A v \in DrawnBy(kind, op, n) : v \in DrawnBy(k, o, m) => k = kind /\ o = op
         /\ DrawnBy(kind, op, n) \subseteq DrawnBy(kind, op, n + 1)
         /\ <<kind, op, n>> \in DrawnBy(kind, op, n + 1)
         /\ <<kind, op, n>> \notin DrawnBy(kind, op, n)
         /\ <<kind, op, n>> \in Outputs /\ <<kind, op, n>> \notin Seeds
         /\ \A k, o, m : <<kind, op, n>> \in DrawnBy(k, o, m) => k = kind /\ o = op
<1>1. DrawnBy(kind, op, n) \subseteq Outputs
  BY DEF DrawnBy, Outputs
<1>2. \A v \in DrawnBy(kind, op, n) : v \notin Seeds
  BY <1>1, SeedsAssumption
<1>3. \A k, o, m : \A v \in DrawnBy(kind, op, n) : v \in DrawnBy(k, o, m) => k = kind /\ o = op
  BY DEF DrawnBy
<1>4. DrawnBy(kind, op, n) \subseteq DrawnBy(kind, op, n + 1)
  BY DEF DrawnBy
<1>5. <<kind, op, n>> \in DrawnBy(kind, op, n + 1)
  BY DEF DrawnBy
<1>6. <<kind, op, n>> \notin DrawnBy(kind, op, n)
  BY DEF DrawnBy
<1>7. <<kind, op, n>> \in Outputs
  BY DEF Outputs
<1>8. \A k, o, m : <<kind, op, n>> \in DrawnBy(k, o, m) => k = kind /\ o = op
  BY DEF DrawnBy
<1> QED
  BY <1>1, <1>2, <1>3, <1>4, <1>5, <1>6, <1>7, <1>8, SeedsAssumption

LEMMA DrawnApart ==
  \A k, o, m, j, p, n : \A v \in DrawnBy(k, o, m) : v \in DrawnBy(j, p, n) => j = k /\ p = o
BY DEF DrawnBy

LEMMA Indices ==
  Adds \subseteq Nat /\ Outs \subseteq Nat
BY CashAssumption DEF Adds, Outs

(* No output is drawn twice: the next one has not been signed.             *)
LEMMA NextIsNew ==
  ASSUME ValueHolds
  PROVE  /\ \A a \in Adds : <<"add", a, adds[a].drawn>> \notin signed
         /\ \A c \in Outs : <<"out", c, outs[c].drawn>> \notin signed
<1>1. ASSUME NEW a \in Adds PROVE <<"add", a, adds[a].drawn>> \notin signed
  <2>1. a \in Nat /\ adds[a].drawn \in Nat
    BY Indices DEF ValueHolds, RecordTypes, AddRecord
  <2>2. /\ <<"add", a, adds[a].drawn>> \in DrawnBy("add", a, adds[a].drawn + 1)
        /\ <<"add", a, adds[a].drawn>> \notin DrawnBy("add", a, adds[a].drawn)
        /\ adds[a].drawn + 1 \in Nat
    BY <2>1, Names
  <2>3. /\ <<"add", a, adds[a].drawn>> \notin Seeds
        /\ \A m, o, n : <<"add", a, adds[a].drawn>> \in DrawnBy(m, o, n) => m = "add" /\ o = a
    BY <2>1, <2>2, Names
  <2>4. ~Named(<<"add", a, adds[a].drawn>>)
    BY <2>2, <2>3, Zenon DEF Named
  <2> QED
    BY <2>4 DEF ValueHolds, SignedHolds
<1>2. ASSUME NEW c \in Outs PROVE <<"out", c, outs[c].drawn>> \notin signed
  <2>1. c \in Nat /\ outs[c].drawn \in Nat
    BY Indices DEF ValueHolds, RecordTypes, OutRecord
  <2>2. /\ <<"out", c, outs[c].drawn>> \in DrawnBy("out", c, outs[c].drawn + 1)
        /\ <<"out", c, outs[c].drawn>> \notin DrawnBy("out", c, outs[c].drawn)
        /\ outs[c].drawn + 1 \in Nat
    BY <2>1, Names
  <2>3. /\ <<"out", c, outs[c].drawn>> \notin Seeds
        /\ \A m, o, n : <<"out", c, outs[c].drawn>> \in DrawnBy(m, o, n) => m = "out" /\ o = c
    BY <2>1, <2>2, Names
  <2>4. ~Named(<<"out", c, outs[c].drawn>>)
    BY <2>2, <2>3, Zenon DEF Named
  <2> QED
    BY <2>4 DEF ValueHolds, SignedHolds
<1> QED
  BY <1>1, <1>2

LEMMA CashInit == Init => CashInv
<1> SUFFICES ASSUME Init PROVE CashInv
  OBVIOUS
<1>0. 0 \in Nat /\ Seeds \subseteq Proofs /\ {} \in SUBSET Outputs /\ {} \in SUBSET Proofs
  BY DEF Proofs
<1>1. ValueHolds
  <2>1. RecordTypes
    BY <1>0 DEF Init, RecordTypes, AddRecord, OutRecord, MeltRecord, AddStates, OutStates
  <2>2. SignedHolds
    BY DEF Init, SignedHolds, Named, Placed
  <2>3. ASSUME NEW a \in Adds PROVE AddValue(a)
    BY DEF Init, AddValue
  <2>4. ASSUME NEW c \in Outs PROVE OutValue(c) /\ MeltValue(c)
    BY DEF Init, OutValue, MeltValue, Awaits
  <2> QED
    BY <2>1, <2>2, <2>3, <2>4 DEF ValueHolds
<1>2. LateHolds /\ RecordsHold
  BY <1>1 DEF Init, LateHolds, RecordsHold, AddStateHolds, OutStateHolds
<1>3. TabsHold
  <2>1. TabTypes
    BY <1>0, CashAssumption DEF Init, TabTypes, Tasks, Idle, NoReview, Places
  <2>2. OneLock
    BY DEF Init, OneLock, Passive, Idle
  <2>3. ASSUME NEW t \in Tabs PROVE TaskHolds(t) /\ ReviewHolds(t)
    BY DEF Init, TaskHolds, ReviewHolds, Idle
  <2> QED
    BY <2>1, <2>2, <2>3 DEF TabsHold
<1> QED
  BY <1>2, <1>3 DEF CashInv
-----------------------------------------------------------------------------
(* The steps as they concern value: most change states, keys and tasks.    *)
SameAdd(a) == adds'[a].outputs = adds[a].outputs /\ adds'[a].drawn = adds[a].drawn

SameOut(c) ==
  /\ outs'[c].reserved = outs[c].reserved /\ outs'[c].change = outs[c].change
  /\ outs'[c].recovery = outs[c].recovery /\ outs'[c].drawn = outs[c].drawn

KeepsRequests == \A r \in Requests : RequestHolds(r) => RequestHolds(r)'

LEMMA SameNames ==
  ASSUME ValueHolds, \A a \in Adds : SameAdd(a), \A c \in Outs : SameOut(c)
  PROVE  /\ \A v : Named(v) => Named(v)'
         /\ proofs' = proofs => \A v : Placed(v) => Placed(v)'
<1>1. \A v : Named(v) => Named(v)'
  BY DEF Named, SameAdd, SameOut
<1>2. ASSUME proofs' = proofs PROVE \A v : Placed(v) => Placed(v)'
  BY <1>2 DEF Placed, SameAdd, SameOut, Awaits
<1> QED
  BY <1>1, <1>2

LEMMA SameValue ==
  ASSUME ValueHolds, RecordTypes', \A a \in Adds : SameAdd(a), \A c \in Outs : SameOut(c),
         UNCHANGED <<proofs, melts, signed, spent>>,
         \A a \in Adds : quotes[a] = "issued" => quotes'[a] = "issued"
  PROVE  ValueHolds' /\ KeepsRequests
<1>1. SignedHolds'
  BY SameNames DEF ValueHolds, SignedHolds
<1>2. ASSUME NEW a \in Adds PROVE AddValue(a)'
  <2>1. AddValue(a) /\ SameAdd(a) /\ \A c \in Outs : outs'[c].reserved = outs[c].reserved
    BY DEF ValueHolds, SameOut
  <2> QED
    BY <2>1 DEF AddValue, SameAdd
<1>3. ASSUME NEW c \in Outs PROVE (OutValue(c) /\ MeltValue(c))'
  <2>1. /\ OutValue(c) /\ MeltValue(c) /\ SameOut(c)
        /\ \A d \in Outs : outs'[d].reserved = outs[d].reserved
    BY DEF ValueHolds, SameOut
  <2>2. Awaits(c)' = Awaits(c)
    BY <2>1 DEF Awaits, SameOut
  <2>3. OutValue(c)'
    BY <2>1, <2>2 DEF OutValue, SameOut
  <2>4. MeltValue(c)'
    BY <2>1, <2>2 DEF MeltValue, SameOut, Untouched, PaidOut, Recovered
  <2> QED
    BY <2>3, <2>4
<1>4. KeepsRequests
  BY DEF KeepsRequests, RequestHolds, SameAdd, SameOut
<1> QED
  BY <1>1, <1>2, <1>3, <1>4 DEF ValueHolds

(* Prepare: an add draws its outputs.                                      *)
LEMMA DrawAddValue ==
  ASSUME ValueHolds, RecordTypes', NEW a \in Adds, adds[a].outputs = {},
         adds'[a].outputs = {<<"add", a, adds[a].drawn>>}, adds'[a].drawn = adds[a].drawn + 1,
         \A b \in Adds \ {a} : SameAdd(b), UNCHANGED <<proofs, outs, mint>>
  PROVE  ValueHolds' /\ KeepsRequests
<1> DEFINE v == <<"add", a, adds[a].drawn>>
<1>0. /\ a \in Nat /\ adds[a].drawn \in Nat
      /\ proofs \subseteq signed /\ spent \subseteq signed /\ UNCHANGED <<melts, signed, spent, quotes>>
  BY Indices DEF ValueHolds, RecordTypes, AddRecord, SignedHolds, mint
<1>1. v \notin signed
  BY NextIsNew
<1>2. /\ v \in DrawnBy("add", a, adds'[a].drawn)
      /\ DrawnBy("add", a, adds[a].drawn) \subseteq DrawnBy("add", a, adds'[a].drawn)
  <2>1. /\ v \in DrawnBy("add", a, adds[a].drawn + 1) /\ v \notin DrawnBy("add", a, adds[a].drawn)
        /\ DrawnBy("add", a, adds[a].drawn) \subseteq DrawnBy("add", a, adds[a].drawn + 1)
    BY <1>0, Names
  <2> HIDE DEF v
  <2> QED
    BY <2>1
<1> HIDE DEF v
<1>3. \A c \in Outs : v \notin outs[c].reserved
  <2>1. \A c \in Outs : outs[c].reserved \subseteq signed
    BY <1>0 DEF ValueHolds, MeltValue, Untouched, PaidOut, Recovered
  <2> QED
    BY <1>1, <2>1
<1>4. SignedHolds'
  <2>1. \A w : Named(w) => Named(w)'
    BY <1>2 DEF Named, SameAdd
  <2>2. \A w : Placed(w) => Placed(w)'
    BY DEF Placed, SameAdd, Awaits
  <2> QED
    BY <1>0, <2>1, <2>2 DEF ValueHolds, SignedHolds
<1>5. AddValue(a)'
  <2>1. adds'[a].outputs = {v}
    BY DEF v
  <2> QED
    BY <1>0, <1>1, <1>2, <1>3, <2>1 DEF AddValue
<1>6. ASSUME NEW b \in Adds \ {a} PROVE AddValue(b)'
  BY <1>0 DEF ValueHolds, AddValue, SameAdd
<1>7. ASSUME NEW c \in Outs PROVE (OutValue(c) /\ MeltValue(c))'
  BY <1>0 DEF ValueHolds, OutValue, MeltValue, Untouched, PaidOut, Recovered, Awaits
<1>8. KeepsRequests
  BY <1>0 DEF KeepsRequests, RequestHolds, SameAdd
<1> QED
  BY <1>4, <1>5, <1>6, <1>7, <1>8 DEF ValueHolds

(* What the records hold has been signed, and what they await was drawn.   *)
LEMMA HeldIsSigned ==
  ASSUME ValueHolds
  PROVE  \A c \in Outs : outs[c].reserved \subseteq signed
BY DEF ValueHolds, SignedHolds, MeltValue, Untouched, PaidOut, Recovered

(* Inspect: a cash-out that the mint has not touched draws its recovery.   *)
LEMMA DrawOutValue ==
  ASSUME ValueHolds, RecordTypes', NEW c \in Outs, outs[c].recovery = {}, outs[c].reserved # {},
         outs'[c].recovery = {<<"out", c, outs[c].drawn>>}, outs'[c].drawn = outs[c].drawn + 1,
         outs'[c].reserved = outs[c].reserved, outs'[c].change = outs[c].change,
         \A d \in Outs \ {c} : SameOut(d), UNCHANGED <<proofs, adds, mint>>
  PROVE  ValueHolds' /\ KeepsRequests
<1> DEFINE v == <<"out", c, outs[c].drawn>>
<1>0. /\ c \in Nat /\ outs[c].drawn \in Nat
      /\ proofs \subseteq signed /\ spent \subseteq signed /\ UNCHANGED <<melts, signed, spent, quotes>>
  BY Indices DEF ValueHolds, RecordTypes, OutRecord, SignedHolds, mint
<1>1. v \notin signed
  BY NextIsNew
<1>2. /\ v \in DrawnBy("out", c, outs'[c].drawn) /\ v \notin DrawnBy("out", c, outs[c].drawn)
      /\ DrawnBy("out", c, outs[c].drawn) \subseteq DrawnBy("out", c, outs'[c].drawn)
  <2>1. /\ v \in DrawnBy("out", c, outs[c].drawn + 1) /\ v \notin DrawnBy("out", c, outs[c].drawn)
        /\ DrawnBy("out", c, outs[c].drawn) \subseteq DrawnBy("out", c, outs[c].drawn + 1)
    BY <1>0, Names
  <2> HIDE DEF v
  <2> QED
    BY <2>1
<1> HIDE DEF v
<1>3. \A d \in Outs : outs'[d].reserved = outs[d].reserved /\ v \notin outs[d].reserved
  BY <1>1, HeldIsSigned DEF SameOut
<1>4. outs'[c].recovery = {v} /\ \A w : w \in Awaits(c)' <=> w \in Awaits(c) \/ w = v
  BY DEF v, Awaits
<1>5. SignedHolds'
  <2>1. \A w : Named(w) => Named(w)'
    BY <1>2 DEF Named, SameOut
  <2>2. \A w : Placed(w) => Placed(w)'
    BY <1>4 DEF Placed, SameOut, Awaits
  <2> QED
    BY <1>0, <2>1, <2>2 DEF ValueHolds, SignedHolds
<1>6. ASSUME NEW a \in Adds PROVE AddValue(a)'
  BY <1>0, <1>3 DEF ValueHolds, AddValue
<1>7. (OutValue(c) /\ MeltValue(c))'
  <2>1. OutValue(c) /\ MeltValue(c)
    BY DEF ValueHolds
  <2>2. OutValue(c)'
    BY <1>0, <1>1, <1>2, <1>3, <1>4, <2>1 DEF OutValue, Awaits
  <2>3. MeltValue(c)'
    BY <1>0, <1>1, <1>4, <2>1 DEF MeltValue, Untouched, PaidOut, Recovered
  <2> QED
    BY <2>2, <2>3
<1>8. ASSUME NEW d \in Outs \ {c} PROVE (OutValue(d) /\ MeltValue(d))'
  <2>1. OutValue(d) /\ MeltValue(d) /\ SameOut(d) /\ Awaits(d)' = Awaits(d)
    BY DEF ValueHolds, SameOut, Awaits
  <2>2. OutValue(d)'
    BY <1>0, <1>3, <2>1 DEF OutValue, SameOut
  <2>3. MeltValue(d)'
    BY <1>0, <2>1 DEF MeltValue, SameOut, Untouched, PaidOut, Recovered
  <2> QED
    BY <2>2, <2>3
<1>9. KeepsRequests
  BY <1>0 DEF KeepsRequests, RequestHolds, SameOut
<1> QED
  BY <1>5, <1>6, <1>7, <1>8, <1>9 DEF ValueHolds

(* Confirm: proofs are set aside for a cash-out, with outputs for change.  *)
LEMMA ReserveValue ==
  ASSUME ValueHolds, RecordTypes', NEW c \in Outs, outs[c].reserved = {}, outs[c].drawn = 0,
         melts[c].state = "unpaid", NEW send, send # {}, send \subseteq proofs,
         outs'[c].reserved = send, outs'[c].change = {<<"out", c, 0>>},
         outs'[c].recovery = {}, outs'[c].drawn = 1, proofs' = proofs \ send,
         \A d \in Outs \ {c} : SameOut(d), UNCHANGED <<adds, mint>>
  PROVE  ValueHolds' /\ KeepsRequests
<1> DEFINE v == <<"out", c, 0>>
<1>0. /\ c \in Nat /\ proofs \subseteq signed \ spent /\ spent \subseteq signed
      /\ UNCHANGED <<melts, signed, spent, quotes>>
  BY Indices DEF ValueHolds, SignedHolds, mint
<1>1. v \notin signed
  BY NextIsNew
<1>2. v \in DrawnBy("out", c, 1)
  BY <1>0, Names
<1>3. \A w \in DrawnBy("out", c, 0) : FALSE
  BY DEF DrawnBy
<1> HIDE DEF v
<1>4. \A d \in Outs : v \notin outs[d].reserved
  BY <1>1, HeldIsSigned
<1>5. Awaits(c) = {} /\ Awaits(c)' = {v} /\ outs'[c].change = {v}
  BY DEF ValueHolds, OutValue, Awaits, v
<1>6. SignedHolds'
  <2>1. \A w : Named(w) => Named(w)'
    BY <1>3 DEF Named, SameOut
  <2>2. \A w : Placed(w) => Placed(w)'
    BY <1>5 DEF Placed, SameOut, Awaits
  <2> QED
    BY <1>0, <2>1, <2>2 DEF ValueHolds, SignedHolds
<1>7. ASSUME NEW a \in Adds PROVE AddValue(a)'
  BY <1>0 DEF ValueHolds, AddValue, SameOut
<1>8. (OutValue(c) /\ MeltValue(c))'
  <2>1. OutValue(c)'
    <3>1. \A d \in Outs \ {c} : outs'[d].reserved \cap proofs = {} /\ v \notin outs'[d].reserved
      BY <1>4 DEF ValueHolds, OutValue, SameOut
    <3> QED
      BY <1>0, <1>1, <1>2, <1>5, <3>1 DEF OutValue
  <2>2. MeltValue(c)'
    BY <1>0, <1>1, <1>5 DEF MeltValue, Untouched
  <2> QED
    BY <2>1, <2>2
<1>9. ASSUME NEW d \in Outs \ {c} PROVE (OutValue(d) /\ MeltValue(d))'
  <2>1. OutValue(d) /\ MeltValue(d) /\ SameOut(d) /\ Awaits(d)' = Awaits(d)
    BY DEF ValueHolds, SameOut, Awaits
  <2>2. OutValue(d)'
    <3>1. \A e \in Outs \ {c} : outs'[e].reserved = outs[e].reserved
      BY DEF SameOut
    <3> QED
      BY <1>0, <2>1, <3>1 DEF OutValue, SameOut
  <2>3. MeltValue(d)'
    BY <1>0, <2>1 DEF MeltValue, SameOut, Untouched, PaidOut, Recovered
  <2> QED
    BY <2>2, <2>3
<1>10. KeepsRequests
  BY <1>0 DEF KeepsRequests, RequestHolds, SameOut
<1> QED
  BY <1>6, <1>7, <1>8, <1>9, <1>10 DEF ValueHolds

(* What two records await was drawn for each of them.                      *)
LEMMA AwaitedApart ==
  ASSUME ValueHolds
  PROVE  /\ \A a, b \in Adds : \A v \in adds[a].outputs : v \in adds[b].outputs => a = b
         /\ \A a \in Adds, c \in Outs : \A v \in adds[a].outputs : v \notin Awaits(c)
         /\ \A c, d \in Outs : \A v \in Awaits(c) : v \in Awaits(d) => c = d
         /\ \A a \in Adds : \A v \in adds[a].outputs : Named(v)
         /\ \A c \in Outs : \A v \in Awaits(c) : Named(v)
<1>1. /\ \A a \in Adds : adds[a].outputs \subseteq DrawnBy("add", a, adds[a].drawn)
      /\ \A c \in Outs : Awaits(c) \subseteq DrawnBy("out", c, outs[c].drawn)
  BY DEF ValueHolds, AddValue, OutValue
<1>2. /\ \A a \in Adds : \A v \in adds[a].outputs : \A k, o, m :
           v \in DrawnBy(k, o, m) => k = "add" /\ o = a
      /\ \A c \in Outs : \A v \in Awaits(c) : \A k, o, m :
           v \in DrawnBy(k, o, m) => k = "out" /\ o = c
  BY <1>1, DrawnApart
<1>3. ASSUME NEW a \in Adds, NEW c \in Outs, NEW v \in adds[a].outputs PROVE v \notin Awaits(c)
  BY <1>1, <1>2
<1>4. ASSUME NEW a \in Adds, NEW b \in Adds, NEW v \in adds[a].outputs, v \in adds[b].outputs PROVE a = b
  BY <1>1, <1>2, <1>4
<1>5. ASSUME NEW c \in Outs, NEW d \in Outs, NEW v \in Awaits(c), v \in Awaits(d) PROVE c = d
  BY <1>1, <1>2, <1>5
<1>6. /\ \A a \in Adds : \A v \in adds[a].outputs : Named(v)
      /\ \A c \in Outs : \A v \in Awaits(c) : Named(v)
  BY <1>1 DEF Named
<1> QED
  BY <1>3, <1>4, <1>5, <1>6

(* Issue and RestoreAdd: what an add awaited has been signed, and is added *)
(* to the balance.                                                         *)
LEMMA SettleValue ==
  ASSUME ValueHolds, RecordTypes', NEW a \in Adds, adds'[a].outputs = {},
         adds'[a].drawn = adds[a].drawn, \A b \in Adds \ {a} : SameAdd(b),
         proofs' = proofs \cup adds[a].outputs, signed' = signed \cup adds[a].outputs,
         quotes'[a] = "issued", \A b \in Adds \ {a} : quotes'[b] = quotes[b],
         UNCHANGED <<outs, melts, spent>>
  PROVE  ValueHolds' /\ KeepsRequests
<1> DEFINE S == adds[a].outputs
<1>0. /\ AddValue(a) /\ S \cap (proofs \cup spent) = {}
      /\ \A c \in Outs : S \cap outs[c].reserved = {}
      /\ proofs \subseteq signed \ spent /\ spent \subseteq signed
  BY DEF ValueHolds, AddValue, SignedHolds
<1>1. /\ \A b \in Adds \ {a} : S \cap adds[b].outputs = {}
      /\ \A c \in Outs : S \cap Awaits(c) = {}
      /\ \A v \in S : Named(v)
  BY AwaitedApart
<1>2. \A c \in Outs : Awaits(c)' = Awaits(c)
  BY DEF Awaits
<1>3. SignedHolds'
  <2>1. \A v : Named(v) => Named(v)'
    BY DEF Named, SameAdd
  <2>2. \A v : Placed(v) => Placed(v)'
    BY <1>2 DEF Placed, SameAdd
  <2>3. \A v \in S : Placed(v)'
    BY DEF Placed
  <2> QED
    BY <1>0, <1>1, <2>1, <2>2, <2>3 DEF ValueHolds, SignedHolds
<1>4. AddValue(a)'
  BY <1>0 DEF AddValue
<1>5. ASSUME NEW b \in Adds \ {a} PROVE AddValue(b)'
  <2>1. AddValue(b) /\ S \cap adds[b].outputs = {}
    BY <1>1 DEF ValueHolds
  <2> QED
    BY <2>1 DEF AddValue, SameAdd
<1>6. ASSUME NEW c \in Outs PROVE (OutValue(c) /\ MeltValue(c))'
  <2>1. OutValue(c) /\ MeltValue(c) /\ S \cap Awaits(c) = {} /\ S \cap outs[c].reserved = {}
    BY <1>0, <1>1 DEF ValueHolds
  <2>2. OutValue(c)'
    BY <1>2, <2>1 DEF OutValue
  <2>3. MeltValue(c)'
    BY <1>2, <2>1 DEF MeltValue, Untouched, PaidOut, Recovered, Awaits
  <2> QED
    BY <2>2, <2>3
<1>7. KeepsRequests
  BY DEF KeepsRequests, RequestHolds, SameAdd
<1> QED
  BY <1>3, <1>4, <1>5, <1>6, <1>7 DEF ValueHolds

(* A cash-out ends: its proofs are spent, what was signed of what it       *)
(* awaited is added to the balance.                                        *)
LEMMA EndValue ==
  ASSUME ValueHolds, RecordTypes', NEW c \in Outs, NEW gained, gained \subseteq Awaits(c),
         Awaits(c) \cap signed \subseteq gained, melts[c].state # "pending",
         outs'[c].reserved = {}, Awaits(c)' = {},
         outs'[c].drawn = outs[c].drawn, \A d \in Outs \ {c} : SameOut(d),
         proofs' = proofs \cup gained, signed' = signed \cup gained,
         spent' = spent \cup outs[c].reserved,
         UNCHANGED <<adds, melts, quotes>>
  PROVE  ValueHolds' /\ KeepsRequests
<1> DEFINE R == outs[c].reserved
<1>0. /\ gained \cap (proofs \cup spent) = {} /\ R \cap proofs = {} /\ R \subseteq signed
      /\ \A d \in Outs : gained \cap outs[d].reserved = {}
      /\ \A d \in Outs \ {c} : R \cap outs[d].reserved = {}
      /\ proofs \subseteq signed \ spent /\ spent \subseteq signed
  BY HeldIsSigned DEF ValueHolds, OutValue, SignedHolds
<1>1. /\ \A a \in Adds : gained \cap adds[a].outputs = {}
      /\ \A d \in Outs \ {c} : gained \cap Awaits(d) = {}
      /\ \A v \in gained : Named(v)
  BY AwaitedApart
<1>2. \A d \in Outs \ {c} : Awaits(d)' = Awaits(d)
  BY DEF Awaits, SameOut
<1>3. SignedHolds'
  <2>1. \A v : Named(v) => Named(v)'
    BY DEF Named, SameOut
  <2>2. ASSUME NEW v \in signed' \ spent' PROVE Placed(v)'
    <3>1. v \in gained => Placed(v)'
      BY DEF Placed
    <3>2. v \notin gained => v \in signed \ spent /\ v \notin R /\ v \notin Awaits(c) /\ Placed(v)
      BY DEF ValueHolds, SignedHolds
    <3>3. v \notin R /\ v \notin Awaits(c) /\ Placed(v) => Placed(v)'
      BY <1>2 DEF Placed, SameOut
    <3> QED
      BY <3>1, <3>2, <3>3
  <2> QED
    BY <1>0, <1>1, <2>1, <2>2 DEF ValueHolds, SignedHolds
<1>4. ASSUME NEW a \in Adds PROVE AddValue(a)'
  <2>1. AddValue(a) /\ gained \cap adds[a].outputs = {} /\ adds[a].outputs \cap R = {}
    BY <1>1 DEF ValueHolds, AddValue
  <2>2. \A d \in Outs : adds[a].outputs \cap outs'[d].reserved = {}
    BY <2>1 DEF AddValue, SameOut
  <2> QED
    BY <2>1, <2>2 DEF AddValue
<1>5. (OutValue(c) /\ MeltValue(c))'
  <2>1. \A d \in Outs : Awaits(c)' \cap outs'[d].reserved = {}
    OBVIOUS
  <2>2. outs'[c].change = {} /\ outs'[c].recovery = {}
    BY DEF Awaits
  <2> QED
    BY <1>0, <2>1, <2>2 DEF OutValue, MeltValue
<1>6. ASSUME NEW d \in Outs \ {c} PROVE (OutValue(d) /\ MeltValue(d))'
  <2>1. /\ OutValue(d) /\ MeltValue(d) /\ SameOut(d) /\ Awaits(d)' = Awaits(d)
        /\ gained \cap Awaits(d) = {} /\ gained \cap outs[d].reserved = {}
        /\ R \cap outs[d].reserved = {} /\ R \cap Awaits(d) = {}
    BY <1>0, <1>1, <1>2 DEF ValueHolds, OutValue
  <2>2. OutValue(d)'
    <3>1. \A e \in Outs \ {c} : outs'[e].reserved = outs[e].reserved
      BY DEF SameOut
    <3> QED
      BY <2>1, <3>1 DEF OutValue, SameOut
  <2>3. MeltValue(d)'
    BY <2>1 DEF MeltValue, SameOut, Untouched, PaidOut, Recovered, Awaits
  <2> QED
    BY <2>2, <2>3
<1>7. KeepsRequests
  BY DEF KeepsRequests, RequestHolds, SameOut
<1> QED
  BY <1>3, <1>4, <1>5, <1>6, <1>7 DEF ValueHolds

(* A request is served only while what it is about is still its record's.  *)
LEMMA ServedInTime ==
  ASSUME ValueHolds, NEW r \in Requests, RequestHolds(r), Serves(r)
  PROVE  /\ r.kind = "issue" => r.op \in Adds /\ r.outputs = adds[r.op].outputs
         /\ r.kind # "issue" => /\ r.op \in Outs /\ melts[r.op].state = "unpaid"
                                /\ r.inputs = outs[r.op].reserved /\ r.inputs # {}
                                /\ Untouched(r.op)
         /\ r.kind = "melt" => r.outputs = outs[r.op].change
         /\ r.kind = "swap" => r.outputs = outs[r.op].recovery
<1>1. CASE r.kind = "issue"
  BY <1>1 DEF RequestHolds, Serves
<1>2. CASE r.kind # "issue"
  <2>0. r.kind \in {"melt", "swap"}
    BY <1>2 DEF Requests
  <2>1. r.op \in Outs /\ Live(r.inputs) /\ r.inputs # {}
    BY <1>2, <2>0 DEF RequestHolds, Serves
  <2>2. /\ r.inputs = outs[r.op].reserved
        /\ r.kind = "melt" => r.outputs = outs[r.op].change
        /\ r.kind = "swap" => r.outputs = outs[r.op].recovery
    BY <2>0, <2>1 DEF RequestHolds, Live
  <2>3. MeltValue(r.op) /\ melts[r.op].state \in {"unpaid", "pending", "paid"}
    BY <2>1 DEF ValueHolds, RecordTypes, MeltRecord
  <2>4. Untouched(r.op)
    BY <2>1, <2>2, <2>3 DEF MeltValue, PaidOut, Recovered, Live
  <2>5. melts[r.op].state # "pending"
    <3> SUFFICES ASSUME melts[r.op].state = "pending" PROVE FALSE
      OBVIOUS
    <3>1. melts[r.op].inputs = r.inputs
      BY <2>2, <2>3 DEF MeltValue
    <3>2. melts[r.op].inputs \subseteq Held
      BY <2>1 DEF Held
    <3> QED
      BY <2>1, <3>1, <3>2 DEF Live
  <2> QED
    BY <1>2, <2>1, <2>2, <2>3, <2>4, <2>5 DEF Untouched
<1> QED
  BY <1>1, <1>2

LEMMA RequestKinds == \A r \in Requests : r.kind \in {"issue", "melt", "swap"}
BY DEF Requests

(* The mint serves a request whose answer nobody has used yet.             *)
LEMMA IssueValue ==
  ASSUME ValueHolds, RecordTypes', NEW r \in Requests, RequestHolds(r), Serve(r),
         r.kind = "issue", UNCHANGED snapshot
  PROVE  ValueHolds' /\ KeepsRequests
<1> DEFINE a == r.op
<1>0. /\ a \in Adds /\ r.outputs = adds[a].outputs /\ signed' = signed \cup adds[a].outputs
      /\ quotes' = [quotes EXCEPT ![a] = "issued"] /\ UNCHANGED <<melts, spent>>
  BY ServedInTime DEF Serve
<1>1. \A b \in Adds : quotes'[b] = IF b = a THEN "issued" ELSE quotes[b]
  BY <1>0 DEF ValueHolds, RecordTypes
<1> HIDE DEF a
<1>2. /\ \A b \in Adds \ {a} : adds[a].outputs \cap adds[b].outputs = {}
      /\ \A c \in Outs : adds[a].outputs \cap Awaits(c) = {}
      /\ \A v \in adds[a].outputs : Named(v)
      /\ \A c \in Outs : Awaits(c)' = Awaits(c)
  BY <1>0, AwaitedApart DEF Awaits, snapshot
<1>3. UNCHANGED <<proofs, adds, outs>>
  BY DEF snapshot
<1>4. SignedHolds'
  <2>1. \A v : Named(v) => Named(v)'
    BY <1>3 DEF Named
  <2>2. \A v : Placed(v) => Placed(v)'
    BY <1>2, <1>3 DEF Placed
  <2>3. \A v \in adds[a].outputs : Placed(v)'
    BY <1>0, <1>3 DEF Placed
  <2> QED
    BY <1>0, <1>2, <1>3, <2>1, <2>2, <2>3 DEF ValueHolds, SignedHolds
<1>5. ASSUME NEW b \in Adds PROVE AddValue(b)'
  BY <1>0, <1>1, <1>2, <1>3 DEF ValueHolds, AddValue
<1>6. ASSUME NEW c \in Outs PROVE (OutValue(c) /\ MeltValue(c))'
  <2>1. OutValue(c) /\ MeltValue(c) /\ adds[a].outputs \cap Awaits(c) = {}
    BY <1>2 DEF ValueHolds
  <2>2. OutValue(c)'
    BY <1>0, <1>2, <1>3, <2>1 DEF OutValue
  <2>3. MeltValue(c)'
    BY <1>0, <1>2, <1>3, <2>1 DEF MeltValue, Untouched, PaidOut, Recovered, Awaits
  <2> QED
    BY <2>2, <2>3
<1>7. KeepsRequests
  BY <1>0, <1>1, <1>3 DEF KeepsRequests, RequestHolds
<1> QED
  BY <1>4, <1>5, <1>6, <1>7 DEF ValueHolds

LEMMA MeltStarts ==
  ASSUME ValueHolds, RecordTypes', NEW r \in Requests, RequestHolds(r), Serve(r),
         r.kind = "melt", UNCHANGED snapshot
  PROVE  ValueHolds' /\ KeepsRequests
<1> DEFINE c == r.op
<1>0. /\ c \in Outs /\ Untouched(c) /\ r.inputs = outs[c].reserved /\ r.outputs = outs[c].change
      /\ outs[c].reserved # {}
      /\ melts' = [melts EXCEPT ![c] = [state |-> "pending", inputs |-> r.inputs,
                                        outputs |-> r.outputs]]
      /\ UNCHANGED <<quotes, signed, spent, proofs, adds, outs>>
  BY ServedInTime DEF Serve, snapshot
<1>1. /\ melts'[c] = [state |-> "pending", inputs |-> r.inputs, outputs |-> r.outputs]
      /\ \A d \in Outs \ {c} : melts'[d] = melts[d]
  BY <1>0 DEF ValueHolds, RecordTypes
<1> HIDE DEF c
<1>2. SignedHolds' /\ (\A a \in Adds : AddValue(a)') /\ \A d \in Outs : OutValue(d)'
  BY <1>0 DEF ValueHolds, SignedHolds, AddValue, OutValue, Named, Placed, Awaits
<1>3. MeltValue(c)'
  BY <1>0, <1>1 DEF MeltValue, Untouched, Awaits
<1>4. ASSUME NEW d \in Outs \ {c} PROVE MeltValue(d)'
  BY <1>0, <1>1 DEF ValueHolds, MeltValue, Untouched, PaidOut, Recovered, Awaits
<1>5. KeepsRequests
  BY <1>0 DEF KeepsRequests, RequestHolds
<1> QED
  BY <1>2, <1>3, <1>4, <1>5 DEF ValueHolds

LEMMA SwapValue ==
  ASSUME ValueHolds, RecordTypes', NEW r \in Requests, RequestHolds(r), Serve(r),
         r.kind = "swap", UNCHANGED snapshot
  PROVE  ValueHolds' /\ KeepsRequests
<1> DEFINE c == r.op
           R == outs[c].reserved
           N == outs[c].recovery
<1>0. /\ c \in Outs /\ Untouched(c) /\ r.inputs = R /\ r.outputs = N /\ R # {} /\ N # {}
      /\ melts[c].state = "unpaid" /\ signed' = signed \cup N /\ spent' = spent \cup R
      /\ UNCHANGED <<quotes, melts, proofs, adds, outs>>
  BY ServedInTime DEF Serve, snapshot, RequestHolds
<1> HIDE DEF c
<1>1. /\ \A a \in Adds : N \cap adds[a].outputs = {} /\ adds[a].outputs \cap R = {}
      /\ \A d \in Outs \ {c} : N \cap Awaits(d) = {} /\ R \cap outs[d].reserved = {}
      /\ \A d \in Outs : Awaits(d) \cap R = {} /\ N \cap outs[d].reserved = {}
      /\ N \cap outs[c].change = {} /\ R \cap proofs = {} /\ N \cap (proofs \cup spent) = {}
      /\ \A v \in N : Named(v)
  <2>1. N \subseteq Awaits(c)
    BY DEF Awaits
  <2>2. OutValue(c) /\ \A a \in Adds : AddValue(a)
    BY <1>0 DEF ValueHolds
  <2>3. /\ \A a \in Adds : N \cap adds[a].outputs = {}
        /\ \A d \in Outs \ {c} : N \cap Awaits(d) = {}
        /\ \A v \in N : Named(v)
    BY <1>0, <2>1, AwaitedApart
  <2>4. \A d \in Outs : Awaits(d) \cap R = {}
    BY <1>0 DEF ValueHolds, OutValue
  <2>5. /\ \A a \in Adds : adds[a].outputs \cap R = {}
        /\ \A d \in Outs \ {c} : R \cap outs[d].reserved = {}
        /\ \A d \in Outs : N \cap outs[d].reserved = {}
        /\ N \cap outs[c].change = {} /\ R \cap proofs = {} /\ N \cap (proofs \cup spent) = {}
    BY <1>0, <2>1, <2>2 DEF OutValue, AddValue
  <2> QED
    BY <2>3, <2>4, <2>5
<1>2. \A d \in Outs : Awaits(d)' = Awaits(d)
  BY <1>0 DEF Awaits
<1>3. SignedHolds'
  <2>1. \A v : Named(v) => Named(v)'
    BY <1>0 DEF Named
  <2>2. \A v : Placed(v) => Placed(v)'
    BY <1>0, <1>2 DEF Placed
  <2>3. \A v \in N : Placed(v)'
    BY <1>0 DEF Placed, Awaits
  <2>4. R \subseteq signed
    BY <1>0 DEF Untouched
  <2> QED
    BY <1>0, <1>1, <2>1, <2>2, <2>3, <2>4 DEF ValueHolds, SignedHolds
<1>4. ASSUME NEW a \in Adds PROVE AddValue(a)'
  <2>1. AddValue(a) /\ N \cap adds[a].outputs = {} /\ adds[a].outputs \cap R = {}
    BY <1>1 DEF ValueHolds
  <2> QED
    BY <1>0, <2>1 DEF AddValue
<1>5. (OutValue(c) /\ MeltValue(c))'
  <2>1. OutValue(c)
    BY <1>0 DEF ValueHolds
  <2>2. OutValue(c)'
    BY <1>0, <1>1, <1>2, <2>1 DEF OutValue
  <2>3. MeltValue(c)'
    BY <1>0, <1>1 DEF MeltValue, Untouched, Recovered, Awaits
  <2> QED
    BY <2>2, <2>3
<1>6. ASSUME NEW d \in Outs \ {c} PROVE (OutValue(d) /\ MeltValue(d))'
  <2>1. /\ OutValue(d) /\ MeltValue(d) /\ N \cap Awaits(d) = {}
        /\ R \cap outs[d].reserved = {} /\ Awaits(d) \cap R = {}
    BY <1>1 DEF ValueHolds
  <2>2. OutValue(d)'
    BY <1>0, <1>2, <2>1 DEF OutValue
  <2>3. MeltValue(d)'
    BY <1>0, <2>1 DEF MeltValue, Untouched, PaidOut, Recovered, Awaits
  <2> QED
    BY <2>2, <2>3
<1>7. KeepsRequests
  BY <1>0 DEF KeepsRequests, RequestHolds
<1> QED
  BY <1>3, <1>4, <1>5, <1>6, <1>7 DEF ValueHolds

LEMMA ServeValue ==
  ASSUME ValueHolds, RecordTypes', NEW r \in Requests, RequestHolds(r), Serve(r), UNCHANGED snapshot
  PROVE  ValueHolds' /\ KeepsRequests
BY RequestKinds, IssueValue, MeltStarts, SwapValue

LEMMA ResolveValue ==
  ASSUME ValueHolds, NEW c \in Outs, Resolve(c)
  PROVE  ValueHolds' /\ KeepsRequests
<1> DEFINE R == outs[c].reserved
           N == outs[c].change
<1>0. /\ melts[c].inputs = R /\ melts[c].outputs = N /\ R # {} /\ Untouched(c)
      /\ melts[c].state = "pending" /\ OutValue(c)
      /\ UNCHANGED <<proofs, adds, outs, quotes>>
  BY DEF ValueHolds, MeltValue, Resolve, snapshot, PaidOut, Recovered
<1>1. melts \in [Outs -> MeltRecord] /\ R \subseteq Proofs /\ N \subseteq Outputs
  BY DEF ValueHolds, RecordTypes, OutRecord
<1>2. /\ \A d \in Outs : Awaits(d)' = Awaits(d)
      /\ \A v : Named(v) => Named(v)'
      /\ \A v : Placed(v) => Placed(v)'
  BY <1>0 DEF Awaits, Named, Placed
<1>3. /\ \A a \in Adds : N \cap adds[a].outputs = {} /\ adds[a].outputs \cap R = {}
      /\ \A d \in Outs \ {c} : N \cap Awaits(d) = {} /\ R \cap outs[d].reserved = {}
      /\ \A d \in Outs : Awaits(d) \cap R = {} /\ N \cap outs[d].reserved = {}
      /\ N \cap outs[c].recovery = {} /\ R \cap proofs = {} /\ N \cap (proofs \cup spent) = {}
      /\ \A v \in N : Named(v)
  <2>1. N \subseteq Awaits(c)
    BY DEF Awaits
  <2>2. \A a \in Adds : AddValue(a)
    BY DEF ValueHolds
  <2>3. /\ \A a \in Adds : N \cap adds[a].outputs = {}
        /\ \A d \in Outs \ {c} : N \cap Awaits(d) = {}
        /\ \A v \in N : Named(v)
    BY <2>1, AwaitedApart
  <2>4. \A d \in Outs : Awaits(d) \cap R = {}
    BY DEF ValueHolds, OutValue
  <2>5. /\ \A a \in Adds : adds[a].outputs \cap R = {}
        /\ \A d \in Outs \ {c} : R \cap outs[d].reserved = {}
        /\ \A d \in Outs : N \cap outs[d].reserved = {}
        /\ N \cap outs[c].recovery = {} /\ R \cap proofs = {} /\ N \cap (proofs \cup spent) = {}
    BY <1>0, <2>1, <2>2 DEF OutValue, AddValue
  <2> QED
    BY <2>3, <2>4, <2>5
<1>4. CASE /\ melts' = [melts EXCEPT ![c].state = "paid"]
           /\ spent' = spent \cup R
           /\ signed' = signed \cup N \/ signed' = signed
  <2>1. /\ melts'[c] = [state |-> "paid", inputs |-> R, outputs |-> N]
        /\ \A d \in Outs \ {c} : melts'[d] = melts[d]
        /\ melts' \in [Outs -> MeltRecord]
    BY <1>0, <1>1, <1>4 DEF MeltRecord
  <2>2. signed \subseteq signed' /\ signed' \subseteq signed \cup N /\ R \subseteq signed
    BY <1>0, <1>4 DEF Untouched
  <2>3. RecordTypes'
    BY <1>0, <2>1 DEF ValueHolds, RecordTypes
  <2>4. SignedHolds'
    <3>1. \A v \in N : Placed(v)'
      BY <1>0 DEF Placed, Awaits
    <3> QED
      BY <1>0, <1>2, <1>3, <1>4, <2>2, <3>1 DEF ValueHolds, SignedHolds
  <2>5. ASSUME NEW a \in Adds PROVE AddValue(a)'
    <3>1. AddValue(a) /\ N \cap adds[a].outputs = {} /\ adds[a].outputs \cap R = {}
      BY <1>3 DEF ValueHolds
    <3> QED
      BY <1>0, <1>4, <2>2, <3>1 DEF AddValue
  <2>6. (OutValue(c) /\ MeltValue(c))'
    <3>1. OutValue(c)'
      BY <1>0, <1>2, <1>3, <1>4 DEF OutValue
    <3>2. MeltValue(c)'
      BY <1>0, <1>3, <1>4, <2>1, <2>2 DEF MeltValue, Untouched, PaidOut, Awaits
    <3> QED
      BY <3>1, <3>2
  <2>7. ASSUME NEW d \in Outs \ {c} PROVE (OutValue(d) /\ MeltValue(d))'
    <3>1. /\ OutValue(d) /\ MeltValue(d) /\ N \cap Awaits(d) = {}
          /\ R \cap outs[d].reserved = {} /\ Awaits(d) \cap R = {}
      BY <1>3 DEF ValueHolds
    <3>2. OutValue(d)'
      BY <1>0, <1>2, <1>4, <3>1 DEF OutValue
    <3>3. MeltValue(d)'
      BY <1>0, <1>4, <2>1, <2>2, <3>1 DEF MeltValue, Untouched, PaidOut, Recovered, Awaits
    <3> QED
      BY <3>2, <3>3
  <2>8. KeepsRequests
    BY <1>0, <1>4 DEF KeepsRequests, RequestHolds
  <2> QED
    BY <2>3, <2>4, <2>5, <2>6, <2>7, <2>8 DEF ValueHolds
<1>5. CASE /\ melts' = [melts EXCEPT ![c] = [state |-> "unpaid", inputs |-> {}, outputs |-> {}]]
           /\ UNCHANGED <<signed, spent>>
  <2>1. /\ melts'[c] = [state |-> "unpaid", inputs |-> {}, outputs |-> {}]
        /\ \A d \in Outs \ {c} : melts'[d] = melts[d]
        /\ melts' \in [Outs -> MeltRecord]
    BY <1>1, <1>5 DEF MeltRecord
  <2>2. RecordTypes' /\ SignedHolds'
    BY <1>0, <1>2, <1>5, <2>1 DEF ValueHolds, RecordTypes, SignedHolds
  <2>3. (\A a \in Adds : AddValue(a)') /\ \A d \in Outs : OutValue(d)'
    BY <1>0, <1>5 DEF ValueHolds, AddValue, OutValue, Awaits
  <2>4. MeltValue(c)'
    BY <1>0, <1>5, <2>1 DEF MeltValue, Untouched, Awaits
  <2>5. ASSUME NEW d \in Outs \ {c} PROVE MeltValue(d)'
    BY <1>0, <1>5, <2>1 DEF ValueHolds, MeltValue, Untouched, PaidOut, Recovered, Awaits
  <2>6. KeepsRequests
    BY <1>0, <1>5 DEF KeepsRequests, RequestHolds
  <2> QED
    BY <2>2, <2>3, <2>4, <2>5, <2>6 DEF ValueHolds
<1> QED
  BY <1>0, <1>4, <1>5 DEF Resolve
-----------------------------------------------------------------------------
(* The steps of the tabs.  Only the tab that has the lock works.           *)
HasLock(t) == \A u \in Tabs \ {t} : task[u].at \in Passive

LEMMA LockIsTaken ==
  ASSUME TabsHold, NEW t \in Tabs, task[t].at \notin Passive \/ ~Locked
  PROVE  HasLock(t)
BY DEF TabsHold, OneLock, HasLock, Locked, Passive

LEMMA TabStep ==
  ASSUME TabsHold, NEW t \in Tabs, HasLock(t) \/ UNCHANGED <<adds, outs>>,
         task[t].at \in Passive => HasLock(t) \/ task'[t].at \in Passive,
         NEW w \in Tasks, task' = [task EXCEPT ![t] = w], TaskHolds(t)', ReviewHolds(t)',
         review' \in [Tabs -> [seen : SUBSET Proofs, send : SUBSET Proofs]],
         \A u \in Tabs \ {t} : review'[u] = review[u],
         lapsed' = lapsed, faults' \in 0 .. MaxFaults
  PROVE  TabsHold'
<1>0. task \in [Tabs -> Tasks]
  BY DEF TabsHold, TabTypes
<1>1. task'[t] = w /\ (\A u \in Tabs \ {t} : task'[u] = task[u]) /\ task' \in [Tabs -> Tasks]
  BY <1>0
<1>2. TabTypes'
  BY <1>1 DEF TabsHold, TabTypes
<1>3. OneLock'
  BY <1>1 DEF TabsHold, OneLock, HasLock, Passive
<1>4. ASSUME NEW u \in Tabs \ {t} PROVE TaskHolds(u)' /\ ReviewHolds(u)'
  <2>1. TaskHolds(u) /\ ReviewHolds(u) /\ task'[u] = task[u] /\ review'[u] = review[u]
    BY <1>1 DEF TabsHold
  <2>2. CASE task[u].at \in Passive
    BY <2>1, <2>2 DEF TaskHolds, ReviewHolds, Passive
  <2>3. CASE UNCHANGED <<adds, outs>>
    BY <2>1, <2>3 DEF TaskHolds, ReviewHolds
  <2> QED
    BY <2>2, <2>3 DEF HasLock
<1> QED
  BY <1>2, <1>3, <1>4 DEF TabsHold

(* The mint's steps concern no tab.                                        *)
LEMMA MintTabs ==
  ASSUME TabsHold, UNCHANGED <<snapshot, task, review, faults>>, lapsed' \subseteq Adds
  PROVE  TabsHold'
<1>1. UNCHANGED <<adds, outs>>
  BY DEF snapshot
<1> QED
  BY <1>1 DEF TabsHold, TabTypes, OneLock, TaskHolds, ReviewHolds

LEMMA FaultType == ASSUME TabsHold, Fault \/ UNCHANGED faults PROVE faults' \in 0 .. MaxFaults
BY CashAssumption DEF TabsHold, TabTypes, Fault

(* The requests of a record are in order as long as they are its own.      *)
LEMMA OwnRequests ==
  ASSUME ValueHolds
  PROVE  /\ \A a \in Adds : adds[a].outputs # {} =>
              IssueRequest(a) \in Requests /\ RequestHolds(IssueRequest(a))
         /\ \A c \in Outs : outs[c].reserved # {} =>
              MeltRequest(c) \in Requests /\ RequestHolds(MeltRequest(c))
         /\ \A c \in Outs : outs[c].reserved # {} /\ outs[c].recovery # {} =>
              SwapRequest(c) \in Requests /\ RequestHolds(SwapRequest(c))
<1>0. adds \in [Adds -> AddRecord] /\ outs \in [Outs -> OutRecord]
  BY DEF ValueHolds, RecordTypes
<1>1. ASSUME NEW a \in Adds, adds[a].outputs # {}
      PROVE  IssueRequest(a) \in Requests /\ RequestHolds(IssueRequest(a))
  BY <1>0, <1>1 DEF IssueRequest, Request, Requests, RequestHolds, AddRecord
<1>2. ASSUME NEW c \in Outs, outs[c].reserved # {}
      PROVE  MeltRequest(c) \in Requests /\ RequestHolds(MeltRequest(c))
  <2>1. outs[c].change # {}
    BY <1>2 DEF ValueHolds, OutValue
  <2> QED
    BY <1>0, <1>2, <2>1 DEF MeltRequest, Request, Requests, RequestHolds, OutRecord
<1>3. ASSUME NEW c \in Outs, outs[c].reserved # {}, outs[c].recovery # {}
      PROVE  SwapRequest(c) \in Requests /\ RequestHolds(SwapRequest(c))
  BY <1>0, <1>3 DEF SwapRequest, Request, Requests, RequestHolds, OutRecord
<1> QED
  BY <1>1, <1>2, <1>3

LEMMA LateStep ==
  ASSUME LateHolds, KeepsRequests, NEW r \in Requests, RequestHolds(r),
         late' \subseteq late \cup {r}
  PROVE  LateHolds'
BY DEF LateHolds, KeepsRequests

(* A step that changes no more than the state of an add or a cash-out, or  *)
(* the key of an add.                                                      *)
LEMMA AddLabel ==
  ASSUME RecordsHold, NEW a \in Adds, NEW r \in AddRecord, adds' = [adds EXCEPT ![a] = r],
         r.outputs = adds[a].outputs, r.drawn = adds[a].drawn, r.state # "settled",
         UNCHANGED <<proofs, outs, mint>>
  PROVE  RecordsHold' /\ KeepsRequests
<1>0. RecordTypes /\ UNCHANGED <<quotes, melts, signed, spent>>
  BY DEF RecordsHold, ValueHolds, mint
<1>1. adds'[a] = r /\ \A b \in Adds \ {a} : adds'[b] = adds[b]
  BY <1>0 DEF RecordTypes
<1>2. RecordTypes'
  BY <1>0 DEF RecordTypes
<1>3. ValueHolds' /\ KeepsRequests
  BY <1>0, <1>1, <1>2, SameValue DEF RecordsHold, SameAdd, SameOut
<1>4. (\A b \in Adds : AddStateHolds(b)') /\ \A c \in Outs : OutStateHolds(c)'
  BY <1>0, <1>1 DEF RecordsHold, AddStateHolds, OutStateHolds
<1> QED
  BY <1>3, <1>4 DEF RecordsHold

LEMMA OutLabel ==
  ASSUME RecordsHold, NEW c \in Outs, NEW s \in {"pending", "unknown"},
         outs' = [outs EXCEPT ![c].state = s], UNCHANGED <<proofs, adds, mint>>
  PROVE  RecordsHold' /\ KeepsRequests
<1>0. RecordTypes /\ UNCHANGED <<quotes, melts, signed, spent>>
  BY DEF RecordsHold, ValueHolds, mint
<1>1. /\ outs'[c] = [outs[c] EXCEPT !.state = s] /\ \A d \in Outs \ {c} : outs'[d] = outs[d]
      /\ outs[c] \in OutRecord
  BY <1>0 DEF RecordTypes
<1>2. outs'[c] \in OutRecord /\ outs'[c].state = s
  BY <1>1 DEF OutRecord, OutStates
<1>3. SameOut(c)
  BY <1>1 DEF OutRecord, SameOut
<1>4. RecordTypes'
  BY <1>0, <1>1, <1>2 DEF RecordTypes
<1>5. ValueHolds' /\ KeepsRequests
  BY <1>0, <1>1, <1>3, <1>4, SameValue DEF RecordsHold, SameAdd, SameOut
<1>6. (\A a \in Adds : AddStateHolds(a)') /\ \A d \in Outs : OutStateHolds(d)'
  BY <1>0, <1>1, <1>2 DEF RecordsHold, AddStateHolds, OutStateHolds
<1> QED
  BY <1>5, <1>6 DEF RecordsHold

LEMMA SameRecords ==
  ASSUME RecordsHold, LateHolds, UNCHANGED <<snapshot, mint, late>>
  PROVE  RecordsHold' /\ LateHolds'
<1>1. UNCHANGED <<proofs, adds, outs, quotes, melts, signed, spent>>
  BY DEF snapshot, mint
<1>2. RecordTypes' /\ (\A a \in Adds : SameAdd(a)) /\ \A c \in Outs : SameOut(c)
  BY <1>1 DEF RecordsHold, ValueHolds, RecordTypes, SameAdd, SameOut
<1>3. ValueHolds' /\ KeepsRequests
  BY <1>1, <1>2, SameValue DEF RecordsHold
<1>4. LateHolds'
  BY <1>3 DEF LateHolds, KeepsRequests
<1> QED
  BY <1>1, <1>3, <1>4 DEF RecordsHold, AddStateHolds, OutStateHolds

(* What a person or the timer asks for waits for the lock.                 *)
LEMMA AskTabs ==
  ASSUME TabsHold, NEW t \in Tabs, Free(t), NEW job \in {"fund", "add", "out", "confirm"},
         NEW op \in Nat, Ask(t, job, op),
         job \in {"fund", "add"} => op \in Adds, job = "out" => op \in Outs,
         job = "confirm" => review[t] # NoReview,
         UNCHANGED <<snapshot, review, lapsed, faults>>
  PROVE  TabsHold'
<1> DEFINE w == [job |-> job, at |-> "waiting", op |-> op]
<1>0. /\ task \in [Tabs -> Tasks] /\ UNCHANGED <<adds, outs>> /\ ReviewHolds(t)
      /\ task[t].at \in Passive /\ faults \in 0 .. MaxFaults
      /\ review \in [Tabs -> [seen : SUBSET Proofs, send : SUBSET Proofs]]
  BY DEF TabsHold, TabTypes, Free, Passive, snapshot
<1>1. w \in Tasks /\ task' = [task EXCEPT ![t] = w]
  BY DEF Tasks, Places, Ask
<1>2. task'[t] = w /\ task'[t].at \in Passive
  BY <1>0, <1>1 DEF Passive
<1>3. TaskHolds(t)'
  BY <1>2 DEF TaskHolds
<1>4. ReviewHolds(t)'
  BY <1>0 DEF ReviewHolds
<1> HIDE DEF w
<1> QED
  BY <1>0, <1>1, <1>2, <1>3, <1>4, TabStep

LEMMA AskRefreshStep == ASSUME CashInv, NEW t \in Tabs, AskRefresh(t) PROVE CashInv'
<1>1. RecordsHold' /\ LateHolds'
  BY SameRecords DEF CashInv, AskRefresh
<1>2. \/ \E a \in Adds : Ask(t, "add", a) \/ Ask(t, "fund", a)
      \/ \E c \in Outs : Ask(t, "out", c)
  BY DEF AskRefresh
<1>3. TabsHold'
  BY <1>2, AskTabs, Indices DEF CashInv, AskRefresh
<1> QED
  BY <1>1, <1>3 DEF CashInv

LEMMA ResumeStep == ASSUME CashInv, NEW t \in Tabs, Resume(t) PROVE CashInv'
<1>1. RecordsHold' /\ LateHolds'
  BY SameRecords DEF CashInv, Resume
<1>2. (\E a \in Adds : Ask(t, "add", a)) \/ (\E c \in Outs : Ask(t, "out", c))
  BY DEF Resume
<1>3. TabsHold'
  BY <1>2, AskTabs, Indices DEF CashInv, Resume
<1> QED
  BY <1>1, <1>3 DEF CashInv

LEMMA AskConfirmStep == ASSUME CashInv, NEW t \in Tabs, AskConfirm(t) PROVE CashInv'
<1>1. RecordsHold' /\ LateHolds'
  BY SameRecords DEF CashInv, AskConfirm
<1>2. TabsHold'
  BY AskTabs DEF CashInv, AskConfirm
<1> QED
  BY <1>1, <1>2 DEF CashInv

LEMMA SpendableType == ASSUME ValueHolds PROVE signed \subseteq Proofs
<1>1. /\ \A a \in Adds : DrawnBy("add", a, adds[a].drawn) \subseteq Outputs
      /\ \A c \in Outs : DrawnBy("out", c, outs[c].drawn) \subseteq Outputs
  <2>1. /\ \A a \in Adds : a \in Nat /\ adds[a].drawn \in Nat
        /\ \A c \in Outs : c \in Nat /\ outs[c].drawn \in Nat
    BY Indices DEF ValueHolds, RecordTypes, AddRecord, OutRecord
  <2> QED
    BY <2>1 DEF DrawnBy, Outputs
<1> QED
  BY <1>1 DEF ValueHolds, SignedHolds, Named, Proofs

LEMMA ReviewStep ==
  ASSUME CashInv, NEW t \in Tabs, NEW send \in SUBSET proofs, ReviewCashOut(t, send)
  PROVE  CashInv'
<1>1. RecordsHold' /\ LateHolds'
  BY SameRecords DEF CashInv, ReviewCashOut
<1>2. proofs \subseteq Proofs
  BY SpendableType DEF CashInv, RecordsHold, ValueHolds, SignedHolds
<1>3. /\ TabTypes /\ OneLock /\ UNCHANGED <<adds, outs, task, lapsed, faults>>
      /\ task[t].at = "idle" /\ send # {}
      /\ review' = [review EXCEPT ![t] = [seen |-> proofs, send |-> send]]
  BY DEF CashInv, TabsHold, ReviewCashOut, Free, snapshot
<1>4. review'[t] = [seen |-> proofs, send |-> send] /\ \A u \in Tabs \ {t} : review'[u] = review[u]
  BY <1>3 DEF TabTypes
<1>5. TabTypes' /\ OneLock'
  BY <1>2, <1>3 DEF TabTypes, OneLock
<1>6. TaskHolds(t)' /\ ReviewHolds(t)'
  BY <1>3, <1>4 DEF TaskHolds, ReviewHolds
<1>7. ASSUME NEW u \in Tabs \ {t} PROVE TaskHolds(u)' /\ ReviewHolds(u)'
  <2>1. TaskHolds(u) /\ ReviewHolds(u)
    BY DEF CashInv, TabsHold
  <2> QED
    BY <1>3, <1>4, <2>1 DEF TaskHolds, ReviewHolds
<1> QED
  BY <1>1, <1>5, <1>6, <1>7 DEF CashInv, TabsHold
-----------------------------------------------------------------------------
(* The lock's holder, one handler at a time.                               *)
LEMMA HolderTabs ==
  ASSUME TabsHold, NEW t \in Tabs, HasLock(t), NEW w \in Tasks, task' = [task EXCEPT ![t] = w],
         TaskHolds(t)', Fault \/ UNCHANGED faults, UNCHANGED <<review, lapsed>>
  PROVE  TabsHold'
<1>1. faults' \in 0 .. MaxFaults
  BY FaultType
<1>2. ReviewHolds(t)' /\ review' \in [Tabs -> [seen : SUBSET Proofs, send : SUBSET Proofs]]
  BY DEF TabsHold, TabTypes, ReviewHolds
<1> QED
  BY <1>1, <1>2, TabStep

(* Where a handler goes next.                                              *)
LEMMA DoneMoves ==
  ASSUME TabsHold, NEW t \in Tabs, Done(t)
  PROVE  Idle \in Tasks /\ task' = [task EXCEPT ![t] = Idle] /\ task'[t] = Idle
<1>1. Idle \in Tasks
  BY DEF Idle, Tasks, Places
<1> QED
  BY <1>1 DEF Done, TabsHold, TabTypes

LEMMA GotoMoves ==
  ASSUME TabsHold, NEW t \in Tabs, NEW place \in Places, Goto(t, place)
  PROVE  \E w \in Tasks : /\ task' = [task EXCEPT ![t] = w] /\ w.at = place
                          /\ w.op = task[t].op /\ task'[t] = w
<1>0. task \in [Tabs -> Tasks]
  BY DEF TabsHold, TabTypes
<1> DEFINE w == [task[t] EXCEPT !.at = place]
<1>1. w \in Tasks /\ w.at = place /\ w.op = task[t].op
  BY <1>0 DEF Tasks
<1>2. task' = [task EXCEPT ![t] = w] /\ task'[t] = w
  BY <1>0 DEF Goto
<1> HIDE DEF w
<1> QED
  BY <1>1, <1>2

LEMMA AskMoves ==
  ASSUME TabsHold, NEW t \in Tabs, NEW job \in {"fund", "add", "out", "confirm"}, NEW op \in Nat,
         Ask(t, job, op)
  PROVE  \E w \in Tasks : /\ task' = [task EXCEPT ![t] = w] /\ w.at = "waiting"
                          /\ w.job = job /\ w.op = op /\ task'[t] = w
<1>0. task \in [Tabs -> Tasks]
  BY DEF TabsHold, TabTypes
<1> DEFINE w == [job |-> job, at |-> "waiting", op |-> op]
<1>1. w \in Tasks /\ w.at = "waiting" /\ w.job = job /\ w.op = op
  BY DEF Tasks, Places
<1>2. task' = [task EXCEPT ![t] = w] /\ task'[t] = w
  BY <1>0 DEF Ask
<1> HIDE DEF w
<1> QED
  BY <1>1, <1>2

LEMMA DoneTabs ==
  ASSUME TabsHold, NEW t \in Tabs, HasLock(t), Done(t), Fault \/ UNCHANGED faults,
         UNCHANGED <<review, lapsed>>
  PROVE  TabsHold'
<1>1. Idle \in Tasks /\ task' = [task EXCEPT ![t] = Idle] /\ task'[t] = Idle
  BY DoneMoves
<1>2. task'[t].at = "idle"
  BY <1>1 DEF Idle
<1>3. TaskHolds(t)'
  BY <1>2 DEF TaskHolds
<1> QED
  BY <1>1, <1>3, HolderTabs

(* To another place, about the same record.                                *)
LEMMA GotoTabs ==
  ASSUME TabsHold, NEW t \in Tabs, HasLock(t), NEW place \in Places \ Passive, Goto(t, place),
         Fault \/ UNCHANGED faults, UNCHANGED <<review, lapsed>>,
         place = "preparing" => task[t].op \in Adds /\ adds'[task[t].op].outputs = {},
         place \in {"issuing", "restoring add"} =>
           task[t].op \in Adds /\ adds'[task[t].op].outputs # {},
         place \in {"melting", "melted", "inspecting", "recovering", "restoring out"} =>
           task[t].op \in Outs /\ outs'[task[t].op].reserved # {},
         place = "inspecting" => outs'[task[t].op].recovery = {},
         place \in {"recovering", "restoring out"} => outs'[task[t].op].recovery # {}
  PROVE  TabsHold'
<1>0. place \in Places
  OBVIOUS
<1>1. PICK w \in Tasks : /\ task' = [task EXCEPT ![t] = w] /\ w.at = place
                         /\ w.op = task[t].op /\ task'[t] = w
  BY <1>0, GotoMoves
<1>2. TaskHolds(t)'
  BY <1>1 DEF TaskHolds, Passive
<1> QED
  BY <1>1, <1>2, HolderTabs

(* What the holder of the lock knows of its record.                        *)
LEMMA AtWork ==
  ASSUME CashInv, NEW t \in Tabs
  PROVE  /\ task[t].at = "preparing" =>
              HasLock(t) /\ task[t].op \in Adds /\ adds[task[t].op].outputs = {}
         /\ task[t].at \in {"issuing", "restoring add"} =>
              HasLock(t) /\ task[t].op \in Adds /\ adds[task[t].op].outputs # {}
         /\ task[t].at \in {"melting", "melted", "inspecting", "recovering", "restoring out"} =>
              HasLock(t) /\ task[t].op \in Outs /\ outs[task[t].op].reserved # {}
         /\ task[t].at = "inspecting" => outs[task[t].op].recovery = {}
         /\ task[t].at \in {"recovering", "restoring out"} => outs[task[t].op].recovery # {}
         /\ Starts(t, "fund") \/ Starts(t, "add") => HasLock(t) /\ task[t].op \in Adds
         /\ Starts(t, "out") => HasLock(t) /\ task[t].op \in Outs
         /\ Starts(t, "confirm") => HasLock(t) /\ review[t] # NoReview
<1>1. TaskHolds(t) /\ TabsHold
  BY DEF CashInv, TabsHold
<1>2. task[t].at \notin Passive \/ ~Locked => HasLock(t)
  BY <1>1, LockIsTaken
<1> QED
  BY <1>1, <1>2 DEF TaskHolds, Starts, Passive

LEMMA MintIsKept ==
  ASSUME UNCHANGED mint PROVE UNCHANGED quotes /\ UNCHANGED <<melts, signed, spent>>
BY DEF mint

LEMMA AddType ==
  ASSUME CashInv, NEW a \in Adds
  PROVE  adds \in [Adds -> AddRecord] /\ adds[a] \in AddRecord
BY DEF CashInv, RecordsHold, ValueHolds, RecordTypes

(* A commit that changes the state of an add and nothing else of value.    *)
LEMMA Relabelled ==
  ASSUME CashInv, NEW a \in Adds,
         NEW s \in {"awaiting_payment", "payment_observed", "expired", "recoverable"},
         adds' = [adds EXCEPT ![a].state = s] \/ adds' = adds, UNCHANGED <<proofs, outs, mint, late>>
  PROVE  /\ RecordsHold' /\ LateHolds'
         /\ adds'[a].outputs = adds[a].outputs
<1>0. adds \in [Adds -> AddRecord] /\ adds[a] \in AddRecord /\ RecordsHold /\ LateHolds
  BY AddType DEF CashInv
<1>1. CASE adds' = adds
  BY <1>0, <1>1, SameRecords DEF snapshot
<1>2. CASE adds' = [adds EXCEPT ![a].state = s]
  <2> DEFINE r == [adds[a] EXCEPT !.state = s]
  <2>1. /\ r \in AddRecord /\ r.outputs = adds[a].outputs /\ r.drawn = adds[a].drawn
        /\ r.state # "settled" /\ adds' = [adds EXCEPT ![a] = r]
        /\ adds'[a].outputs = adds[a].outputs
    BY <1>0, <1>2 DEF AddRecord, AddStates
  <2> HIDE DEF r
  <2>2. RecordsHold' /\ KeepsRequests
    BY <1>0, <2>1, AddLabel
  <2> QED
    BY <1>0, <2>1, <2>2 DEF LateHolds, KeepsRequests
<1> QED
  BY <1>1, <1>2

LEMMA AskAgainTabs ==
  ASSUME TabsHold, NEW t \in Tabs, HasLock(t), NEW job \in {"fund", "add"}, NEW a \in Adds,
         Ask(t, job, a), Fault \/ UNCHANGED faults, UNCHANGED <<review, lapsed>>
  PROVE  TabsHold'
<1>1. a \in Nat /\ job \in {"fund", "add", "out", "confirm"}
  BY Indices
<1>2. PICK w \in Tasks : /\ task' = [task EXCEPT ![t] = w] /\ w.at = "waiting"
                         /\ w.job = job /\ w.op = a /\ task'[t] = w
  BY <1>1, AskMoves
<1>3. TaskHolds(t)'
  BY <1>2 DEF TaskHolds
<1> QED
  BY <1>2, <1>3, HolderTabs

LEMMA RequestCashStep ==
  ASSUME CashInv, NEW t \in Tabs, NEW a \in Adds, NEW source \in {"payer", "faucet"},
         RequestCash(t, a, source)
  PROVE  CashInv'
<1>0. /\ adds \in [Adds -> AddRecord] /\ adds[a] \in AddRecord /\ RecordsHold /\ LateHolds /\ TabsHold
      /\ UNCHANGED <<proofs, outs, review, mint, late, lapsed, faults>>
      /\ task[t].at = "idle" /\ HasLock(t)
  BY AddType, LockIsTaken DEF CashInv, RequestCash, Free
<1> DEFINE r == [adds[a] EXCEPT !.state = "awaiting_payment", !.source = source,
                                !.key = (source = "faucet")]
<1>1. /\ r \in AddRecord /\ r.outputs = adds[a].outputs /\ r.drawn = adds[a].drawn
      /\ r.state # "settled"
  BY <1>0 DEF AddRecord, AddStates
<1>2. adds' = [adds EXCEPT ![a] = r]
  BY <1>0 DEF RequestCash
<1> HIDE DEF r
<1>3. RecordsHold' /\ KeepsRequests
  BY <1>0, <1>1, <1>2, AddLabel
<1>4. LateHolds'
  BY <1>0, <1>3 DEF LateHolds, KeepsRequests
<1>5. CASE Ask(t, "fund", a)
  BY <1>0, <1>3, <1>4, <1>5, AskAgainTabs DEF CashInv
<1>6. CASE UNCHANGED task
  <2>1. task[t] \in Tasks /\ task' = [task EXCEPT ![t] = task[t]]
    BY <1>0, <1>6 DEF TabsHold, TabTypes
  <2>2. TaskHolds(t)'
    BY <1>0, <1>6 DEF TaskHolds
  <2>3. TabsHold'
    BY <1>0, <2>1, <2>2, HolderTabs
  <2> QED
    BY <1>3, <1>4, <2>3 DEF CashInv
<1> QED
  BY <1>5, <1>6 DEF RequestCash

LEMMA ClaimStep == ASSUME CashInv, NEW t \in Tabs, Claim(t) PROVE CashInv'
<1> DEFINE a == task[t].op
<1>0. /\ HasLock(t) /\ a \in Adds /\ TabsHold
      /\ adds' = [adds EXCEPT ![a].state = "recoverable"] \/ adds' = adds
      /\ UNCHANGED <<proofs, outs, review, mint, late, lapsed>>
  BY AtWork DEF CashInv, Claim
<1>1. (Fault /\ Done(t)) \/ (Ask(t, "add", a) /\ UNCHANGED faults)
  BY DEF Claim
<1> HIDE DEF a
<1>2. RecordsHold' /\ LateHolds'
  BY <1>0, Relabelled
<1>3. TabsHold'
  BY <1>0, <1>1, DoneTabs, AskAgainTabs
<1> QED
  BY <1>2, <1>3 DEF CashInv

LEMMA CheckQuoteStep == ASSUME CashInv, NEW t \in Tabs, CheckQuote(t) PROVE CashInv'
<1> DEFINE a == task[t].op
<1>0. /\ HasLock(t) /\ a \in Adds /\ TabsHold
      /\ Fault \/ UNCHANGED faults
      /\ UNCHANGED <<proofs, outs, review, mint, late, lapsed>>
  BY AtWork DEF CashInv, CheckQuote
<1>1. \/ /\ adds' = [adds EXCEPT ![a].state = "expired"] \/ adds' = adds
         /\ Done(t)
      \/ adds' = [adds EXCEPT ![a].state = "recoverable"] /\ Done(t)
      \/ /\ adds' = [adds EXCEPT ![a].state = "payment_observed"]
         /\ Goto(t, IF adds[a].outputs = {} THEN "preparing" ELSE "issuing")
  BY DEF CheckQuote
<1>2. RecordsHold' /\ LateHolds' /\ adds'[a].outputs = adds[a].outputs
  <2>1. CASE adds' = [adds EXCEPT ![a].state = "expired"] \/ adds' = adds
    BY <1>0, <2>1, Relabelled
  <2>2. CASE adds' = [adds EXCEPT ![a].state = "recoverable"]
    BY <1>0, <2>2, Relabelled
  <2>3. CASE adds' = [adds EXCEPT ![a].state = "payment_observed"]
    BY <1>0, <2>3, Relabelled
  <2> QED
    BY <1>1, <2>1, <2>2, <2>3
<1>3. CASE Done(t)
  BY <1>0, <1>2, <1>3, DoneTabs DEF CashInv
<1>4. CASE Goto(t, IF adds[a].outputs = {} THEN "preparing" ELSE "issuing")
  <2>1. {"preparing", "issuing"} \subseteq Places \ Passive
    BY DEF Places, Passive
  <2>2. CASE adds[a].outputs = {}
    <3>1. Goto(t, "preparing")
      BY <1>4, <2>2
    <3>2. TabsHold'
      BY <1>0, <1>2, <2>1, <2>2, <3>1, GotoTabs
    <3> QED
      BY <1>2, <3>2 DEF CashInv
  <2>3. CASE adds[a].outputs # {}
    <3>1. Goto(t, "issuing")
      BY <1>4, <2>3
    <3>2. TabsHold'
      BY <1>0, <1>2, <2>1, <2>3, <3>1, GotoTabs
    <3> QED
      BY <1>2, <3>2 DEF CashInv
  <2> QED
    BY <2>2, <2>3
<1> QED
  BY <1>1, <1>3, <1>4

LEMMA PrepareStep == ASSUME CashInv, NEW t \in Tabs, Prepare(t) PROVE CashInv'
<1> DEFINE a == task[t].op
<1>0. /\ HasLock(t) /\ a \in Adds /\ TabsHold /\ adds[a].outputs = {}
      /\ RecordsHold /\ LateHolds /\ adds \in [Adds -> AddRecord] /\ adds[a] \in AddRecord
      /\ UNCHANGED <<proofs, outs, review, mint, late, lapsed, faults>>
  <2>1. HasLock(t) /\ a \in Adds /\ adds[a].outputs = {}
    BY AtWork DEF Prepare
  <2> QED
    BY <2>1, AddType DEF CashInv, Prepare
<1>1. CASE adds' = [adds EXCEPT ![a].state = "recoverable"] /\ Done(t)
  <2>1. RecordsHold' /\ LateHolds'
    BY <1>0, <1>1, Relabelled
  <2>2. TabsHold'
    BY <1>0, <1>1, DoneTabs
  <2> QED
    BY <2>1, <2>2 DEF CashInv
<1>2. CASE /\ adds' = [adds EXCEPT ![a] = [adds[a] EXCEPT !.state = "issuing", !.key = FALSE,
                                             !.outputs = {<<"add", a, adds[a].drawn>>},
                                             !.drawn = @ + 1]]
           /\ Goto(t, "issuing")
  <2>1. /\ adds'[a].outputs = {<<"add", a, adds[a].drawn>>} /\ adds'[a].drawn = adds[a].drawn + 1
        /\ adds'[a].state = "issuing" /\ \A b \in Adds \ {a} : adds'[b] = adds[b]
        /\ adds'[a].source = adds[a].source /\ adds'[a].key = FALSE
        /\ adds' \in [Adds -> AddRecord]
    <3>0. a \in Nat /\ adds[a].drawn \in Nat
      BY <1>0, Indices DEF AddRecord
    <3> HIDE DEF a
    <3>1. <<"add", a, adds[a].drawn>> \in Outputs /\ adds[a].drawn + 1 \in Nat
      BY <3>0 DEF Outputs
    <3> QED
      BY <1>0, <1>2, <3>1 DEF AddRecord, AddStates
  <2>2. RecordTypes'
    BY <1>0, <2>1, MintIsKept DEF RecordsHold, ValueHolds, RecordTypes
  <2>3. ValueHolds' /\ KeepsRequests
    BY <1>0, <2>1, <2>2, DrawAddValue DEF RecordsHold, SameAdd
  <2>4. RecordsHold'
    <3>1. ASSUME NEW b \in Adds PROVE AddStateHolds(b)'
      BY <1>0, <2>1, MintIsKept DEF RecordsHold, AddStateHolds
    <3>2. ASSUME NEW c \in Outs PROVE OutStateHolds(c)'
      BY <1>0, MintIsKept DEF RecordsHold, OutStateHolds
    <3> QED
      BY <2>3, <3>1, <3>2 DEF RecordsHold
  <2>5. LateHolds'
    BY <1>0, <2>3 DEF LateHolds, KeepsRequests
  <2>6. TabsHold'
    <3>1. "issuing" \in Places \ Passive /\ adds'[a].outputs # {}
      BY <2>1 DEF Places, Passive
    <3> QED
      BY <1>0, <1>2, <3>1, GotoTabs
  <2> QED
    BY <2>4, <2>5, <2>6 DEF CashInv
<1> QED
  BY <1>1, <1>2 DEF Prepare

(* Settle, by an answer or by what was restored.                           *)
LEMMA SettleStep ==
  ASSUME CashInv, NEW t \in Tabs, HasLock(t), task[t].op \in Adds, Settle(t, task[t].op),
         signed' = signed \cup adds[task[t].op].outputs,
         quotes' \in [Adds -> {"unpaid", "paid", "issued"}], quotes'[task[t].op] = "issued",
         \A b \in Adds \ {task[t].op} : quotes'[b] = quotes[b],
         Fault \/ UNCHANGED faults, UNCHANGED <<outs, review, melts, spent, late, lapsed>>
  PROVE  CashInv'
<1> DEFINE a == task[t].op
<1>0. /\ adds \in [Adds -> AddRecord] /\ adds[a] \in AddRecord
      /\ RecordsHold /\ LateHolds /\ TabsHold /\ ValueHolds
      /\ adds' = [adds EXCEPT ![a].state = "settled", ![a].outputs = {}]
      /\ proofs' = proofs \cup adds[a].outputs /\ Done(t)
  BY AddType DEF CashInv, RecordsHold, Settle
<1>1. /\ adds'[a].outputs = {} /\ adds'[a].drawn = adds[a].drawn
      /\ \A b \in Adds \ {a} : adds'[b] = adds[b]
      /\ adds' \in [Adds -> AddRecord]
  BY <1>0 DEF AddRecord, AddStates
<1> HIDE DEF a
<1>2. RecordTypes'
  BY <1>0, <1>1 DEF ValueHolds, RecordTypes
<1>3. ValueHolds' /\ KeepsRequests
  <2>1. \A b \in Adds \ {a} : SameAdd(b)
    BY <1>1 DEF SameAdd
  <2> QED
    BY <1>0, <1>1, <1>2, <2>1, SettleValue DEF a
<1>4. RecordsHold'
  <2>1. ASSUME NEW b \in Adds PROVE AddStateHolds(b)'
    BY <1>0, <1>1 DEF RecordsHold, AddStateHolds, a
  <2>2. ASSUME NEW c \in Outs PROVE OutStateHolds(c)'
    BY <1>0 DEF RecordsHold, OutStateHolds
  <2> QED
    BY <1>3, <2>1, <2>2 DEF RecordsHold
<1>5. LateHolds'
  BY <1>0, <1>3 DEF LateHolds, KeepsRequests
<1>6. TabsHold'
  BY <1>0, DoneTabs
<1> QED
  BY <1>4, <1>5, <1>6 DEF CashInv

LEMMA IssueStep == ASSUME CashInv, NEW t \in Tabs, Issue(t) PROVE CashInv'
<1> DEFINE a == task[t].op
<1>0. /\ HasLock(t) /\ a \in Adds /\ adds[a].outputs # {}
      /\ RecordsHold /\ LateHolds /\ TabsHold /\ ValueHolds
      /\ UNCHANGED <<outs, review, lapsed>>
  <2>1. HasLock(t) /\ a \in Adds /\ adds[a].outputs # {}
    BY AtWork DEF Issue
  <2> QED
    BY <2>1 DEF CashInv, RecordsHold, Issue
<1>1. CASE Serve(IssueRequest(a)) /\ Settle(t, a) /\ UNCHANGED <<late, faults>>
  <2>1. /\ quotes' = [quotes EXCEPT ![a] = "issued"] /\ UNCHANGED <<melts, spent>>
        /\ signed' = signed \cup adds[a].outputs
    BY <1>1 DEF Serve, IssueRequest, Request
  <2>2. quotes \in [Adds -> {"unpaid", "paid", "issued"}]
    BY <1>0 DEF ValueHolds, RecordTypes
  <2>3. /\ quotes' \in [Adds -> {"unpaid", "paid", "issued"}] /\ quotes'[a] = "issued"
        /\ \A b \in Adds \ {a} : quotes'[b] = quotes[b]
    BY <1>0, <2>1, <2>2
  <2> QED
    BY <1>0, <1>1, <2>1, <2>3, SettleStep
<1>2. CASE /\ UNCHANGED <<late, faults>> \/ (Fault /\ late' = late \cup {IssueRequest(a)})
           /\ Goto(t, "restoring add")
           /\ UNCHANGED <<proofs, adds, mint>>
  <2>1. RecordsHold' /\ KeepsRequests
    <3>1. /\ UNCHANGED <<proofs, adds, outs, quotes, melts, signed, spent>>
      BY <1>0, <1>2, MintIsKept
    <3>2. RecordTypes' /\ (\A b \in Adds : SameAdd(b)) /\ \A c \in Outs : SameOut(c)
      BY <1>0, <3>1 DEF ValueHolds, RecordTypes, SameAdd, SameOut
    <3>3. ValueHolds' /\ KeepsRequests
      BY <1>0, <3>1, <3>2, SameValue
    <3> QED
      BY <1>0, <3>1, <3>3 DEF RecordsHold, AddStateHolds, OutStateHolds
  <2>2. IssueRequest(a) \in Requests /\ RequestHolds(IssueRequest(a))
    BY <1>0, OwnRequests
  <2>3. LateHolds'
    <3>1. late' \subseteq late \cup {IssueRequest(a)}
      BY <1>2
    <3> HIDE DEF a
    <3> QED
      BY <1>0, <2>1, <2>2, <3>1, LateStep
  <2>4. TabsHold'
    <3>1. "restoring add" \in Places \ Passive /\ adds'[a].outputs # {}
      BY <1>0, <1>2 DEF Places, Passive
    <3> QED
      BY <1>0, <1>2, <3>1, GotoTabs
  <2> QED
    BY <2>1, <2>3, <2>4 DEF CashInv
<1> QED
  BY <1>1, <1>2 DEF Issue

LEMMA RestoreAddStep == ASSUME CashInv, NEW t \in Tabs, RestoreAdd(t) PROVE CashInv'
<1> DEFINE a == task[t].op
<1>0. /\ HasLock(t) /\ a \in Adds /\ adds[a].outputs # {}
      /\ RecordsHold /\ LateHolds /\ TabsHold /\ ValueHolds
      /\ UNCHANGED <<outs, review, mint, late, lapsed>>
  <2>1. HasLock(t) /\ a \in Adds /\ adds[a].outputs # {}
    BY AtWork DEF RestoreAdd
  <2> QED
    BY <2>1 DEF CashInv, RecordsHold, RestoreAdd
<1>1. CASE adds[a].outputs \subseteq signed /\ Settle(t, a) /\ UNCHANGED faults
  <2>1. UNCHANGED <<quotes, melts, signed, spent>>
    BY <1>0, MintIsKept
  <2>2. quotes \in [Adds -> {"unpaid", "paid", "issued"}] /\ quotes[a] = "issued"
    BY <1>0, <1>1 DEF ValueHolds, RecordTypes, AddValue
  <2>3. signed' = signed \cup adds[a].outputs
    BY <1>1, <2>1
  <2> QED
    BY <1>0, <1>1, <2>1, <2>2, <2>3, SettleStep
<1>2. CASE /\ adds' = [adds EXCEPT ![a].state = "recoverable"]
           /\ Done(t) /\ UNCHANGED proofs
           /\ Fault \/ UNCHANGED faults
  <2>1. RecordsHold' /\ LateHolds'
    BY <1>0, <1>2, Relabelled
  <2>2. TabsHold'
    BY <1>0, <1>2, DoneTabs
  <2> QED
    BY <2>1, <2>2 DEF CashInv
<1> QED
  BY <1>1, <1>2 DEF RestoreAdd

LEMMA OutType ==
  ASSUME CashInv, NEW c \in Outs
  PROVE  /\ outs \in [Outs -> OutRecord] /\ outs[c] \in OutRecord
         /\ OutValue(c) /\ MeltValue(c) /\ OutStateHolds(c)
BY DEF CashInv, RecordsHold, ValueHolds, RecordTypes

(* A commit that leaves a cash-out open.                                   *)
LEMMA UnclearStep ==
  ASSUME CashInv, NEW c \in Outs, NEW s \in {"pending", "unknown"}, Unclear(c, s),
         UNCHANGED <<adds, mint>>
  PROVE  RecordsHold' /\ KeepsRequests
BY OutLabel DEF CashInv, Unclear

LEMMA UnclearDone ==
  ASSUME CashInv, NEW t \in Tabs, HasLock(t), NEW c \in Outs, NEW s \in {"pending", "unknown"},
         Unclear(c, s), Done(t), Fault \/ UNCHANGED faults,
         UNCHANGED <<adds, review, mint, late, lapsed>>
  PROVE  CashInv'
<1>1. RecordsHold' /\ KeepsRequests
  BY UnclearStep
<1>2. LateHolds'
  BY <1>1 DEF CashInv, LateHolds, KeepsRequests
<1>3. TabsHold'
  BY DoneTabs DEF CashInv
<1> QED
  BY <1>1, <1>2, <1>3 DEF CashInv

(* Ended: the outcome is the mint's, and what came of it is added.         *)
LEMMA EndStep ==
  ASSUME CashInv, NEW t \in Tabs, HasLock(t), Done(t), NEW c \in Outs,
         NEW state \in {"paid", "failed"}, NEW gained, Ended(c, state, gained),
         gained \subseteq Awaits(c), Awaits(c) \cap signed \subseteq gained,
         melts[c].state = IF state = "paid" THEN "paid" ELSE "unpaid",
         signed' = signed \cup gained, spent' = spent \cup outs[c].reserved,
         Fault \/ UNCHANGED faults, UNCHANGED <<adds, review, quotes, melts, late, lapsed>>
  PROVE  CashInv'
<1>0. /\ outs \in [Outs -> OutRecord] /\ outs[c] \in OutRecord
      /\ RecordsHold /\ LateHolds /\ TabsHold /\ ValueHolds
      /\ outs' = [outs EXCEPT ![c] = [outs[c] EXCEPT !.state = state, !.reserved = {},
                                                     !.change = {}, !.recovery = {}]]
      /\ proofs' = proofs \cup gained
  BY OutType DEF CashInv, RecordsHold, Ended
<1>1. /\ outs'[c].state = state /\ outs'[c].reserved = {} /\ outs'[c].change = {}
      /\ outs'[c].recovery = {} /\ outs'[c].drawn = outs[c].drawn
      /\ \A d \in Outs \ {c} : outs'[d] = outs[d]
      /\ outs' \in [Outs -> OutRecord]
  BY <1>0 DEF OutRecord, OutStates
<1>2. RecordTypes'
  BY <1>0, <1>1 DEF ValueHolds, RecordTypes
<1>3. ValueHolds' /\ KeepsRequests
  <2>1. (\A d \in Outs \ {c} : SameOut(d)) /\ Awaits(c)' = {}
    BY <1>1 DEF SameOut, Awaits
  <2> QED
    BY <1>0, <1>1, <1>2, <2>1, EndValue
<1>4. RecordsHold'
  <2>1. ASSUME NEW a \in Adds PROVE AddStateHolds(a)'
    BY <1>0 DEF RecordsHold, AddStateHolds
  <2>2. OutStateHolds(c)'
    BY <1>1 DEF OutStateHolds
  <2>3. ASSUME NEW d \in Outs \ {c} PROVE OutStateHolds(d)'
    BY <1>0, <1>1 DEF RecordsHold, OutStateHolds
  <2> QED
    BY <1>3, <2>1, <2>2, <2>3 DEF RecordsHold
<1>5. LateHolds'
  BY <1>0, <1>3 DEF LateHolds, KeepsRequests
<1>6. TabsHold'
  BY <1>0, DoneTabs
<1> QED
  BY <1>4, <1>5, <1>6 DEF CashInv

LEMMA ConfirmStep == ASSUME CashInv, NEW t \in Tabs, Confirm(t) PROVE CashInv'
<1>0. /\ HasLock(t) /\ review[t] # NoReview /\ ReviewHolds(t)
      /\ task \in [Tabs -> Tasks] /\ review \in [Tabs -> [seen : SUBSET Proofs, send : SUBSET Proofs]]
      /\ RecordsHold /\ LateHolds /\ TabsHold /\ ValueHolds
      /\ UNCHANGED <<adds, mint, late, lapsed, faults>>
  BY AtWork DEF CashInv, RecordsHold, TabsHold, TabTypes, Confirm
<1>1. CASE Done(t) /\ UNCHANGED <<proofs, outs, review>>
  <2>1. RecordsHold' /\ LateHolds'
    BY <1>0, <1>1, SameRecords DEF snapshot
  <2>2. TabsHold'
    BY <1>0, <1>1, DoneTabs
  <2> QED
    BY <2>1, <2>2 DEF CashInv
<1>2. CASE /\ SameProofs(t)
           /\ \E c \in Outs :
                /\ outs[c].state = "none" /\ \A d \in Outs : d < c => outs[d].state # "none"
                /\ outs' = [outs EXCEPT ![c] = [state |-> "dispatching",
                                                reserved |-> review[t].send,
                                                change |-> {<<"out", c, 0>>},
                                                recovery |-> {}, drawn |-> 1]]
                /\ task' = [task EXCEPT ![t].at = "melting", ![t].op = c]
           /\ proofs' = review[t].seen \ review[t].send
           /\ review' = [review EXCEPT ![t] = NoReview]
  <2> DEFINE send == review[t].send
  <2>1. PICK c \in Outs :
          /\ outs[c].state = "none"
          /\ outs' = [outs EXCEPT ![c] = [state |-> "dispatching", reserved |-> send,
                                          change |-> {<<"out", c, 0>>},
                                          recovery |-> {}, drawn |-> 1]]
          /\ task' = [task EXCEPT ![t].at = "melting", ![t].op = c]
    BY <1>2
  <2>2. /\ outs \in [Outs -> OutRecord] /\ OutStateHolds(c) /\ c \in Nat
        /\ send # {} /\ send \subseteq proofs /\ send \subseteq Proofs /\ proofs' = proofs \ send
    BY <1>0, <1>2, OutType, Indices DEF ReviewHolds, SameProofs
  <2> HIDE DEF send
  <2>3. /\ outs'[c].state = "dispatching" /\ outs'[c].reserved = send
        /\ outs'[c].change = {<<"out", c, 0>>} /\ outs'[c].recovery = {} /\ outs'[c].drawn = 1
        /\ \A d \in Outs \ {c} : outs'[d] = outs[d]
        /\ outs' \in [Outs -> OutRecord]
    <3>1. <<"out", c, 0>> \in Outputs
      BY <2>2 DEF Outputs
    <3> QED
      BY <2>1, <2>2, <3>1 DEF OutRecord, OutStates
  <2>4. RecordTypes'
    BY <1>0, <2>3, MintIsKept DEF ValueHolds, RecordTypes
  <2>5. ValueHolds' /\ KeepsRequests
    <3>1. \A d \in Outs \ {c} : SameOut(d)
      BY <2>3 DEF SameOut
    <3>2. outs[c].reserved = {} /\ outs[c].drawn = 0 /\ melts[c].state = "unpaid"
      BY <2>1, <2>2 DEF OutStateHolds
    <3> QED
      BY <1>0, <2>2, <2>3, <2>4, <3>1, <3>2, ReserveValue
  <2>6. RecordsHold'
    <3>1. ASSUME NEW a \in Adds PROVE AddStateHolds(a)'
      BY <1>0, MintIsKept DEF RecordsHold, AddStateHolds
    <3>2. OutStateHolds(c)'
      BY <2>3 DEF OutStateHolds
    <3>3. ASSUME NEW d \in Outs \ {c} PROVE OutStateHolds(d)'
      BY <1>0, <2>3, MintIsKept DEF RecordsHold, OutStateHolds
    <3> QED
      BY <2>5, <3>1, <3>2, <3>3 DEF RecordsHold
  <2>7. LateHolds'
    BY <1>0, <2>5 DEF LateHolds, KeepsRequests
  <2>8. TabsHold'
    <3> DEFINE w == [task[t] EXCEPT !.at = "melting", !.op = c]
    <3>1. /\ w \in Tasks /\ task' = [task EXCEPT ![t] = w] /\ task'[t] = w
          /\ w.at = "melting" /\ w.op = c
      BY <1>0, <2>1, <2>2 DEF Tasks, Places
    <3> HIDE DEF w
    <3>2. TaskHolds(t)'
      BY <2>2, <2>3, <3>1 DEF TaskHolds
    <3>3. /\ review' \in [Tabs -> [seen : SUBSET Proofs, send : SUBSET Proofs]]
          /\ review'[t] = NoReview /\ \A u \in Tabs \ {t} : review'[u] = review[u]
      BY <1>0, <1>2 DEF NoReview
    <3>4. ReviewHolds(t)' /\ faults' \in 0 .. MaxFaults
      BY <1>0, <3>3, FaultType DEF ReviewHolds
    <3> QED
      BY <1>0, <3>1, <3>2, <3>3, <3>4, TabStep
  <2> QED
    BY <2>6, <2>7, <2>8 DEF CashInv
<1> QED
  BY <1>1, <1>2 DEF Confirm
LEMMA KeptRecords ==
  ASSUME RecordsHold, UNCHANGED <<snapshot, mint>>
  PROVE  RecordsHold' /\ KeepsRequests
<1>1. UNCHANGED <<proofs, adds, outs, quotes, melts, signed, spent>>
  BY DEF snapshot, mint
<1>2. RecordTypes' /\ (\A a \in Adds : SameAdd(a)) /\ \A c \in Outs : SameOut(c)
  BY <1>1 DEF RecordsHold, ValueHolds, RecordTypes, SameAdd, SameOut
<1>3. ValueHolds' /\ KeepsRequests
  BY <1>1, <1>2, SameValue DEF RecordsHold
<1> QED
  BY <1>1, <1>3 DEF RecordsHold, AddStateHolds, OutStateHolds

(* The mint serves a request, now or late.                                 *)
LEMMA ServedRecords ==
  ASSUME RecordsHold, NEW r \in Requests, RequestHolds(r), Serve(r), UNCHANGED snapshot
  PROVE  RecordsHold' /\ KeepsRequests
<1>0. ValueHolds /\ RecordTypes /\ UNCHANGED <<proofs, adds, outs>>
  BY DEF RecordsHold, ValueHolds, snapshot
<1>1. CASE r.kind = "issue"
  <2>1. r.op \in Adds /\ quotes' = [quotes EXCEPT ![r.op] = "issued"] /\ UNCHANGED melts
    BY <1>1 DEF Serve, RequestHolds
  <2>2. RecordTypes' /\ \A a \in Adds : quotes[a] = "issued" => quotes'[a] = "issued"
    BY <1>0, <2>1 DEF RecordTypes
  <2>3. (\A a \in Adds : AddStateHolds(a)') /\ \A c \in Outs : OutStateHolds(c)'
    BY <1>0, <2>1, <2>2 DEF RecordsHold, AddStateHolds, OutStateHolds
  <2> QED
    BY <1>0, <2>2, <2>3, ServeValue DEF RecordsHold
<1>2. CASE r.kind = "melt"
  <2>1. /\ r.op \in Outs /\ melts[r.op].state = "unpaid" /\ outs[r.op].reserved # {}
        /\ UNCHANGED quotes
        /\ melts' = [melts EXCEPT ![r.op] = [state |-> "pending", inputs |-> r.inputs,
                                             outputs |-> r.outputs]]
    BY <1>0, <1>2, ServedInTime DEF Serve
  <2>2. RecordTypes' /\ \A c \in Outs \ {r.op} : melts'[c] = melts[c]
    BY <1>0, <2>1 DEF RecordTypes, MeltRecord, Requests
  <2>3. ASSUME NEW a \in Adds PROVE AddStateHolds(a)'
    BY <1>0, <2>1 DEF RecordsHold, AddStateHolds
  <2>4. ASSUME NEW c \in Outs PROVE OutStateHolds(c)'
    <3>1. OutStateHolds(c)
      BY DEF RecordsHold
    <3> QED
      BY <1>0, <2>1, <2>2, <3>1 DEF OutStateHolds
  <2> QED
    BY <1>0, <2>2, <2>3, <2>4, ServeValue DEF RecordsHold
<1>3. CASE r.kind = "swap"
  <2>1. UNCHANGED <<quotes, melts>>
    BY <1>3 DEF Serve
  <2>2. RecordTypes'
    BY <1>0, <2>1 DEF RecordTypes
  <2>3. (\A a \in Adds : AddStateHolds(a)') /\ \A c \in Outs : OutStateHolds(c)'
    BY <1>0, <2>1 DEF RecordsHold, AddStateHolds, OutStateHolds
  <2> QED
    BY <1>0, <2>2, <2>3, ServeValue DEF RecordsHold
<1> QED
  BY <1>1, <1>2, <1>3, RequestKinds

LEMMA MeltStep == ASSUME CashInv, NEW t \in Tabs, Melt(t) PROVE CashInv'
<1> DEFINE c == task[t].op
<1>0. /\ HasLock(t) /\ c \in Outs /\ outs[c].reserved # {}
      /\ RecordsHold /\ LateHolds /\ TabsHold /\ ValueHolds
      /\ UNCHANGED <<adds, review, lapsed>>
  <2>1. HasLock(t) /\ c \in Outs /\ outs[c].reserved # {}
    BY AtWork DEF Melt
  <2> QED
    BY <2>1 DEF CashInv, RecordsHold, Melt
<1>1. MeltRequest(c) \in Requests /\ RequestHolds(MeltRequest(c))
  BY <1>0, OwnRequests
<1>2. CASE Serve(MeltRequest(c)) /\ Goto(t, "melted") /\ UNCHANGED <<proofs, outs, late, faults>>
  <2>1. RecordsHold' /\ KeepsRequests
    <3>1. UNCHANGED snapshot
      BY <1>0, <1>2 DEF snapshot
    <3> QED
      BY <1>0, <1>1, <1>2, <3>1, ServedRecords
  <2>2. LateHolds'
    BY <1>0, <1>2, <2>1 DEF LateHolds, KeepsRequests
  <2>3. TabsHold'
    <3>1. "melted" \in Places \ Passive /\ outs'[c].reserved # {}
      BY <1>0, <1>2 DEF Places, Passive
    <3> QED
      BY <1>0, <1>2, <3>1, GotoTabs
  <2> QED
    BY <2>1, <2>2, <2>3 DEF CashInv
<1>3. CASE /\ UNCHANGED <<late, faults>> \/ (Fault /\ late' = late \cup {MeltRequest(c)})
           /\ GiveUp(c) /\ Done(t) /\ UNCHANGED mint
  <2>1. RecordsHold' /\ KeepsRequests
    BY <1>0, <1>3, UnclearStep DEF GiveUp
  <2>2. LateHolds'
    <3>1. late' \subseteq late \cup {MeltRequest(c)}
      BY <1>3
    <3> HIDE DEF c
    <3> QED
      BY <1>0, <1>1, <2>1, <3>1, LateStep
  <2>3. TabsHold'
    BY <1>0, <1>3, DoneTabs
  <2> QED
    BY <2>1, <2>2, <2>3 DEF CashInv
<1> QED
  BY <1>2, <1>3 DEF Melt

LEMMA MeltAnswerStep == ASSUME CashInv, NEW t \in Tabs, MeltAnswer(t) PROVE CashInv'
<1> DEFINE c == task[t].op
<1>0. /\ HasLock(t) /\ c \in Outs /\ outs[c].reserved # {} /\ Done(t)
      /\ MeltValue(c) /\ OutValue(c)
      /\ Fault \/ UNCHANGED faults
      /\ UNCHANGED <<adds, review, mint, late, lapsed>>
      /\ UNCHANGED quotes /\ UNCHANGED <<melts, signed, spent>>
  <2>1. HasLock(t) /\ c \in Outs /\ outs[c].reserved # {} /\ UNCHANGED mint
    BY AtWork DEF MeltAnswer
  <2> QED
    BY <2>1, OutType, MintIsKept DEF MeltAnswer
<1>1. CASE melts[c].state = "paid" /\ Ended(c, "paid", outs[c].change \cap signed)
  <2> DEFINE gained == outs[c].change \cap signed
  <2>1. PaidOut(c)
    BY <1>0, <1>1 DEF MeltValue, Untouched, Recovered
  <2>2. /\ gained \subseteq Awaits(c) /\ Awaits(c) \cap signed \subseteq gained
        /\ signed' = signed \cup gained /\ spent' = spent \cup outs[c].reserved
    BY <1>0, <2>1 DEF PaidOut, Awaits
  <2>3. melts[c].state = IF "paid" = "paid" THEN "paid" ELSE "unpaid"
    BY <1>1
  <2> HIDE DEF gained
  <2> QED
    BY <1>0, <1>1, <2>2, <2>3, EndStep DEF gained
<1>2. CASE Unclear(c, "pending") \/ Unclear(c, "unknown")
  BY <1>0, <1>2, UnclearDone
<1> QED
  BY <1>1, <1>2 DEF MeltAnswer
LEMMA CheckMeltStep == ASSUME CashInv, NEW t \in Tabs, CheckMelt(t) PROVE CashInv'
<1> DEFINE c == task[t].op
           returned == melts[c].outputs \cap signed
<1>0. /\ HasLock(t) /\ c \in Outs /\ MeltValue(c) /\ OutValue(c) /\ TabsHold
      /\ RecordsHold /\ LateHolds
      /\ UNCHANGED <<adds, review, mint, late, lapsed>>
      /\ UNCHANGED quotes /\ UNCHANGED <<melts, signed, spent>>
  <2>1. HasLock(t) /\ c \in Outs /\ UNCHANGED mint
    BY AtWork DEF CheckMelt
  <2> QED
    BY <2>1, OutType, MintIsKept DEF CashInv, CheckMelt
<1>1. CASE /\ melts[c].state = "paid" /\ Done(t) /\ UNCHANGED faults
           /\ ~(returned # {} /\ outs[c].change = {})
           /\ Ended(c, "paid", outs[c].change \cap returned)
  <2> DEFINE gained == outs[c].change \cap returned
  <2>1. /\ gained \subseteq Awaits(c) /\ Awaits(c) \cap signed \subseteq gained
        /\ outs[c].reserved \subseteq spent
    <3>1. CASE outs[c].reserved = {}
      BY <1>0, <3>1 DEF OutValue, Awaits
    <3>2. CASE outs[c].reserved # {}
      <4>1. PaidOut(c) /\ melts[c].outputs = outs[c].change
        BY <1>0, <1>1, <3>2 DEF MeltValue, Untouched, Recovered
      <4> QED
        BY <4>1 DEF PaidOut, Awaits
    <3> QED
      BY <3>1, <3>2
  <2>2. signed' = signed \cup gained /\ spent' = spent \cup outs[c].reserved
    BY <1>0, <2>1
  <2>3. melts[c].state = IF "paid" = "paid" THEN "paid" ELSE "unpaid"
    BY <1>1
  <2> HIDE DEF gained
  <2> QED
    BY <1>0, <1>1, <2>1, <2>2, <2>3, EndStep DEF gained
<1>2. CASE (Unclear(c, "pending") \/ Unclear(c, "unknown")) /\ Done(t) /\ (Fault \/ UNCHANGED faults)
  BY <1>0, <1>2, UnclearDone
<1>3. CASE /\ outs[c].reserved # {} /\ UNCHANGED <<proofs, outs>> /\ UNCHANGED faults
           /\ Goto(t, IF outs[c].recovery = {} THEN "inspecting" ELSE "recovering")
  <2>1. RecordsHold' /\ LateHolds'
    BY <1>0, <1>3, SameRecords DEF snapshot
  <2>2. {"inspecting", "recovering"} \subseteq Places \ Passive /\ outs'[c] = outs[c]
    BY <1>3 DEF Places, Passive
  <2>3. TabsHold'
    <3>1. CASE outs[c].recovery = {}
      <4>1. Goto(t, "inspecting")
        BY <1>3, <3>1
      <4> QED
        BY <1>0, <1>3, <2>2, <3>1, <4>1, GotoTabs
    <3>2. CASE outs[c].recovery # {}
      <4>1. Goto(t, "recovering")
        BY <1>3, <3>2
      <4> QED
        BY <1>0, <1>3, <2>2, <3>2, <4>1, GotoTabs
    <3> QED
      BY <3>1, <3>2
  <2> QED
    BY <2>1, <2>3 DEF CashInv
<1> QED
  BY <1>1, <1>2, <1>3 DEF CheckMelt, Reclaim

LEMMA InspectStep == ASSUME CashInv, NEW t \in Tabs, Inspect(t) PROVE CashInv'
<1> DEFINE c == task[t].op
<1>0. /\ HasLock(t) /\ c \in Outs /\ outs[c].reserved # {} /\ outs[c].recovery = {}
      /\ OutStateHolds(c) /\ TabsHold /\ RecordsHold /\ LateHolds /\ ValueHolds
      /\ outs \in [Outs -> OutRecord] /\ outs[c] \in OutRecord
      /\ UNCHANGED <<adds, review, mint, late, lapsed>>
      /\ UNCHANGED quotes /\ UNCHANGED <<melts, signed, spent>>
  <2>1. /\ HasLock(t) /\ c \in Outs /\ UNCHANGED mint
        /\ outs[c].reserved # {} /\ outs[c].recovery = {}
    BY AtWork DEF Inspect
  <2> QED
    BY <2>1, OutType, MintIsKept DEF CashInv, RecordsHold, Inspect
<1>1. CASE /\ outs' = [outs EXCEPT ![c] = [outs[c] EXCEPT !.state = "unknown",
                                             !.recovery = {<<"out", c, outs[c].drawn>>},
                                             !.drawn = @ + 1]]
           /\ Goto(t, "recovering") /\ UNCHANGED <<proofs, faults>>
  <2>1. /\ outs'[c].recovery = {<<"out", c, outs[c].drawn>>} /\ outs'[c].drawn = outs[c].drawn + 1
        /\ outs'[c].reserved = outs[c].reserved /\ outs'[c].change = outs[c].change
        /\ outs'[c].state = "unknown" /\ \A d \in Outs \ {c} : outs'[d] = outs[d]
        /\ outs' \in [Outs -> OutRecord]
    <3>0. c \in Nat /\ outs[c].drawn \in Nat
      BY <1>0, Indices DEF OutRecord
    <3> HIDE DEF c
    <3>1. <<"out", c, outs[c].drawn>> \in Outputs /\ outs[c].drawn + 1 \in Nat
      BY <3>0 DEF Outputs
    <3> QED
      BY <1>0, <1>1, <3>1 DEF OutRecord, OutStates
  <2>2. RecordTypes'
    BY <1>0, <2>1 DEF ValueHolds, RecordTypes
  <2>3. ValueHolds' /\ KeepsRequests
    <3>1. \A d \in Outs \ {c} : SameOut(d)
      BY <2>1 DEF SameOut
    <3> QED
      BY <1>0, <1>1, <2>1, <2>2, <3>1, DrawOutValue
  <2>4. RecordsHold'
    <3>1. ASSUME NEW a \in Adds PROVE AddStateHolds(a)'
      BY <1>0 DEF RecordsHold, AddStateHolds
    <3>2. ASSUME NEW d \in Outs PROVE OutStateHolds(d)'
      <4>1. OutStateHolds(d)
        BY <1>0 DEF RecordsHold
      <4>2. d # c => outs'[d] = outs[d]
        BY <2>1
      <4>3. d = c => outs'[d].state = "unknown"
        BY <2>1
      <4> QED
        BY <1>0, <4>1, <4>2, <4>3 DEF OutStateHolds
    <3> QED
      BY <2>3, <3>1, <3>2 DEF RecordsHold
  <2>5. LateHolds'
    BY <1>0, <2>3 DEF LateHolds, KeepsRequests
  <2>6. TabsHold'
    <3>1. "recovering" \in Places \ Passive /\ outs'[c].recovery # {} /\ outs'[c].reserved # {}
      BY <1>0, <2>1 DEF Places, Passive
    <3> QED
      BY <1>0, <1>1, <3>1, GotoTabs
  <2> QED
    BY <2>4, <2>5, <2>6 DEF CashInv
<1>2. CASE (Fault \/ UNCHANGED faults) /\ Unclear(c, "unknown") /\ Done(t)
  BY <1>0, <1>2, UnclearDone
<1> QED
  BY <1>1, <1>2 DEF Inspect
LEMMA RecoverStep == ASSUME CashInv, NEW t \in Tabs, Recover(t) PROVE CashInv'
<1> DEFINE c == task[t].op
<1>0. /\ HasLock(t) /\ c \in Outs /\ outs[c].reserved # {} /\ outs[c].recovery # {}
      /\ RecordsHold /\ LateHolds /\ TabsHold /\ ValueHolds
      /\ UNCHANGED <<adds, review, lapsed>>
  <2>1. HasLock(t) /\ c \in Outs /\ outs[c].reserved # {} /\ outs[c].recovery # {}
    BY AtWork DEF Recover
  <2> QED
    BY <2>1 DEF CashInv, RecordsHold, Recover
<1>1. SwapRequest(c) \in Requests /\ RequestHolds(SwapRequest(c))
  BY <1>0, OwnRequests
<1>2. CASE /\ Serve(SwapRequest(c)) /\ Ended(c, "failed", outs[c].recovery)
           /\ Done(t) /\ UNCHANGED <<late, faults>>
  <2>1. /\ SwapRequest(c).kind = "swap" /\ SwapRequest(c).op = c
        /\ SwapRequest(c).inputs = outs[c].reserved /\ SwapRequest(c).outputs = outs[c].recovery
    BY DEF SwapRequest, Request
  <2>2. /\ UNCHANGED <<quotes, melts>> /\ spent' = spent \cup outs[c].reserved
        /\ signed' = signed \cup outs[c].recovery /\ Serves(SwapRequest(c))
    BY <1>2, <2>1 DEF Serve
  <2>3. melts[c].state = "unpaid" /\ Untouched(c)
    <3>1. SwapRequest(c).kind # "issue"
      BY <2>1
    <3> HIDE DEF c
    <3> QED
      BY <1>0, <1>1, <2>1, <2>2, <3>1, ServedInTime
  <2>4. /\ outs[c].recovery \subseteq Awaits(c) /\ Awaits(c) \cap signed \subseteq outs[c].recovery
        /\ melts[c].state = IF "failed" = "paid" THEN "paid" ELSE "unpaid"
    BY <2>3 DEF Untouched, Awaits
  <2> QED
    BY <1>0, <1>2, <2>2, <2>4, EndStep
<1>3. CASE /\ UNCHANGED <<late, faults>> \/ (Fault /\ late' = late \cup {SwapRequest(c)})
           /\ Goto(t, "restoring out")
           /\ UNCHANGED <<proofs, outs, mint>>
  <2>1. RecordsHold' /\ KeepsRequests
    BY <1>0, <1>3, KeptRecords DEF snapshot
  <2>2. LateHolds'
    <3>1. late' \subseteq late \cup {SwapRequest(c)}
      BY <1>3
    <3> HIDE DEF c
    <3> QED
      BY <1>0, <1>1, <2>1, <3>1, LateStep
  <2>3. TabsHold'
    <3>1. /\ "restoring out" \in Places \ Passive
          /\ outs'[c].reserved # {} /\ outs'[c].recovery # {}
      BY <1>0, <1>3 DEF Places, Passive
    <3> QED
      BY <1>0, <1>3, <3>1, GotoTabs
  <2> QED
    BY <2>1, <2>2, <2>3 DEF CashInv
<1> QED
  BY <1>2, <1>3 DEF Recover

LEMMA RestoreOutStep == ASSUME CashInv, NEW t \in Tabs, RestoreOut(t) PROVE CashInv'
<1> DEFINE c == task[t].op
<1>0. /\ HasLock(t) /\ c \in Outs /\ outs[c].reserved # {} /\ outs[c].recovery # {}
      /\ MeltValue(c) /\ OutValue(c) /\ Done(t)
      /\ UNCHANGED <<adds, review, mint, late, lapsed>>
      /\ UNCHANGED quotes /\ UNCHANGED <<melts, signed, spent>>
  <2>1. /\ HasLock(t) /\ c \in Outs /\ outs[c].reserved # {} /\ outs[c].recovery # {}
        /\ UNCHANGED mint
    BY AtWork DEF RestoreOut
  <2> QED
    BY <2>1, OutType, MintIsKept DEF RestoreOut
<1>1. CASE /\ outs[c].recovery \subseteq signed
           /\ Ended(c, "failed", outs[c].recovery) /\ UNCHANGED faults
  <2>1. Recovered(c)
    BY <1>0, <1>1 DEF MeltValue, Untouched, PaidOut, Awaits
  <2>2. /\ outs[c].recovery \subseteq Awaits(c) /\ Awaits(c) \cap signed \subseteq outs[c].recovery
        /\ signed' = signed \cup outs[c].recovery /\ spent' = spent \cup outs[c].reserved
        /\ melts[c].state = IF "failed" = "paid" THEN "paid" ELSE "unpaid"
    BY <1>0, <1>1, <2>1 DEF Recovered, Awaits
  <2> QED
    BY <1>0, <1>1, <2>2, EndStep
<1>2. CASE (Fault \/ UNCHANGED faults) /\ KeepTrying(c)
  BY <1>0, <1>2, UnclearDone DEF KeepTrying
<1> QED
  BY <1>1, <1>2 DEF RestoreOut

(* A closed tab leaves at most one request of its record behind.           *)
LEMMA CloseStep == ASSUME CashInv, NEW t \in Tabs, Close(t) PROVE CashInv'
<1> DEFINE c == task[t].op
<1>0. /\ RecordsHold /\ LateHolds /\ TabsHold /\ ValueHolds
      /\ UNCHANGED <<proofs, adds, outs, mint, lapsed>> /\ UNCHANGED snapshot
      /\ Fault /\ Done(t) /\ review' = [review EXCEPT ![t] = NoReview]
  BY DEF CashInv, RecordsHold, Close, snapshot
<1>1. RecordsHold' /\ KeepsRequests
  BY <1>0, KeptRecords
<1>2. LateHolds'
  <2>1. CASE task[t].at = "issuing"
    <3>1. late' \subseteq late \cup {IssueRequest(c)}
      BY <2>1 DEF Close
    <3>2. c \in Adds /\ adds[c].outputs # {}
      BY <2>1, AtWork
    <3> HIDE DEF c
    <3> QED
      BY <1>0, <1>1, <3>1, <3>2, OwnRequests, LateStep
  <2>2. CASE task[t].at = "melting"
    <3>1. late' \subseteq late \cup {MeltRequest(c)}
      BY <2>2 DEF Close
    <3>2. c \in Outs /\ outs[c].reserved # {}
      BY <2>2, AtWork
    <3> HIDE DEF c
    <3> QED
      BY <1>0, <1>1, <3>1, <3>2, OwnRequests, LateStep
  <2>3. CASE task[t].at = "recovering"
    <3>1. late' \subseteq late \cup {SwapRequest(c)}
      BY <2>3 DEF Close
    <3>2. c \in Outs /\ outs[c].reserved # {} /\ outs[c].recovery # {}
      BY <2>3, AtWork
    <3> HIDE DEF c
    <3> QED
      BY <1>0, <1>1, <3>1, <3>2, OwnRequests, LateStep
  <2>4. CASE task[t].at \notin {"issuing", "melting", "recovering"}
    <3>1. late' \subseteq late
      BY <2>4 DEF Close
    <3> QED
      BY <1>0, <1>1, <3>1 DEF LateHolds, KeepsRequests
  <2> QED
    BY <2>1, <2>2, <2>3, <2>4
<1>3. TabsHold'
  <2>1. Idle \in Tasks /\ task' = [task EXCEPT ![t] = Idle] /\ task'[t] = Idle
    BY <1>0, DoneMoves
  <2>2. task'[t].at = "idle" /\ task'[t].at \in Passive
    BY <2>1 DEF Idle, Passive
  <2>3. /\ review' \in [Tabs -> [seen : SUBSET Proofs, send : SUBSET Proofs]]
        /\ review'[t] = NoReview /\ \A u \in Tabs \ {t} : review'[u] = review[u]
    BY <1>0 DEF TabsHold, TabTypes, NoReview
  <2>4. TaskHolds(t)' /\ ReviewHolds(t)' /\ faults' \in 0 .. MaxFaults
    BY <1>0, <2>2, <2>3, FaultType DEF TaskHolds, ReviewHolds
  <2> QED
    BY <1>0, <2>1, <2>2, <2>3, <2>4, TabStep
<1> QED
  BY <1>1, <1>2, <1>3 DEF CashInv
-----------------------------------------------------------------------------
(* The mint and the clock.                                                 *)
LEMMA PayStep == ASSUME CashInv, NEW a \in Adds, Pay(a) PROVE CashInv'
<1>0. /\ RecordsHold /\ LateHolds /\ TabsHold /\ ValueHolds /\ RecordTypes
      /\ UNCHANGED <<proofs, adds, outs, melts, signed, spent, late>>
      /\ quotes[a] = "unpaid" /\ quotes' = [quotes EXCEPT ![a] = "paid"]
  BY DEF CashInv, RecordsHold, ValueHolds, Pay, snapshot
<1>1. RecordTypes' /\ \A b \in Adds : quotes[b] = "issued" => quotes'[b] = "issued"
  BY <1>0 DEF RecordTypes
<1>2. (\A b \in Adds : SameAdd(b)) /\ \A c \in Outs : SameOut(c)
  BY <1>0 DEF SameAdd, SameOut
<1>3. ValueHolds' /\ KeepsRequests
  BY <1>0, <1>1, <1>2, SameValue
<1>4. RecordsHold'
  BY <1>0, <1>1, <1>3 DEF RecordsHold, AddStateHolds, OutStateHolds
<1>5. LateHolds'
  BY <1>0, <1>3 DEF LateHolds, KeepsRequests
<1>6. TabsHold'
  <2>1. lapsed' \subseteq Adds
    BY <1>0 DEF Pay, TabsHold, TabTypes
  <2> QED
    BY <1>0, <2>1, MintTabs DEF Pay
<1> QED
  BY <1>4, <1>5, <1>6 DEF CashInv

LEMMA LapseStep == ASSUME CashInv, NEW a \in Adds, Lapse(a) PROVE CashInv'
<1>1. RecordsHold' /\ LateHolds'
  BY SameRecords DEF CashInv, Lapse
<1>2. lapsed' \subseteq Adds
  BY DEF CashInv, TabsHold, TabTypes, Lapse
<1>3. TabsHold'
  BY <1>2, MintTabs DEF CashInv, Lapse
<1> QED
  BY <1>1, <1>3 DEF CashInv

LEMMA ResolveStep == ASSUME CashInv, NEW c \in Outs, Resolve(c) PROVE CashInv'
<1>0. /\ RecordsHold /\ LateHolds /\ TabsHold /\ ValueHolds /\ RecordTypes
      /\ UNCHANGED <<proofs, adds, outs, quotes, late>>
  BY DEF CashInv, RecordsHold, ValueHolds, Resolve, snapshot
<1>1. ValueHolds' /\ KeepsRequests
  BY <1>0, ResolveValue
<1>2. outs[c].reserved # {} /\ \A d \in Outs \ {c} : melts'[d] = melts[d]
  BY <1>0 DEF ValueHolds, MeltValue, RecordTypes, Resolve
<1>3. RecordsHold'
  <2>1. ASSUME NEW a \in Adds PROVE AddStateHolds(a)'
    BY <1>0 DEF RecordsHold, AddStateHolds
  <2>2. ASSUME NEW d \in Outs PROVE OutStateHolds(d)'
    <3>1. OutStateHolds(d)
      BY <1>0 DEF RecordsHold
    <3> QED
      BY <1>0, <1>2, <3>1 DEF OutStateHolds
  <2> QED
    BY <1>1, <2>1, <2>2 DEF RecordsHold
<1>4. LateHolds'
  BY <1>0, <1>1 DEF LateHolds, KeepsRequests
<1>5. lapsed' \subseteq Adds
  BY <1>0 DEF Resolve, TabsHold, TabTypes
<1>6. TabsHold'
  BY <1>0, <1>5, MintTabs DEF Resolve
<1> QED
  BY <1>3, <1>4, <1>6 DEF CashInv

LEMMA ArriveStep == ASSUME CashInv, NEW r \in late, Arrive(r) PROVE CashInv'
<1>0. /\ RecordsHold /\ LateHolds /\ TabsHold /\ r \in Requests /\ RequestHolds(r)
      /\ UNCHANGED snapshot /\ late' \subseteq late
  BY DEF CashInv, LateHolds, Arrive
<1>1. RecordsHold' /\ KeepsRequests
  <2>1. CASE Serve(r)
    BY <1>0, <2>1, ServedRecords
  <2>2. CASE UNCHANGED mint
    BY <1>0, <2>2, KeptRecords
  <2> QED
    BY <2>1, <2>2 DEF Arrive
<1>2. LateHolds'
  BY <1>0, <1>1 DEF LateHolds, KeepsRequests
<1>3. lapsed' \subseteq Adds
  BY <1>0 DEF Arrive, TabsHold, TabTypes
<1>4. TabsHold'
  BY <1>0, <1>3, MintTabs DEF Arrive
<1> QED
  BY <1>1, <1>2, <1>4 DEF CashInv

LEMMA CashNext == CashInv /\ [Next]_vars => CashInv'
<1> SUFFICES ASSUME CashInv, [Next]_vars PROVE CashInv'
  OBVIOUS
<1>1. ASSUME NEW t \in Tabs, NEW a \in Adds, NEW source \in {"payer", "faucet"},
             RequestCash(t, a, source)
      PROVE  CashInv'
  BY <1>1, RequestCashStep
<1>2. ASSUME NEW t \in Tabs, NEW send \in SUBSET proofs, ReviewCashOut(t, send) PROVE CashInv'
  BY <1>2, ReviewStep
<1>3. ASSUME NEW t \in Tabs, AskRefresh(t) \/ AskConfirm(t) \/ Resume(t) PROVE CashInv'
  BY <1>3, AskRefreshStep, AskConfirmStep, ResumeStep
<1>4. ASSUME NEW t \in Tabs, Start(t) PROVE CashInv'
  BY <1>4, ClaimStep, CheckQuoteStep, ConfirmStep, CheckMeltStep DEF Start
<1>5. ASSUME NEW t \in Tabs, Step(t) PROVE CashInv'
  BY <1>5, PrepareStep, IssueStep, RestoreAddStep, MeltStep, MeltAnswerStep, InspectStep,
     RecoverStep, RestoreOutStep DEF Step
<1>6. ASSUME NEW t \in Tabs, Close(t) PROVE CashInv'
  BY <1>6, CloseStep
<1>7. ASSUME NEW a \in Adds, Pay(a) \/ Lapse(a) PROVE CashInv'
  BY <1>7, PayStep, LapseStep
<1>8. ASSUME NEW c \in Outs, Resolve(c) PROVE CashInv'
  BY <1>8, ResolveStep
<1>9. ASSUME NEW r \in late, Arrive(r) PROVE CashInv'
  BY <1>9, ArriveStep
<1>10. CASE UNCHANGED vars
  <2>1. /\ UNCHANGED snapshot /\ UNCHANGED mint
        /\ UNCHANGED <<task, review, late, lapsed, faults>>
    BY <1>10 DEF vars, snapshot, mint
  <2>2. RecordsHold' /\ LateHolds'
    BY <2>1, SameRecords DEF CashInv
  <2>3. TabsHold'
    BY <2>1, MintTabs DEF CashInv, TabsHold, TabTypes
  <2> QED
    BY <2>2, <2>3 DEF CashInv
<1> QED
  BY <1>1, <1>2, <1>3, <1>4, <1>5, <1>6, <1>7, <1>8, <1>9, <1>10 DEF Next

LEMMA CashInductive == Spec => []CashInv
BY CashInit, CashNext, PTL DEF Spec
-----------------------------------------------------------------------------
(* Every commit of the browser is one its storage accepts: what a record   *)
(* has reserved is not spendable, and what it may yet restore is not there *)
(* already; and at most one tab works at a time.                           *)
THEOREM CashTypes == Spec => []TypeOK
<1>1. CashInv => TypeOK
  <2> SUFFICES ASSUME CashInv PROVE TypeOK
    OBVIOUS
  <2>0. ValueHolds /\ LateHolds /\ TabTypes /\ OneLock
    BY DEF CashInv, RecordsHold, TabsHold
  <2>1. /\ adds \in [Adds -> AddRecord] /\ outs \in [Outs -> OutRecord]
        /\ quotes \in [Adds -> {"unpaid", "paid", "issued"}] /\ melts \in [Outs -> MeltRecord]
    BY <2>0 DEF ValueHolds, RecordTypes
  <2>2. proofs \subseteq Proofs /\ signed \subseteq Proofs /\ spent \subseteq Proofs
    BY <2>0, SpendableType DEF ValueHolds, SignedHolds
  <2>3. \A t, u \in Tabs : {task[t].at, task[u].at} \cap {"idle", "waiting"} = {} => t = u
    BY <2>0 DEF OneLock, Passive
  <2>4. ASSUME NEW a \in Adds, adds[a].state # "none"
        PROVE  Storage!AddIsNormal(adds[a].state, AddFields(adds[a]))
    <3>1. adds[a].state \in Storage!AddStates
      BY <2>1, <2>4 DEF AddRecord, AddStates, Storage!AddStates
    <3> QED
      BY <3>1 DEF Storage!AddIsNormal, AddFields, Has
  <2>5. ASSUME NEW c \in Outs, outs[c].state # "none"
        PROVE  Storage!CashOutIsNormal(outs[c].state, OutFields(outs[c]))
    <3>1. outs[c].state \in Storage!CashOutStates
      BY <2>1, <2>5 DEF OutRecord, OutStates, Storage!CashOutStates
    <3>2. outs[c].recovery # {} => outs[c].reserved # {}
      BY <2>0 DEF ValueHolds, OutValue, Awaits
    <3> QED
      BY <3>1, <3>2 DEF Storage!CashOutIsNormal, OutFields, Has
  <2>6. Storage!ProofsAreNormal(proofs, UNION {outs[c].reserved : c \in Outs}, Awaited)
    <3>1. ASSUME NEW v \in proofs PROVE v \notin (UNION {outs[c].reserved : c \in Outs})
      BY <2>0 DEF ValueHolds, OutValue
    <3>2. ASSUME NEW v \in proofs PROVE v \notin Awaited
      BY <2>0 DEF ValueHolds, OutValue, AddValue, Awaits, Awaited
    <3> QED
      BY <3>1, <3>2 DEF Storage!ProofsAreNormal
  <2>7. StoredIsReadable
    BY <2>4, <2>5, <2>6 DEF StoredIsReadable
  <2> QED
    BY <2>0, <2>1, <2>2, <2>3, <2>7
    DEF TypeOK, TabTypes, Tasks, AddRecord, OutRecord, MeltRecord, LateHolds, Requests
<1> QED
  BY <1>1, CashInductive, PTL

(* No value is lost or doubled in a market's browser: what the mint has    *)
(* signed and not seen spent is spendable or in the record that recovers   *)
(* it; what is spendable the mint would take now, and no request of a      *)
(* handler that gave up can still spend it.                                *)
THEOREM BalanceTheorem == Spec => []ValueIsInOnePlace
<1>1. CashInv => ValueIsInOnePlace
  <2> SUFFICES ASSUME CashInv PROVE ValueIsInOnePlace
    OBVIOUS
  <2>0. ValueHolds /\ LateHolds /\ SignedHolds
    BY DEF CashInv, RecordsHold, ValueHolds
  <2>1. ASSUME NEW v \in signed \ spent
        PROVE  v \in proofs \cup (UNION {adds[a].outputs : a \in Adds})
                            \cup (UNION {outs[c].reserved \cup outs[c].change \cup outs[c].recovery :
                                           c \in Outs})
    <3>1. Placed(v)
      BY <2>0 DEF SignedHolds
    <3> QED
      BY <3>1 DEF Placed, Awaits
  <2>2. Live(proofs)
    <3>1. ASSUME NEW v \in proofs PROVE v \notin Held
      BY <2>0 DEF Held, ValueHolds, OutValue, MeltValue
    <3> QED
      BY <2>0, <3>1 DEF Live, SignedHolds
  <2>3. \A c \in Outs : proofs \cap outs[c].reserved = {}
    BY <2>0 DEF ValueHolds, OutValue
  <2>4. ASSUME NEW r \in late PROVE proofs \cap r.inputs = {}
    <3>1. r \in Requests /\ RequestHolds(r)
      BY <2>0 DEF LateHolds
    <3>2. r.inputs = {} \/ r.inputs \subseteq spent \/ \E c \in Outs : r.inputs = outs[c].reserved
      BY <3>1, RequestKinds DEF RequestHolds
    <3> QED
      BY <2>0, <2>3, <3>2 DEF SignedHolds
  <2> QED
    BY <2>1, <2>2, <2>3, <2>4 DEF ValueIsInOnePlace, BalanceIsReal
<1> QED
  BY <1>1, CashInductive, PTL

(* A record that says paid or settled is what the mint says, and a         *)
(* cash-out that failed can no longer be paid by a request that is late.   *)
THEOREM OutcomeTheorem == Spec => []OutcomeIsFinal
<1>1. CashInv => OutcomeIsFinal
  <2> SUFFICES ASSUME CashInv PROVE OutcomeIsFinal
    OBVIOUS
  <2>0. /\ \A a \in Adds : AddStateHolds(a)
        /\ \A c \in Outs : OutStateHolds(c)
        /\ LateHolds
    BY DEF CashInv, RecordsHold
  <2>1. ASSUME NEW c \in Outs, outs[c].state = "failed", NEW r \in late, r.kind = "melt", r.op = c
        PROVE  r.inputs \subseteq spent
    <3>1. RequestHolds(r) /\ outs[c].reserved = {}
      BY <2>0, <2>1 DEF LateHolds, OutStateHolds
    <3> QED
      BY <2>1, <3>1 DEF RequestHolds
  <2> QED
    BY <2>0, <2>1 DEF OutcomeIsFinal, AddStateHolds, OutStateHolds
<1> QED
  BY <1>1, CashInductive, PTL
-----------------------------------------------------------------------------
(* The browser as a vault: what it has set aside is what it could still    *)
(* spend and does not show.                                                *)
LEMMA AsideIs == ValueHolds => SetAside = (signed \ spent) \ proofs
<1> SUFFICES ASSUME ValueHolds PROVE SetAside = (signed \ spent) \ proofs
  OBVIOUS
<1>1. ASSUME NEW v \in SetAside PROVE v \in (signed \ spent) \ proofs
  <2>1. v \in signed \ spent
    BY DEF SetAside
  <2>2. \A a \in Adds : v \in adds[a].outputs => v \notin proofs
    BY DEF ValueHolds, AddValue
  <2>3. \A c \in Outs : v \in outs[c].reserved \cup Awaits(c) => v \notin proofs
    BY DEF ValueHolds, OutValue
  <2>4. \/ \E a \in Adds : v \in adds[a].outputs
        \/ \E c \in Outs : v \in outs[c].reserved \cup Awaits(c)
    BY DEF SetAside, Awaits
  <2> QED
    BY <2>1, <2>2, <2>3, <2>4
<1>2. ASSUME NEW v \in (signed \ spent) \ proofs PROVE v \in SetAside
  <2>1. Placed(v)
    BY DEF ValueHolds, SignedHolds
  <2> QED
    BY <2>1 DEF Placed, SetAside, Awaits
<1> QED
  BY <1>1, <1>2

Parts ==
  /\ SetAside = (signed \ spent) \ proofs
  /\ proofs \subseteq signed \ spent /\ spent \subseteq signed

LEMMA PartsAre == CashInv => Parts
BY AsideIs DEF CashInv, RecordsHold, ValueHolds, SignedHolds, Parts

(* Steps that ask nothing of the mint take from the balance or give back.  *)
LEMMA BrowserMoves ==
  ASSUME Parts, Parts', UNCHANGED <<signed, spent>>,
         proofs' \subseteq proofs \/ proofs \subseteq proofs'
  PROVE  Vault!Next
<1>0. /\ SetAside = (signed \ spent) \ proofs /\ SetAside' = (signed \ spent) \ proofs'
      /\ proofs \subseteq signed \ spent /\ proofs' \subseteq signed \ spent
  BY DEF Parts
<1>1. CASE proofs' \subseteq proofs
  <2> DEFINE S == proofs \ proofs'
  <2>1. S \in SUBSET proofs /\ proofs' = proofs \ S /\ SetAside' = SetAside \cup S
    BY <1>0, <1>1
  <2> QED
    BY <2>1 DEF Vault!Next, Vault!SetAside
<1>2. CASE proofs \subseteq proofs'
  <2> DEFINE S == proofs' \ proofs
  <2>1. S \in SUBSET SetAside /\ proofs' = proofs \cup S /\ SetAside' = SetAside \ S
    BY <1>0, <1>2
  <2> QED
    BY <2>1 DEF Vault!Next, Vault!Credit
<1> QED
  BY <1>1, <1>2

(* Steps of the mint spend what was set aside, and what the browser shows  *)
(* with their answer is newly signed.                                      *)
LEMMA MintMoves ==
  ASSUME Parts, Parts', signed \subseteq signed', spent \subseteq spent',
         spent' \ spent \subseteq signed,
         proofs \subseteq proofs', proofs' \subseteq proofs \cup (signed' \ signed)
  PROVE  Vault!Next
<1> DEFINE used == spent' \ spent
           received == proofs' \ proofs
<1>0. /\ SetAside = (signed \ spent) \ proofs /\ SetAside' = (signed' \ spent') \ proofs'
      /\ proofs \subseteq signed \ spent /\ proofs' \subseteq signed' \ spent'
      /\ spent \subseteq signed
  BY DEF Parts
<1>1. used \in SUBSET SetAside /\ spent' = spent \cup used
  BY <1>0
<1>2. SetAside' = (SetAside \ used) \cup ((signed' \ signed) \ received)
  BY <1>0
<1> QED
  BY <1>1, <1>2 DEF Vault!Next, Vault!Exchange

(* What the mint signs for a record had not been signed.                   *)
LEMMA ServedMoves ==
  ASSUME CashInv, Parts', NEW r \in Requests, RequestHolds(r), Serve(r),
         proofs' = proofs \/ (r.kind # "melt" /\ proofs' = proofs \cup r.outputs)
  PROVE  Vault!Next
<1>0. ValueHolds /\ Parts /\ r.kind \in {"issue", "melt", "swap"} /\ Serves(r)
  BY PartsAre, RequestKinds DEF CashInv, RecordsHold, Serve
<1>1. /\ signed' = IF r.kind = "melt" THEN signed ELSE signed \cup r.outputs
      /\ spent' = IF r.kind = "swap" THEN spent \cup r.inputs ELSE spent
  BY DEF Serve
<1>2. spent' \ spent \subseteq signed
  BY <1>0, <1>1 DEF Serves, Live
<1>3. r.kind # "melt" => r.outputs \cap signed = {}
  <2>1. CASE r.kind = "issue"
    <3>1. r.op \in Adds /\ r.outputs = adds[r.op].outputs
      BY <1>0, <2>1, ServedInTime
    <3>2. AddValue(r.op) /\ quotes[r.op] # "issued"
      BY <1>0, <2>1, <3>1 DEF ValueHolds, Serves
    <3> QED
      BY <3>1, <3>2 DEF AddValue
  <2>2. CASE r.kind = "swap"
    <3>1. r.outputs = outs[r.op].recovery /\ Untouched(r.op)
      BY <1>0, <2>2, ServedInTime
    <3> QED
      BY <3>1 DEF Untouched, Awaits
  <2> QED
    BY <1>0, <2>1, <2>2
<1> QED
  BY <1>0, <1>1, <1>2, <1>3, MintMoves

LEMMA EndMoves ==
  ASSUME Parts, Parts', NEW c \in Outs, NEW state, NEW gained, Ended(c, state, gained), UNCHANGED mint
  PROVE  Vault!Next
BY BrowserMoves, MintIsKept DEF Ended

LEMMA SameMoves ==
  ASSUME Parts, Parts', UNCHANGED mint, UNCHANGED proofs
  PROVE  Vault!Next
BY BrowserMoves, MintIsKept

LEMMA IssueMoves == ASSUME CashInv, Parts', NEW t \in Tabs, Issue(t) PROVE Vault!Next
<1> DEFINE a == task[t].op
<1>0. a \in Adds /\ adds[a].outputs # {} /\ ValueHolds /\ Parts
  BY AtWork, PartsAre DEF CashInv, RecordsHold, Issue
<1>1. CASE Serve(IssueRequest(a)) /\ Settle(t, a)
  <2>1. IssueRequest(a) \in Requests /\ RequestHolds(IssueRequest(a))
    BY <1>0, OwnRequests
  <2>2. /\ IssueRequest(a).kind = "issue" /\ IssueRequest(a).outputs = adds[a].outputs
    BY DEF IssueRequest, Request
  <2>3. proofs' = proofs \cup adds[a].outputs
    BY <1>1 DEF Settle
  <2> HIDE DEF a
  <2> QED
    BY <1>1, <2>1, <2>2, <2>3, ServedMoves
<1>2. CASE UNCHANGED mint /\ UNCHANGED proofs
  BY <1>0, <1>2, SameMoves
<1> QED
  BY <1>1, <1>2 DEF Issue

LEMMA MeltMoves == ASSUME CashInv, Parts', NEW t \in Tabs, Melt(t) PROVE Vault!Next
<1> DEFINE c == task[t].op
<1>0. c \in Outs /\ outs[c].reserved # {} /\ Parts
  BY AtWork, PartsAre DEF CashInv, Melt
<1>1. CASE Serve(MeltRequest(c)) /\ UNCHANGED proofs
  <2>1. spent' = spent /\ signed' = signed
    BY <1>1 DEF Serve, MeltRequest, Request
  <2> QED
    BY <1>0, <1>1, <2>1, BrowserMoves
<1>2. CASE GiveUp(c) /\ UNCHANGED mint
  BY <1>0, <1>2, SameMoves DEF GiveUp, Unclear
<1> QED
  BY <1>1, <1>2 DEF Melt

LEMMA RecoverMoves == ASSUME CashInv, Parts', NEW t \in Tabs, Recover(t) PROVE Vault!Next
<1> DEFINE c == task[t].op
<1>0. c \in Outs /\ outs[c].reserved # {} /\ outs[c].recovery # {} /\ ValueHolds /\ Parts
  BY AtWork, PartsAre DEF CashInv, RecordsHold, Recover
<1>1. CASE Serve(SwapRequest(c)) /\ Ended(c, "failed", outs[c].recovery)
  <2>1. SwapRequest(c) \in Requests /\ RequestHolds(SwapRequest(c))
    BY <1>0, OwnRequests
  <2>2. SwapRequest(c).kind = "swap" /\ SwapRequest(c).outputs = outs[c].recovery
    BY DEF SwapRequest, Request
  <2>3. proofs' = proofs \cup outs[c].recovery
    BY <1>1 DEF Ended
  <2> HIDE DEF c
  <2> QED
    BY <1>1, <2>1, <2>2, <2>3, ServedMoves
<1>2. CASE UNCHANGED mint /\ UNCHANGED proofs
  BY <1>0, <1>2, SameMoves
<1> QED
  BY <1>1, <1>2 DEF Recover

LEMMA RecordMoves ==
  ASSUME CashInv, Parts', NEW t \in Tabs,
         \/ Confirm(t) \/ CheckMelt(t) \/ RestoreAdd(t) \/ MeltAnswer(t)
         \/ Inspect(t) \/ RestoreOut(t)
  PROVE  Vault!Next
<1> DEFINE op == task[t].op
<1>0. Parts
  BY PartsAre
<1>1. CASE Confirm(t)
  <2>1. UNCHANGED mint /\ proofs' \subseteq proofs
    BY <1>1 DEF Confirm, SameProofs
  <2> QED
    BY <1>0, <2>1, BrowserMoves, MintIsKept
<1>2. CASE CheckMelt(t)
  <2>1. UNCHANGED mint /\ proofs \subseteq proofs'
    BY <1>2 DEF CheckMelt, Unclear, Ended, Reclaim
  <2> QED
    BY <1>0, <2>1, BrowserMoves, MintIsKept
<1>3. CASE RestoreAdd(t)
  <2>1. UNCHANGED mint /\ proofs \subseteq proofs'
    BY <1>3 DEF RestoreAdd, Settle
  <2> QED
    BY <1>0, <2>1, BrowserMoves, MintIsKept
<1>4. CASE MeltAnswer(t)
  <2>1. UNCHANGED mint /\ proofs \subseteq proofs'
    BY <1>4 DEF MeltAnswer, Unclear, Ended
  <2> QED
    BY <1>0, <2>1, BrowserMoves, MintIsKept
<1>5. CASE Inspect(t)
  BY <1>0, <1>5, SameMoves DEF Inspect, Unclear
<1>6. CASE RestoreOut(t)
  <2>1. UNCHANGED mint /\ proofs \subseteq proofs'
    BY <1>6 DEF RestoreOut, KeepTrying, Unclear, Ended
  <2> QED
    BY <1>0, <2>1, BrowserMoves, MintIsKept
<1> QED
  BY <1>1, <1>2, <1>3, <1>4, <1>5, <1>6

(* A melt ends with what it had reserved, and that was set aside.          *)
LEMMA ResolveMoves == ASSUME CashInv, Parts', NEW c \in Outs, Resolve(c) PROVE Vault!Next
<1>0. Parts /\ ValueHolds /\ proofs' = proofs /\ melts[c].state = "pending"
  BY PartsAre DEF CashInv, RecordsHold, Resolve, snapshot
<1>1. melts[c].inputs \subseteq signed
  <2>1. melts[c].inputs = outs[c].reserved
    BY <1>0 DEF ValueHolds, MeltValue
  <2> QED
    BY <1>0, <2>1, HeldIsSigned
<1>2. spent' = spent \/ spent' = spent \cup melts[c].inputs
  BY DEF Resolve
<1>3. signed \subseteq signed'
  BY DEF Resolve
<1> QED
  BY <1>0, <1>1, <1>2, <1>3, MintMoves

LEMMA ArriveMoves == ASSUME CashInv, Parts', NEW r \in late, Arrive(r) PROVE Vault!Next
<1>0. Parts /\ r \in Requests /\ RequestHolds(r) /\ proofs' = proofs
  BY PartsAre DEF CashInv, LateHolds, Arrive, snapshot
<1>1. CASE Serve(r)
  BY <1>0, <1>1, ServedMoves
<1>2. CASE UNCHANGED mint
  BY <1>0, <1>2, SameMoves
<1> QED
  BY <1>1, <1>2 DEF Arrive

(* Every step of the browser, or of its mint, is one of the vault's.       *)
LEMMA VaultNext == CashInv /\ [Next]_vars => [Vault!Next]_(Vault!vault)
<1> SUFFICES ASSUME CashInv, [Next]_vars PROVE Vault!Next
  OBVIOUS
<1>0. Parts /\ Parts'
  <2>1. CashInv'
    BY CashNext
  <2>2. CashInv' => Parts'
    BY PartsAre, PTL
  <2> QED
    BY <2>1, <2>2, PartsAre
<1>1. ASSUME NEW t \in Tabs, NEW a \in Adds, NEW source \in {"payer", "faucet"},
             RequestCash(t, a, source)
      PROVE  Vault!Next
  BY <1>0, <1>1, SameMoves DEF RequestCash
<1>2. ASSUME NEW t \in Tabs, NEW send \in SUBSET proofs, ReviewCashOut(t, send) PROVE Vault!Next
  BY <1>0, <1>2, SameMoves DEF ReviewCashOut, snapshot
<1>3. ASSUME NEW t \in Tabs, AskRefresh(t) \/ AskConfirm(t) \/ Resume(t) PROVE Vault!Next
  BY <1>0, <1>3, SameMoves DEF AskRefresh, AskConfirm, Resume, snapshot
<1>4. ASSUME NEW t \in Tabs, Start(t) PROVE Vault!Next
  <2>1. CASE Claim(t) \/ CheckQuote(t)
    BY <1>0, <2>1, SameMoves DEF Claim, CheckQuote
  <2> QED
    BY <1>0, <1>4, <2>1, RecordMoves DEF Start
<1>5. ASSUME NEW t \in Tabs, Step(t) PROVE Vault!Next
  <2>1. CASE Prepare(t)
    BY <1>0, <2>1, SameMoves DEF Prepare
  <2> QED
    BY <1>0, <1>5, <2>1, IssueMoves, MeltMoves, RecoverMoves, RecordMoves DEF Step
<1>6. ASSUME NEW t \in Tabs, Close(t) PROVE Vault!Next
  BY <1>0, <1>6, SameMoves DEF Close, snapshot
<1>7. ASSUME NEW a \in Adds, Pay(a) \/ Lapse(a) PROVE Vault!Next
  <2>1. UNCHANGED <<signed, spent>> /\ proofs' = proofs
    BY <1>7 DEF Pay, Lapse, snapshot, mint
  <2> QED
    BY <1>0, <2>1, BrowserMoves
<1>8. ASSUME NEW c \in Outs, Resolve(c) PROVE Vault!Next
  BY <1>0, <1>8, ResolveMoves
<1>9. ASSUME NEW r \in late, Arrive(r) PROVE Vault!Next
  BY <1>0, <1>9, ArriveMoves
<1>10. CASE UNCHANGED vars
  BY <1>0, <1>10, SameMoves DEF vars, mint
<1> QED
  BY <1>1, <1>2, <1>3, <1>4, <1>5, <1>6, <1>7, <1>8, <1>9, <1>10 DEF Next

LEMMA VaultInit == Init => Vault!Init
<1> SUFFICES ASSUME Init PROVE Vault!Init
  OBVIOUS
<1>1. ValueHolds /\ spent = {} /\ signed = proofs
  BY CashInit DEF CashInv, RecordsHold, Init
<1> QED
  BY <1>1, AsideIs DEF Vault!Init

(* A market's browser is a vault, through every lost answer, late request, *)
(* stale review and closed tab: what is spendable is set aside before it   *)
(* is spent, what is set aside stays in a record until it is spent or      *)
(* given back, and what is spent does not come back.                       *)
THEOREM CashVault == Spec => ImplementsVault
<1>1. Spec => []CashInv
  BY CashInductive
<1> QED
  BY <1>1, VaultInit, VaultNext, PTL DEF Spec, ImplementsVault, Vault!Spec
===============================================================================
