------------------------------ MODULE WalletMints ------------------------------
(***************************************************************************)
(* One tab of the wallet and its localStorage: a snapshot for each mint,   *)
(* the unit it is bound to, and the change of the active mint.  What a     *)
(* handler of App.tsx does to the mint is WalletOps; here it is what       *)
(* reaches the storage, a sequence of commits made with the mint URL that  *)
(* the handler closed over, of whatever snapshot is current by then.       *)
(***************************************************************************)
EXTENDS Naturals, FiniteSets

CONSTANTS
  Mints,       (* mint URLs                                                *)
  Units,       (* the units that a mint may advertise                      *)
  Ops,         (* operation ids                                            *)
  None,
  MaxMoves     (* bound on mint changes, retries and reloads               *)

VARIABLES
  disk,        (* fibernuts:wallet:v2, by mint URL                         *)
  legacy,      (* fibernuts:proofs, by mint URL, from an older wallet      *)
  mintUrl,     (* the active mint, in the state and in the storage         *)
  snapshot,    (* snapshotRef                                              *)
  wallet,      (* the connection to the mint: its status and unit          *)
  handlers,    (* the handlers at work: what each closed over              *)
  moves

vars == <<disk, legacy, mintUrl, snapshot, wallet, handlers, moves>>

(* A proof and a record say which mint they are of, a record its unit too. *)
Proof(m, id) == [mint |-> m, id |-> id]
Record(o, m, u) == [id |-> o, mint |-> m, unit |-> u]

EmptySnapshot == [unit |-> None, proofs |-> {}, operations |-> {}, openRequest |-> None]
Connecting == [status |-> "connecting", unit |-> None]

Init ==
  /\ disk = [m \in Mints |-> None]
  /\ legacy \in [Mints -> {{}} \cup {{Proof(m, "seed")} : m \in Mints}]
  /\ \A m \in Mints : legacy[m] \subseteq {Proof(m, "seed")}
  /\ mintUrl \in Mints
  /\ snapshot = EmptySnapshot
  /\ wallet = [status |-> "closed", unit |-> None]
  /\ handlers = {}
  /\ moves = 0
-----------------------------------------------------------------------------
(* loadWalletSnapshot: a snapshot without a unit takes the one all of its  *)
(* operations have; what is of another unit is left out of what is loaded. *)
UnitOf(stored) ==
  LET units == {r.unit : r \in stored.operations}
  IN IF stored.unit = None /\ Cardinality(units) = 1
     THEN CHOOSE u \in units : TRUE
     ELSE stored.unit

InUnit(stored, u) ==
  [stored EXCEPT !.unit = u,
                 !.operations = {r \in @ : r.unit = u},
                 !.openRequest = IF @ = u THEN @ ELSE None]

Migrated(m) == [EmptySnapshot EXCEPT !.proofs = legacy[m]]

Loaded(m) ==
  IF disk[m] = None THEN Migrated(m)
  ELSE LET u == UnitOf(disk[m])
       IN IF u = None THEN disk[m] ELSE InUnit(disk[m], u)

(* An older wallet's proofs are saved in the new form at the first load.   *)
LoadSnapshot(m) ==
  /\ snapshot' = Loaded(m)
  /\ disk' = IF disk[m] = None /\ legacy[m] # {}
             THEN [disk EXCEPT ![m] = Migrated(m)] ELSE disk
  /\ wallet' = Connecting
  /\ UNCHANGED legacy

SaveSnapshot(m, next) == disk' = [disk EXCEPT ![m] = next]

Move == moves < MaxMoves /\ moves' = moves + 1

(* The page opens; changeMint, from the form of the mint screen, and the   *)
(* effect it runs; the retry of a connection; the page is reloaded.        *)
Open ==
  /\ wallet.status = "closed"
  /\ LoadSnapshot(mintUrl)
  /\ UNCHANGED <<mintUrl, handlers, moves>>

ChangeMint(m) ==
  /\ wallet.status # "closed" /\ m # mintUrl /\ Move
  /\ mintUrl' = m
  /\ LoadSnapshot(m)
  /\ UNCHANGED handlers

Retry ==
  /\ wallet.status # "closed" /\ Move
  /\ LoadSnapshot(mintUrl)
  /\ UNCHANGED <<mintUrl, handlers>>

Reload ==
  /\ wallet.status # "closed" /\ Move
  /\ handlers' = {}
  /\ LoadSnapshot(mintUrl)
  /\ UNCHANGED mintUrl
-----------------------------------------------------------------------------
(* FibernutsWallet.load: the unit that the mint advertises now, no Fiber   *)
(* methods or no restoration for it, or an error.                          *)
LoadAnswers ==
  [status : {"online"}, unit : Units] \cup [status : {"offline", "incompatible"}, unit : {None}]

(* The load ends: a unit binds a snapshot that has none, and another than  *)
(* that of the snapshot is refused.  A load of a mint that was left is     *)
(* cancelled.                                                              *)
Connects(u) ==
  /\ wallet.status = "connecting"
  /\ IF snapshot.unit \notin {None, u}
     THEN /\ wallet' = [status |-> "incompatible", unit |-> None]
          /\ UNCHANGED <<disk, snapshot>>
     ELSE /\ wallet' \in {answer \in LoadAnswers : answer.unit = u}
          /\ snapshot' = IF snapshot.unit = None THEN InUnit(snapshot, u) ELSE snapshot
          /\ IF snapshot.unit = None THEN SaveSnapshot(mintUrl, snapshot') ELSE UNCHANGED disk
  /\ UNCHANGED <<legacy, mintUrl, handlers, moves>>

DoesNotConnect ==
  /\ wallet.status = "connecting"
  /\ wallet' \in {answer \in LoadAnswers : answer.unit = None}
  /\ UNCHANGED <<disk, legacy, mintUrl, snapshot, handlers, moves>>
-----------------------------------------------------------------------------
(* persistOperation and commitSnapshot: the handler's record replaces its  *)
(* older one in the snapshot that is current, which is saved under the     *)
(* handler's mint.                                                         *)
Persist(h, proofs) ==
  /\ snapshot' = [snapshot EXCEPT !.proofs = proofs,
                                  !.operations = {r \in @ : r.id # h.record.id} \cup {h.record}]
  /\ SaveSnapshot(h.mint, snapshot')

Known(o) == \E r \in snapshot.operations : r.id = o
Working(o) == \E h \in handlers : h.record.id = o

(* requestAdd asks for a quote and stores nothing before it has one; the   *)
(* handlers of sends, receipts and cash-outs store their record, and take  *)
(* what they spend, before their first await.                              *)
Handler(record) == [mint |-> mintUrl, record |-> record]

RequestAdd(o) ==
  /\ wallet.status = "online" /\ ~Known(o) /\ ~Working(o)
  /\ handlers' = handlers \cup {Handler(Record(o, mintUrl, wallet.unit))}
  /\ UNCHANGED <<disk, legacy, mintUrl, snapshot, wallet, moves>>

Begin(o) ==
  /\ wallet.status = "online" /\ ~Known(o) /\ ~Working(o)
  /\ LET h == Handler(Record(o, mintUrl, wallet.unit))
     IN /\ handlers' = handlers \cup {h}
        /\ \E keep \in SUBSET snapshot.proofs : Persist(h, keep)
  /\ UNCHANGED <<legacy, mintUrl, wallet, moves>>

Refresh(o) ==
  /\ wallet.status = "online" /\ ~Working(o)
  /\ \E r \in snapshot.operations :
       /\ r.id = o
       /\ handlers' = handlers \cup {Handler(r)}
  /\ UNCHANGED <<disk, legacy, mintUrl, snapshot, wallet, moves>>

(* After an await: a commit on the way, the last one with the proofs that  *)
(* the handler's own mint has signed, or an end without a commit.          *)
Progress(h) ==
  /\ Persist(h, snapshot.proofs)
  /\ UNCHANGED <<legacy, mintUrl, wallet, handlers, moves>>

Finish(h) ==
  /\ handlers' = handlers \ {h}
  /\ Persist(h, snapshot.proofs \cup {Proof(h.mint, h.record.id)})
  /\ UNCHANGED <<legacy, mintUrl, wallet, moves>>

GiveUp(h) ==
  /\ handlers' = handlers \ {h}
  /\ UNCHANGED <<disk, legacy, mintUrl, snapshot, wallet, moves>>

(* saveOpenRequest, with the ticker that is on show (that of the profile,  *)
(* of an operation or of the build when neither the connection nor the     *)
(* snapshot has a unit), and clearOpenRequest.                             *)
Tickers ==
  IF wallet.unit # None THEN {wallet.unit}
  ELSE IF snapshot.unit # None THEN {snapshot.unit} ELSE Units

SetRequest(u) ==
  /\ wallet.status # "closed"
  /\ u \in Tickers \cup {None}
  /\ snapshot' = [snapshot EXCEPT !.openRequest = u]
  /\ SaveSnapshot(mintUrl, snapshot')
  /\ UNCHANGED <<legacy, mintUrl, wallet, handlers, moves>>

Next ==
  \/ Open \/ Retry \/ Reload \/ DoesNotConnect
  \/ \E m \in Mints : ChangeMint(m)
  \/ \E u \in Units : Connects(u)
  \/ \E u \in Units \cup {None} : SetRequest(u)
  \/ \E o \in Ops : RequestAdd(o) \/ Begin(o) \/ Refresh(o)
  \/ \E h \in handlers : Progress(h) \/ Finish(h) \/ GiveUp(h)

Spec == Init /\ [][Next]_vars
-----------------------------------------------------------------------------
(* Balances and activity are kept separately for each mint URL: what is    *)
(* stored for a mint holds only proofs and records of that mint.  The code *)
(* does not keep it (changeMint leaves the handlers of the old mint at     *)
(* work, and commitSnapshot saves snapshotRef under their mint URL).       *)
MintsKeptApart ==
  \A m \in Mints : disk[m] # None =>
    \A item \in disk[m].proofs \cup disk[m].operations : item.mint = m
=============================================================================
