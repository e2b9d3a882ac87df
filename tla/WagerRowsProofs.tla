--------------------------- MODULE WagerRowsProofs --------------------------
(***************************************************************************)
(* The wager rows of WagerSubmit with one resolver: what they say, what    *)
(* the ledger, the outbox and the callers say of them, and that they are   *)
(* the book of WalletBook.  One resolver, because a second one, with a     *)
(* stale batch, rewrites settled rows.                                     *)
(***************************************************************************)
EXTENDS WagerSubmitProofs

-----------------------------------------------------------------------------
\* Rows, for one resolver.

\* One instance of the service runs the resolver's loop.
OneResolver == \A r, s \in Resolvers : r = s

\* A reversal has its reference, which is PROCESSED and matches; nothing else
\* has one.
Justified(t) ==
  IF IsReversal(t.request.kind)
    THEN /\ t.ref = t.request.reference
         /\ rows[t.ref] # NoTx /\ ValidateReference(t.request, rows[t.ref])
    ELSE t.ref = NoKey

\* What a row can be.
RowOK(t) ==
  /\ t.status \in {"PENDING_REFERENCE", "PROCESSED", "REJECTED"}
  /\ t.status = "PENDING_REFERENCE" =>
       IsReversal(t.request.kind) /\ t.ref = NoKey /\ t.code = "none"
  /\ t.status = "PROCESSED" => t.code = "none" /\ Justified(t)

\* At most one reversal of a transaction is PROCESSED.
OneReversal ==
  \A ref \in Keys : \A k, l \in FindReversal(ref) : k = l

\* What Decide has decided of tx[p], and what it still rests on.
Decided(p) ==
  LET t == tx[p]
      d == Direction(t)
  IN \/ /\ t.status = "PROCESSED" /\ t.code = "none" /\ t.request.kind # "LOSS"
        /\ Justified(t)
        /\ IsReversal(t.request.kind) => FindReversal(t.ref) = {}
        /\ WalletCurrency[WalletOf(p)] = t.request.currency
        /\ entry[p].direction = d /\ entry[p].amount = t.request.amount
     \/ /\ t.status = "REJECTED" /\ t.code = "DUPLICATE_REVERSAL"
        /\ IsReversal(t.request.kind) /\ FindReversal(t.request.reference) # {}
     \/ /\ t.status = "REJECTED" /\ t.code = InsufficientCode(t.request.kind)
        /\ Justified(t) /\ d = "DEBIT"
        /\ wallets[WalletOf(p)].balance < t.request.amount

\* What is decided without a movement.
Noted(p) ==
  LET t == tx[p] IN
  \/ /\ t.status = "PENDING_REFERENCE" /\ t.code = "none" /\ t.ref = NoKey
     /\ p \in Submitters /\ IsReversal(t.request.kind)
  \/ /\ t.status = "REJECTED" /\ t.code = "INVALID_REFERENCE"
     /\ IsReversal(t.request.kind) /\ rows[t.request.reference] # NoTx
  \/ /\ t.status = "REJECTED" /\ t.code = "REFERENCE_NOT_FOUND" /\ p \in Resolvers
  \/ /\ t.status = "PROCESSED" /\ t.code = "none" /\ t.ref = NoKey
     /\ t.request.kind = "LOSS"
     /\ WalletOf(p) \in Wallets => WalletCurrency[WalletOf(p)] = t.request.currency

\* Where the row of a resolver's transaction is still parked.
Resolving(r) == Busy(r) /\ pc[r] # "balance"

\* What p's place says of its transaction.
Stage(p) ==
  /\ pc[p] \in {"lookup", "process", "lock", "decide"} =>
       /\ tx[p].code = "none"
       /\ tx[p].status = IF p \in Submitters THEN "PENDING" ELSE "PENDING_REFERENCE"
  /\ p \in Submitters => pc[p] \notin {"next", "reschedule"}
  /\ pc[p] \in {"lookup", "process"} => tx[p].ref = NoKey
  /\ pc[p] \in {"lock", "decide"} => Justified(tx[p])
  /\ pc[p] \in {"save", "commit"} => Decided(p)
  /\ pc[p] \in Aside => Noted(p)
  /\ p \in Resolvers /\ Resolving(p) => rows[Key(p)].status = "PENDING_REFERENCE"

\* The rest of a batch is parked as it was read, one item for each row, and
\* none is the one being resolved.
Batch(r) ==
  /\ \A item \in due[r] :
       /\ rows[item.tx.request.key] = item.tx /\ item.tx.status = "PENDING_REFERENCE"
       /\ Resolving(r) => item.tx.request.key # Key(r)
  /\ \A i, j \in due[r] : i.tx.request.key = j.tx.request.key => i = j

RowsInv ==
  /\ OneResolver /\ KeysInv
  /\ \A k \in Keys : rows[k] # NoTx => RowOK(rows[k])
  /\ \A p \in Procs : Stage(p)
  /\ \A r \in Resolvers : Batch(r)
  /\ OneReversal /\ LedgerTellsRows

\* What a step of p leaves of the rows: a row stays and keeps its request; one
\* with a terminal status stays as it is, and a submitter rewrites none.
Keeps(p) ==
  /\ \A k \in Keys : rows[k] # NoTx =>
       rows'[k] # NoTx /\ rows'[k].request = rows[k].request
  /\ \A k \in Keys : rows[k] # NoTx /\ rows[k].status # "PENDING_REFERENCE" =>
       rows'[k] = rows[k]
  /\ \A k \in Keys : p \in Submitters /\ rows[k] # NoTx => rows'[k] = rows[k]
  /\ \A k \in Keys : k # Key(p) => rows'[k] = rows[k]

\* A commit writes a key without row, or a parked row.
LEMMA StepKeeps ==
  ASSUME RowsInv, NEW p \in Procs, rows' = rows \/ Commits(p)
  PROVE  Keeps(p)
<1>1. CASE rows' = rows
  BY <1>1 DEF Keeps
<1>2. CASE Commits(p)
  <2>0. TypeInv /\ KeyInv(p) /\ Stage(p)
    BY DEF RowsInv, KeysInv, LedgerInv
  <2>1. /\ tx[p] # NoTx /\ Key(p) \in Keys /\ tx[p].request.key = Key(p)
        /\ rows' = [rows EXCEPT ![Key(p)] = tx[p]] /\ rows'[Key(p)] = tx[p]
    BY <1>2, <2>0, CommitRow, BusyKey
  <2>2. \/ rows[Key(p)] = NoTx
        \/ /\ p \in Resolvers /\ rows[Key(p)].status = "PENDING_REFERENCE"
           /\ rows[Key(p)].request = tx[p].request
    <3>1. CASE p \in Submitters
      BY <1>2, <2>0, <3>1, CommitRow
    <3>2. CASE p \in Resolvers
      <4>1. Resolving(p)
        BY <1>2 DEF Commits, Resolving, Busy
      <4> QED BY <1>2, <2>0, <2>1, <3>2, <4>1, CommitRow DEF Stage, Stored
    <3> QED BY <3>1, <3>2 DEF Procs
  <2>3. \A k \in Keys : k # Key(p) => rows'[k] = rows[k]
    BY <2>0, <2>1 DEF TypeInv, TypeOK
  <2> QED BY <2>1, <2>2, <2>3, SubmitAssumption DEF Keeps
<1> QED BY <1>1, <1>2

\* A transaction in memory or in a row, and the reference it may have.
LEMMA References ==
  ASSUME TypeInv, NEW t, TxOK(t)
  PROVE  /\ t.ref \in Keys \cup {NoKey}
         /\ Justified(t) => t.ref = NoKey \/ (t.ref \in Keys /\ rows[t.ref] # NoTx)
<1>1. t.ref \in Keys \cup {NoKey}
  BY DEF TxOK, Transaction
<1>2. IsReversal(t.request.kind) => t.request.reference \in Keys
  BY DecisionTypes
<1> QED BY <1>1, <1>2 DEF Justified

\* A reference that justifies goes on doing so, and the direction it gives
\* stays.
LEMMA JustifiedStays ==
  ASSUME TypeInv, NEW p \in Procs, Keeps(p), NEW t, TxOK(t), Justified(t)
  PROVE  Justified(t)' /\ Direction(t)' = Direction(t)
<1>1. t.ref = NoKey \/ (t.ref \in Keys /\ rows[t.ref] # NoTx)
  BY References
<1>2. Justified(t)'
  <2>1. CASE IsReversal(t.request.kind)
    <3>1. /\ t.ref = t.request.reference /\ rows[t.ref] # NoTx
          /\ ValidateReference(t.request, rows[t.ref])
      BY <2>1 DEF Justified
    <3>2. t.ref \in Keys
      BY <2>1, <3>1, DecisionTypes
    <3>3. rows'[t.ref] = rows[t.ref]
      BY <3>1, <3>2 DEF Keeps, ValidateReference
    <3> QED BY <2>1, <3>1, <3>3 DEF Justified
  <2>2. CASE ~IsReversal(t.request.kind)
    BY <2>2 DEF Justified
  <2> QED BY <2>1, <2>2
<1>3. Direction(t)' = Direction(t)
  BY <1>1 DEF Direction, Keeps
<1> QED BY <1>2, <1>3

\* A PROCESSED reversal of that transaction stays one.
LEMMA ReversalsStay ==
  ASSUME NEW p \in Procs, Keeps(p), NEW ref
  PROVE  FindReversal(ref) \subseteq FindReversal(ref)'
BY DEF Keeps, FindReversal

\* What a process decided under its lock still holds after a step of another:
\* that one has not committed a reversal of the same transaction, for it does
\* not hold the lock of the wallet, which is the reference's.
LEMMA DecidedStays ==
  ASSUME RowsInv, NEW p \in Procs, Alone(p), book' = book \/ Commits(p),
         NEW q \in Procs, q # p, entry'[q] = entry[q],
         pc[q] \in {"save", "commit"}, Decided(q)
  PROVE  Decided(q)'
<1> DEFINE t == tx[q]
<1>0. /\ TypeInv /\ LockInv /\ Keeps(p) /\ tx'[q] = t /\ TxOK(t) /\ TxOK(tx[q])'
      /\ Mine(q) /\ WalletOf(q) \in Wallets /\ holder[WalletOf(q)] = q
  <2>1. rows' = rows \/ Commits(p)
    BY DEF book
  <2>2. Busy(q) /\ TypeInv /\ LockInv
    BY DEF RowsInv, KeysInv, LedgerInv, Busy
  <2> QED BY <2>1, <2>2, StepKeeps, BusyKey DEF Alone, LockInv, Mine, Inside
<1>1. WalletOf(q)' = WalletOf(q)
  BY <1>0 DEF WalletOf
<1>2. wallets'[WalletOf(q)] = wallets[WalletOf(q)]
  <2>1. CASE book' = book
    BY <2>1 DEF book
  <2>2. CASE Commits(p)
    <3>1. CASE Moves(tx[p])
      <4>1. WalletOf(p) # WalletOf(q)
        BY <1>0, <2>2, <3>1 DEF Commits, LockInv, Mine, Inside, Aside
      <4>2. wallets' = [wallets EXCEPT ![WalletOf(p)] = loaded[p]]
        BY <2>2, <3>1 DEF Commits, Persist
      <4> QED BY <1>0, <4>1, <4>2 DEF TypeInv, TypeOK
    <3>2. CASE ~Moves(tx[p])
      BY <2>2, <3>2 DEF Commits, Persist
    <3> QED BY <3>1, <3>2
  <2> QED BY <2>1, <2>2
<1>3. Justified(t) => Justified(t)' /\ Direction(t)' = Direction(t)
  BY <1>0, JustifiedStays
<1>4. ASSUME IsReversal(t.request.kind), Justified(t), FindReversal(t.ref) = {},
             FindReversal(t.ref)' # {}
      PROVE  FALSE
  <2>1. PICK k \in Keys : /\ rows'[k] # NoTx /\ rows'[k].ref = t.ref
                          /\ IsReversal(rows'[k].request.kind)
                          /\ rows'[k].status = "PROCESSED"
    BY <1>0, <1>4 DEF FindReversal
  <2>2. rows'[k] # rows[k]
    BY <1>4, <2>1 DEF FindReversal
  <2>3. Commits(p) /\ k = Key(p)
    BY <1>0, <2>2 DEF book, Keeps
  <2>4. rows'[k] = tx[p] /\ Stage(p) /\ TxOK(tx[p])
    BY <1>0, <2>3, CommitRow, BusyKey DEF RowsInv, KeysInv
  <2>5. tx[p].status = "PROCESSED" /\ tx[p].ref = t.ref /\ IsReversal(tx[p].request.kind)
    BY <2>1, <2>4
  <2>6. pc[p] = "commit"
    BY <1>0, <2>3, <2>5 DEF Commits, LockInv, Mine, Aside, Moves, IsReversal
  <2>7. Justified(tx[p])
    BY <2>4, <2>5, <2>6 DEF Stage, Decided
  <2>8. WalletOf(p) = WalletOf(q)
    BY <1>4, <2>5, <2>7 DEF Justified, ValidateReference, WalletOf
  <2> QED BY <1>0, <2>6, <2>8 DEF LockInv, Mine, Inside
<1>5. FindReversal(t.request.reference) # {} => FindReversal(t.request.reference)' # {}
  BY <1>0, ReversalsStay
<1>6. /\ IsReversal(tx[q].request.kind) /\ Justified(tx[q])
        /\ FindReversal(tx[q].ref) = {} =>
        FindReversal(tx[q].ref)' = {}
  BY <1>0, <1>4
<1> QED
  <2>1. CASE tx[q].status = "PROCESSED"
    BY <1>0, <1>1, <1>3, <1>6, <2>1 DEF Decided
  <2>2. CASE /\ tx[q].status = "REJECTED" /\ tx[q].code = "DUPLICATE_REVERSAL"
             /\ IsReversal(tx[q].request.kind)
             /\ FindReversal(tx[q].request.reference) # {}
    <3>1. FindReversal(tx[q].request.reference)' # {}
      BY <1>0, <1>5, <2>2
    <3> QED BY <1>0, <2>2, <3>1 DEF Decided
  <2>3. CASE /\ tx[q].status = "REJECTED"
             /\ tx[q].code = InsufficientCode(tx[q].request.kind)
             /\ Justified(tx[q]) /\ Direction(tx[q]) = "DEBIT"
             /\ wallets[WalletOf(q)].balance < tx[q].request.amount
    <3>1. Justified(tx[q])' /\ Direction(tx[q])' = "DEBIT"
      BY <1>0, <1>3, <2>3
    <3> QED BY <1>0, <1>1, <1>2, <2>3, <3>1 DEF Decided
  <2> QED BY <2>1, <2>2, <2>3 DEF Decided

\* What a process found before its transaction still holds after a step of
\* another.
LEMMA StageFrame ==
  ASSUME RowsInv, NEW p \in Procs, Alone(p), book' = book \/ Commits(p),
         NEW q \in Procs, q # p, entry'[q] = entry[q]
  PROVE  Stage(q)'
<1>0. /\ TypeInv /\ Keeps(p) /\ Stage(q) /\ KeyInv(q)
      /\ pc'[q] = pc[q] /\ tx'[q] = tx[q] /\ Key(q)' = Key(q)
      /\ WalletOf(q)' = WalletOf(q)
      /\ Resolving(q)' = Resolving(q)
  <2>1. rows' = rows \/ Commits(p)
    BY DEF book
  <2> QED BY <2>1, StepKeeps
          DEF RowsInv, KeysInv, LedgerInv, Alone, Key, WalletOf, Resolving, Busy
<1>1. Busy(q) => TxOK(tx[q]) /\ Key(q) \in Keys
  BY <1>0, BusyKey
<1>2. pc[q] \in {"lock", "decide"} => Justified(tx[q])'
  BY <1>0, <1>1, JustifiedStays DEF Stage, Busy
<1>3. pc[q] \in {"save", "commit"} => Decided(q)'
  BY <1>0, DecidedStays DEF Stage
<1>4. pc[q] \in Aside => Noted(q)'
  <2> SUFFICES ASSUME pc[q] \in Aside PROVE Noted(q)'
    OBVIOUS
  <2>1. Noted(q) /\ TxOK(tx[q])
    BY <1>0, <1>1 DEF Stage, Aside, Busy
  <2>2. IsReversal(tx[q].request.kind) /\ rows[tx[q].request.reference] # NoTx =>
          rows'[tx[q].request.reference] # NoTx
    BY <1>0, <2>1, DecisionTypes DEF Keeps
  <2> QED BY <1>0, <2>1, <2>2 DEF Noted
<1>5. q \in Resolvers /\ Resolving(q) => rows'[Key(q)].status = "PENDING_REFERENCE"
  <2> SUFFICES ASSUME q \in Resolvers, Resolving(q)
               PROVE  rows'[Key(q)].status = "PENDING_REFERENCE"
    OBVIOUS
  <2>1. p \in Submitters
    BY DEF RowsInv, OneResolver, Procs
  <2>2. Busy(q) /\ rows[Key(q)].status = "PENDING_REFERENCE" /\ rows[Key(q)] # NoTx
    BY <1>0 DEF Resolving, Stage, KeyInv, Stored, Key
  <2> QED BY <1>0, <1>1, <2>1, <2>2 DEF Keeps
<1> QED BY <1>0, <1>2, <1>3, <1>4, <1>5 DEF Stage

\* A submitter's step leaves the resolver's batch as it was read.
LEMMA BatchFrame ==
  ASSUME RowsInv, NEW p \in Procs, Alone(p), rows' = rows \/ Commits(p),
         NEW r \in Resolvers, r # p
  PROVE  Batch(r)'
<1>0. r \in Procs /\ p \in Submitters /\ Batch(r) /\ KeyInv(r) /\ Keeps(p)
  BY StepKeeps DEF RowsInv, KeysInv, OneResolver, Procs
<1>1. due'[r] = due[r] /\ Resolving(r)' = Resolving(r) /\ Key(r)' = Key(r)
  BY <1>0 DEF Alone, Key, Resolving, Busy
<1>2. \A item \in due[r] : rows'[item.tx.request.key] = rows[item.tx.request.key]
  BY <1>0, SubmitAssumption DEF KeyInv, Stored, Keeps
<1> QED BY <1>0, <1>1, <1>2 DEF Batch

\* p has come to a place that says nothing of its transaction.
LEMMA StageNowhere ==
  ASSUME TypeInv, NEW p \in Procs, KeyInv(p)',
         pc'[p] \in {"idle", "done", "next", "winner", "replay", "current", "balance"},
         p \in Submitters => pc'[p] # "next"
  PROVE  Stage(p)' /\ ~(p \in Resolvers /\ Resolving(p)')
<1>1. ~(p \in Resolvers /\ Resolving(p)')
  BY DEF KeyInv, SubmitterOnly, Resolving, Busy
<1> QED BY <1>1 DEF Stage, Aside

\* A step on the way leaves a resolver's row parked and its batch as it is.
LEMMA ParkedStays ==
  ASSUME RowsInv, NEW p \in Resolvers, rows' = rows, due' = due,
         Resolving(p), tx'[p].request = tx[p].request
  PROVE  rows'[Key(p)'].status = "PENDING_REFERENCE" /\ Batch(p)'
<1>1. Stage(p) /\ Batch(p) /\ Key(p)' = Key(p)
  BY DEF RowsInv, Procs, Key
<1> QED BY <1>1 DEF Stage, Batch

\* What process finds of the reference.
LEMMA ReversalStage ==
  ASSUME RowsInv, NEW p \in Procs, ProcessReversal(p)
  PROVE  Stage(p)' /\ (p \in Resolvers => Batch(p)')
<1> DEFINE key == tx[p].request.reference
<1>0. /\ TypeInv /\ Stage(p) /\ TxOK(tx[p]) /\ pc[p] = "process"
      /\ rows' = rows /\ due' = due /\ Resolving(p) /\ key \in Keys
      /\ IsReversal(tx[p].request.kind)
  BY BusyKey, DecisionTypes
     DEF RowsInv, KeysInv, LedgerInv, ProcessReversal, book, Busy, Resolving
<1>1. /\ tx[p].code = "none" /\ tx[p].ref = NoKey
      /\ tx[p].status = IF p \in Submitters THEN "PENDING" ELSE "PENDING_REFERENCE"
  BY <1>0 DEF Stage
<1>2. \/ /\ rows[key] = NoTx /\ tx'[p] = MarkPendingReference(tx[p])
         /\ pc'[p] = IF tx[p].status = "PENDING_REFERENCE"
                       THEN "reschedule" ELSE "saveEvent"
      \/ /\ rows[key] # NoTx /\ tx'[p] = MarkRejected(tx[p], "INVALID_REFERENCE")
         /\ pc'[p] = "saveEvent"
      \/ /\ rows[key] # NoTx /\ ValidateReference(tx[p].request, rows[key])
         /\ tx'[p] = ResolveReference(tx[p], key) /\ pc'[p] = "lock"
  BY DEF ProcessReversal, Goto, RowsInv, KeysInv, LedgerInv, TypeInv, TypeOK
<1>3. /\ tx'[p].request = tx[p].request
      /\ tx'[p] = MarkPendingReference(tx[p]) =>
           /\ tx'[p].status = "PENDING_REFERENCE"
           /\ tx'[p].code = "none" /\ tx'[p].ref = NoKey
      /\ tx'[p] = MarkRejected(tx[p], "INVALID_REFERENCE") =>
           /\ tx'[p].status = "REJECTED" /\ tx'[p].code = "INVALID_REFERENCE"
      /\ tx'[p] = ResolveReference(tx[p], key) =>
           /\ tx'[p].ref = key /\ tx'[p].code = "none"
           /\ tx'[p].status = tx[p].status
  BY <1>0, <1>1, <1>2
     DEF MarkPendingReference, MarkRejected, ResolveReference, TxOK, Transaction
<1>4. p \in Resolvers => rows'[Key(p)'].status = "PENDING_REFERENCE" /\ Batch(p)'
  BY <1>0, <1>3, ParkedStays
<1>5. Stage(p)'
  <2>1. CASE rows[key] = NoTx
    <3>1. CASE p \in Submitters
      <4>1. pc'[p] = "saveEvent" /\ Noted(p)'
        BY <1>0, <1>1, <1>2, <1>3, <2>1, <3>1 DEF Noted
      <4> QED BY <3>1, <4>1, SubmitAssumption DEF Stage, Aside
    <3>2. CASE p \in Resolvers
      <4>1. pc'[p] = "reschedule"
        BY <1>1, <1>2, <2>1, <3>2, SubmitAssumption
      <4> QED BY <1>4, <3>2, <4>1, SubmitAssumption DEF Stage, Aside
    <3> QED BY <3>1, <3>2 DEF Procs
  <2>2. CASE /\ rows[key] # NoTx /\ pc'[p] = "saveEvent"
             /\ tx'[p] = MarkRejected(tx[p], "INVALID_REFERENCE")
    <3>1. Noted(p)'
      BY <1>0, <1>3, <2>2 DEF Noted
    <3> QED BY <1>4, <2>2, <3>1 DEF Stage, Aside
  <2>3. CASE /\ rows[key] # NoTx /\ ValidateReference(tx[p].request, rows[key])
             /\ tx'[p] = ResolveReference(tx[p], key) /\ pc'[p] = "lock"
    <3>1. Justified(tx[p])'
      BY <1>0, <1>3, <2>3 DEF Justified
    <3> QED BY <1>1, <1>3, <1>4, <2>3, <3>1 DEF Stage, Aside
  <2> QED BY <1>2, <2>1, <2>2, <2>3
<1> QED BY <1>4, <1>5

\* What Decide decides, and what it rests on.
LEMMA DecideStage ==
  ASSUME RowsInv, NEW p \in Procs, Decide(p), KeyInv(p)'
  PROVE  Stage(p)' /\ (p \in Resolvers => Batch(p)')
<1> DEFINE t == tx[p]
           before == loaded[p].balance
           d == Direction(t)
<1>0. /\ TypeInv /\ Stage(p) /\ TxOK(t) /\ pc[p] = "decide" /\ Resolving(p)
      /\ rows' = rows /\ wallets' = wallets /\ Mine(p)
      /\ t.request.kind # "LOSS"
  <2>1. rows' = rows /\ wallets' = wallets
    BY DEF Decide, Return, book
  <2> QED BY <2>1, BusyKey
          DEF RowsInv, KeysInv, LedgerInv, LockInv, Decide, Busy, Resolving, TypeInv, WellFormed
<1>1. t.code = "none" /\ Justified(t)
  BY <1>0 DEF Stage
<1>2. before = wallets[WalletOf(p)].balance /\ WalletOf(p) \in Wallets
  BY <1>0 DEF Mine, Inside
<1>3. CASE Return(p, "money")
  <2>1. pc'[p] \in {"done", "idle"} /\ (p \in Resolvers => due'[p] = {})
    BY <1>0, <1>3, SubmitAssumption DEF Return, Goto, TypeInv, TypeOK
  <2> QED BY <1>0, <2>1, StageNowhere DEF Batch
<1>4. ASSUME Goto(p, "save"), due' = due, tx'[p].request = t.request, Decided(p)'
      PROVE  Stage(p)' /\ (p \in Resolvers => Batch(p)')
  <2>1. pc'[p] = "save"
    BY <1>0, <1>4 DEF Goto, TypeInv, TypeOK
  <2>2. p \in Resolvers => rows'[Key(p)'].status = "PENDING_REFERENCE" /\ Batch(p)'
    BY <1>0, <1>4, ParkedStays
  <2> QED BY <1>4, <2>1, <2>2 DEF Stage, Aside
<1>5. ASSUME NEW code, tx' = [tx EXCEPT ![p] = MarkRejected(t, code)]
      PROVE  /\ tx'[p].request = t.request /\ tx'[p].status = "REJECTED"
             /\ tx'[p].code = code /\ tx'[p].ref = t.ref
  BY <1>0, <1>5 DEF MarkRejected, TxOK, Transaction, TypeInv, TypeOK
<1>6. CASE /\ tx' = [tx EXCEPT ![p] = MarkRejected(t, "DUPLICATE_REVERSAL")]
           /\ IsReversal(t.request.kind) /\ FindReversal(t.ref) # {}
           /\ Goto(p, "save") /\ due' = due
  <2>1. t.ref = t.request.reference
    BY <1>1, <1>6 DEF Justified
  <2>2. FindReversal(t.ref)' = FindReversal(t.ref)
    BY <1>0, <2>1, <1>6, <1>5 DEF FindReversal
  <2>3. Decided(p)'
    BY <1>0, <1>5, <1>6, <2>1, <2>2 DEF Decided
  <2> QED BY <1>4, <1>5, <1>6, <2>3
<1>7. CASE /\ tx' = [tx EXCEPT ![p] = MarkRejected(t, InsufficientCode(t.request.kind))]
           /\ Insufficient(before, d, t.request.amount)
           /\ Goto(p, "save") /\ due' = due
  <2>1. /\ tx'[p].request = t.request /\ tx'[p].status = "REJECTED" /\ tx'[p].ref = t.ref
        /\ tx'[p].code = InsufficientCode(t.request.kind)
    BY <1>5, <1>7
  <2>2. Justified(tx[p])' /\ Direction(tx[p])' = d
    BY <1>0, <1>1, <2>1 DEF Justified, Direction
  <2>3. WalletOf(p)' = WalletOf(p)
    BY <2>1 DEF WalletOf
  <2>4. t.request.amount \in Int /\ before \in Int
    BY <1>0, DecisionTypes DEF TypeInv, TypeOK, Wallet
  <2>5. d = "DEBIT" /\ wallets[WalletOf(p)].balance < t.request.amount
    BY <1>2, <1>7, <2>4 DEF Insufficient
  <2>6. Decided(p)'
    BY <1>0, <2>1, <2>2, <2>3, <2>5 DEF Decided
  <2> QED BY <1>4, <1>7, <2>1, <2>6
<1>8. CASE /\ tx' = [tx EXCEPT ![p] = MarkProcessed(t)]
           /\ ~(IsReversal(t.request.kind) /\ FindReversal(t.ref) # {})
           /\ WalletCurrency[WalletOf(p)] = t.request.currency
           /\ \E after : entry' = [entry EXCEPT ![p] =
                [key |-> Key(p), direction |-> d, amount |-> t.request.amount,
                 before |-> before, after |-> after]]
           /\ Goto(p, "save") /\ due' = due
  <2>1. /\ tx'[p].request = t.request /\ tx'[p].status = "PROCESSED"
        /\ tx'[p].ref = t.ref /\ tx'[p].code = "none"
    BY <1>0, <1>1, <1>8 DEF MarkProcessed, TxOK, Transaction, TypeInv, TypeOK
  <2>2. /\ Justified(tx[p])' /\ Direction(tx[p])' = d
        /\ FindReversal(tx[p].ref)' = FindReversal(t.ref)
    BY <1>0, <1>1, <2>1 DEF Justified, Direction, FindReversal
  <2>3. WalletOf(p)' = WalletOf(p)
    BY <2>1 DEF WalletOf
  <2>4. entry'[p].direction = d /\ entry'[p].amount = t.request.amount
    BY <1>0, <1>8 DEF TypeInv, TypeOK
  <2>5. Decided(p)'
    BY <1>0, <1>8, <2>1, <2>2, <2>3, <2>4 DEF Decided
  <2> QED BY <1>4, <1>8, <2>1, <2>5
<1> QED BY <1>3, <1>6, <1>7, <1>8 DEF Decide

\* The commit of p is over, and so is what its place said.
LEMMA CommitStage ==
  ASSUME RowsInv, NEW p \in Procs, Commits(p), KeyInv(p)',
         CommitMovement(p) \/ CommitEvent(p) \/ LoseCommitReply(p)
  PROVE  Stage(p)' /\ (p \in Resolvers => Batch(p)')
<1>0. TypeInv /\ Keeps(p) /\ KeyInv(p) /\ Busy(p) /\ Resolving(p)
  BY StepKeeps DEF RowsInv, KeysInv, LedgerInv, Commits, Busy, Resolving
<1>1. /\ pc'[p] \in {"done", "idle", "next", "balance"}
      /\ p \in Submitters => pc'[p] # "next"
  BY <1>0 DEF CommitMovement, CommitEvent, LoseCommitReply, Return, Succeed, Goto,
              TypeInv, TypeOK
<1>2. due'[p] \in {due[p], {}}
  BY <1>0 DEF CommitMovement, CommitEvent, LoseCommitReply, Return, TypeInv, TypeOK
<1>3. Stage(p)' /\ ~(p \in Resolvers /\ Resolving(p)')
  BY <1>0, <1>1, StageNowhere
<1>4. ASSUME p \in Resolvers PROVE Batch(p)'
  <2>1. Batch(p) /\ \A item \in due[p] : item.tx.request.key \in Keys
    BY <1>0, <1>4 DEF RowsInv, KeyInv, Stored
  <2>2. \A item \in due[p] : rows'[item.tx.request.key] = item.tx
    BY <1>0, <2>1 DEF Batch, Keeps
  <2> QED BY <1>2, <1>3, <1>4, <2>1, <2>2 DEF Batch
<1> QED BY <1>3, <1>4

\* The batch is what the rows say, and so is the item taken from it.
LEMMA DueStage ==
  ASSUME RowsInv, NEW p \in Procs, FindDue(p) \/ ResolveOne(p), KeyInv(p)'
  PROVE  Stage(p)' /\ (p \in Resolvers => Batch(p)')
<1>0. /\ TypeInv /\ Stage(p) /\ rows' = rows /\ p \in Resolvers /\ Batch(p)
      /\ \A k \in Keys : rows[k] # NoTx => RowOK(rows[k])
  <2>1. TypeInv /\ Stage(p) /\ rows' = rows
    BY DEF RowsInv, KeysInv, LedgerInv, FindDue, ResolveOne, book
  <2>2. p \in Resolvers
    BY <2>1 DEF FindDue, ResolveOne, Stage, Procs
  <2> QED BY <2>1, <2>2 DEF RowsInv
<1>1. CASE FindDue(p)
  <2>1. pc'[p] = "next"
    BY <1>0, <1>1 DEF FindDue, Goto, TypeInv, TypeOK
  <2>2. \A item \in due'[p] : \E k \in Keys :
          item = [tx |-> rows[k], attempts |-> attempts[k], old |-> k \in old]
          /\ rows[k].status = "PENDING_REFERENCE"
    BY <1>0, <1>1 DEF FindDue, TypeInv, TypeOK
  <2>3. \A item \in due'[p] : \E k \in Keys :
          /\ item = [tx |-> rows[k], attempts |-> attempts[k], old |-> k \in old]
          /\ rows[k].status = "PENDING_REFERENCE" /\ rows[k].request.key = k
    <3>1. \A k \in Keys : rows[k].status = "PENDING_REFERENCE" => rows[k] # NoTx
      BY DEF NoTx
    <3> QED BY <1>0, <2>2, <3>1 DEF TypeInv, WellFormed, RowsOK
  <2>4. Stage(p)' /\ ~(p \in Resolvers /\ Resolving(p)')
    BY <1>0, <2>1, StageNowhere, SubmitAssumption
  <2> QED BY <1>0, <2>3, <2>4 DEF Batch
<1>2. CASE ResolveOne(p) /\ due[p] = {} /\ Goto(p, "idle") /\ due' = due
  <2>1. pc'[p] = "idle" /\ due'[p] = {}
    BY <1>0, <1>2 DEF Goto, TypeInv, TypeOK
  <2> QED BY <1>0, <2>1, StageNowhere DEF Batch
<1>3. ASSUME NEW item \in due[p], due' = [due EXCEPT ![p] = @ \ {item}],
             \/ /\ tx' = [tx EXCEPT ![p] = MarkRejected(item.tx, "REFERENCE_NOT_FOUND")]
                /\ Goto(p, "saveEvent")
             \/ tx' = [tx EXCEPT ![p] = item.tx] /\ Goto(p, "process")
      PROVE  Stage(p)' /\ (p \in Resolvers => Batch(p)')
  <2>1. due'[p] = due[p] \ {item}
    BY <1>0, <1>3 DEF TypeInv, TypeOK
  <2>2. /\ TxOK(item.tx) /\ item.tx.request.key \in Keys
        /\ rows[item.tx.request.key] = item.tx /\ item.tx.status = "PENDING_REFERENCE"
    BY <1>0, BusyKey DEF Batch, RowsInv, KeysInv, KeyInv, Stored, TypeInv, WellFormed
  <2>3. item.tx.code = "none" /\ item.tx.ref = NoKey
    <3>1. rows[item.tx.request.key] # NoTx
      BY <2>2, NoTxIsNone DEF TxOK
    <3> QED BY <1>0, <2>2, <3>1 DEF RowOK
  <2>4. \/ /\ pc'[p] = "saveEvent" /\ tx'[p].status = "REJECTED"
           /\ tx'[p].code = "REFERENCE_NOT_FOUND" /\ tx'[p].request = item.tx.request
        \/ pc'[p] = "process" /\ tx'[p] = item.tx
    <3>1. LET t == MarkRejected(item.tx, "REFERENCE_NOT_FOUND") IN
            /\ t.status = "REJECTED" /\ t.code = "REFERENCE_NOT_FOUND"
            /\ t.request = item.tx.request
      BY <2>2 DEF MarkRejected, TxOK, Transaction
    <3> QED BY <1>0, <1>3, <3>1 DEF Goto, TypeInv, TypeOK
  <2>5. Key(p)' = item.tx.request.key
    BY <2>4 DEF Key
  <2>6. Batch(p)'
    BY <1>0, <1>3, <2>1, <2>5 DEF Batch
  <2>7. CASE pc'[p] = "saveEvent"
    <3>1. Noted(p)'
      BY <1>0, <2>4, <2>7 DEF Noted
    <3> QED BY <1>0, <2>2, <2>5, <2>6, <2>7, <3>1, SubmitAssumption DEF Stage, Aside
  <2>8. CASE pc'[p] = "process" /\ tx'[p] = item.tx
    BY <1>0, <2>2, <2>3, <2>5, <2>6, <2>8, SubmitAssumption DEF Stage, Aside
  <2> QED BY <2>4, <2>6, <2>7, <2>8
<1> QED BY <1>1, <1>2, <1>3 DEF ResolveOne

\* An error leads out of everything.
LEMMA ReturnStage ==
  ASSUME RowsInv, NEW p \in Procs, NEW o, Return(p, o), KeyInv(p)'
  PROVE  Stage(p)' /\ (p \in Resolvers => Batch(p)')
<1>1. TypeInv
  BY DEF RowsInv, KeysInv, LedgerInv
<1>2. pc'[p] \in {"done", "idle"} /\ (p \in Resolvers => due'[p] = {})
  BY <1>1, SubmitAssumption DEF Return, Goto, TypeInv, TypeOK
<1> QED BY <1>1, <1>2, StageNowhere DEF Batch

\* The other steps before, beside and after the transaction.
LEMMA WayStage ==
  ASSUME RowsInv, NEW p \in Procs, KeyInv(p)',
         \/ \E req \in Requests : Submit(p, req)
         \/ LookUp(p) \/ Replay(p) \/ ReadBalance(p) \/ ProcessMovement(p)
         \/ ProcessLoss(p) \/ LockWallet(p) \/ ShareWallet(p) \/ Reschedule(p)
         \/ SaveMovement(p) \/ SaveEvent(p)
  PROVE  Stage(p)' /\ (p \in Resolvers => Batch(p)')
<1>0. /\ TypeInv /\ Stage(p) /\ KeyInv(p) /\ (p \in Resolvers => Batch(p))
      /\ Busy(p) => TxOK(tx[p])
  BY BusyKey DEF RowsInv, KeysInv, LedgerInv
<1>1. ASSUME rows' = rows, due' = due, tx' = tx, NEW l, pc'[p] = l,
             l \in {"idle", "done", "next", "winner", "replay", "current", "balance"},
             p \in Submitters => l # "next"
      PROVE  Stage(p)' /\ (p \in Resolvers => Batch(p)')
  <2>1. Stage(p)' /\ ~(p \in Resolvers /\ Resolving(p)')
    BY <1>0, <1>1, StageNowhere
  <2> QED BY <1>0, <1>1, <2>1 DEF Batch
<1>2. CASE \E req \in Requests : Submit(p, req)
  <2>1. PICK req \in Requests : Submit(p, req)
    BY <1>2
  <2>2. p \in Submitters /\ p \notin Resolvers
    BY <2>1, SubmitAssumption DEF Submit
  <2>3. \/ pc'[p] = "done"
        \/ pc'[p] = "lookup" /\ tx'[p] = NewTransaction(req)
    BY <1>0, <2>1 DEF Submit, Goto, TypeInv, TypeOK
  <2> QED BY <2>2, <2>3 DEF Stage, Aside, NewTransaction
<1>3. CASE LookUp(p)
  <2>1. p \in Submitters /\ p \notin Resolvers
    BY <1>0, <1>3, SubmitAssumption DEF LookUp, KeyInv, SubmitterOnly, Procs
  <2>2. \/ pc'[p] \in {"done", "replay"}
        \/ pc[p] = "lookup" /\ pc'[p] = "process" /\ tx' = tx
    BY <1>0, <1>3 DEF LookUp, Goto, TypeInv, TypeOK
  <2> QED BY <1>0, <2>1, <2>2 DEF Stage, Aside
<1>4. CASE Replay(p) \/ ReadBalance(p) \/ Reschedule(p)
  <2>1. rows' = rows /\ due' = due /\ tx' = tx
    BY <1>4 DEF Replay, ReadBalance, Reschedule, book
  <2>2. /\ pc'[p] \in {"done", "next", "current"}
        /\ p \in Submitters => pc'[p] # "next"
    BY <1>0, <1>4 DEF Replay, ReadBalance, Reschedule, Succeed, Goto, Stage, TypeInv, TypeOK
  <2> QED BY <1>1, <2>1, <2>2
<1>5. CASE ProcessMovement(p)
  <2>1. /\ rows' = rows /\ due' = due /\ tx' = tx /\ pc[p] = "process" /\ Resolving(p)
        /\ pc'[p] = "lock" /\ ~IsReversal(tx[p].request.kind)
    BY <1>0, <1>5 DEF ProcessMovement, book, Goto, TypeInv, TypeOK, IsReversal,
                      Resolving, Busy
  <2>2. Justified(tx[p])'
    BY <1>0, <2>1 DEF Stage, Justified
  <2> QED BY <1>0, <2>1, <2>2, ParkedStays DEF Stage, Aside
<1>6. CASE ProcessLoss(p)
  <2>1. CASE \E o : Return(p, o)
    BY <2>1, ReturnStage
  <2>2. CASE /\ WalletOf(p) \in Wallets
             /\ WalletCurrency[WalletOf(p)] = tx[p].request.currency
             /\ tx' = [tx EXCEPT ![p] = MarkProcessed(@)]
             /\ Goto(p, "saveEvent") /\ rows' = rows /\ due' = due
    <3>1. TxOK(tx[p]) /\ pc[p] = "process" /\ tx[p].request.kind = "LOSS" /\ Resolving(p)
      BY <1>0, <1>6 DEF ProcessLoss, Busy, Resolving
    <3>2. MarkProcessed(tx[p]) = [request |-> tx[p].request, status |-> "PROCESSED",
                                  ref |-> tx[p].ref, code |-> tx[p].code]
      BY <3>1 DEF MarkProcessed, TxOK, Transaction
    <3>3. /\ tx'[p].request = tx[p].request /\ tx'[p].status = "PROCESSED"
          /\ tx'[p].ref = NoKey /\ tx'[p].code = "none" /\ pc'[p] = "saveEvent"
      BY <1>0, <2>2, <3>1, <3>2 DEF Goto, TypeInv, TypeOK, Stage
    <3>4. Noted(p)'
      BY <2>2, <3>1, <3>3 DEF Noted, WalletOf
    <3> QED BY <2>2, <3>1, <3>3, <3>4, ParkedStays DEF Stage, Aside
  <2> QED BY <1>6, <2>1, <2>2 DEF ProcessLoss, book
<1>7. CASE LockWallet(p)
  <2>1. CASE \E o : Return(p, o)
    BY <2>1, ReturnStage
  <2>2. CASE Goto(p, "decide") /\ rows' = rows /\ tx' = tx /\ due' = due
    <3>1. pc[p] = "lock" /\ pc'[p] = "decide" /\ Resolving(p)
      BY <1>0, <1>7, <2>2 DEF LockWallet, Goto, TypeInv, TypeOK, Resolving, Busy
    <3>2. Justified(tx[p])'
      BY <1>0, <2>2, <3>1 DEF Stage, Justified
    <3> QED BY <1>0, <2>2, <3>1, <3>2, ParkedStays DEF Stage, Aside
  <2> QED BY <1>7, <2>1, <2>2 DEF LockWallet, book
<1>8. ASSUME rows' = rows, wallets' = wallets, entry' = entry, due' = due, tx' = tx,
             \/ pc[p] = "save" /\ pc'[p] = "commit"
             \/ pc[p] \in Aside /\ pc'[p] \in Aside
      PROVE  Stage(p)' /\ (p \in Resolvers => Batch(p)')
  <2>1. Resolving(p)
    BY <1>8 DEF Resolving, Busy, Aside
  <2>2. pc[p] = "save" => Decided(p)'
    BY <1>0, <1>8 DEF Stage, Decided, Justified, Direction, FindReversal, WalletOf
  <2>3. pc[p] \in Aside => Noted(p)'
    BY <1>0, <1>8 DEF Stage, Noted, WalletOf
  <2> QED BY <1>8, <2>1, <2>2, <2>3, ParkedStays DEF Stage, Aside
<1>9. CASE SaveMovement(p) \/ SaveEvent(p)
  <2>1. PICK label, next : /\ SaveWager(p, label, next)
                           /\ \/ label = "save" /\ next = "commit"
                              \/ /\ label = "saveEvent"
                                 /\ next \in {"share", "commitEvent"}
    BY <1>9 DEF SaveMovement, SaveEvent
  <2>2. /\ rows' = rows /\ wallets' = wallets /\ entry' = entry /\ due' = due
        /\ tx' = tx /\ pc[p] = label /\ (Goto(p, "winner") \/ Goto(p, next))
    BY <2>1 DEF SaveWager, book, memory
  <2>3. pc'[p] \in {"winner", next}
    BY <1>0, <2>2 DEF Goto, TypeInv, TypeOK
  <2> QED BY <1>1, <1>8, <2>1, <2>2, <2>3 DEF Aside
<1>10. CASE ShareWallet(p)
  <2>1. CASE \E o : Return(p, o)
    BY <2>1, ReturnStage
  <2>2. CASE Goto(p, "commitEvent") /\ UNCHANGED <<book, memory, due, tx>>
    <3>1. pc[p] \in Aside /\ pc'[p] \in Aside
      BY <1>0, <1>10, <2>2 DEF ShareWallet, Goto, TypeInv, TypeOK, Aside
    <3> QED BY <1>8, <2>2, <3>1 DEF book, memory
  <2> QED BY <1>10, <2>1, <2>2 DEF ShareWallet
<1> QED BY <1>2, <1>3, <1>4, <1>5, <1>6, <1>7, <1>9, <1>10

\* Each process keeps what its place says, and the resolver its batch.
LEMMA ActsStage ==
  ASSUME RowsInv, NEW p \in Procs, Acts(p), KeyInv(p)'
  PROVE  Stage(p)' /\ (p \in Resolvers => Batch(p)')
<1>1. CASE \E o : Return(p, o)
  BY <1>1, ReturnStage
<1>2. CASE CommitMovement(p) \/ CommitEvent(p) \/ LoseCommitReply(p)
  <2>1. (\E o : Return(p, o)) \/ Commits(p)
    BY <1>2 DEF CommitMovement, CommitEvent, LoseCommitReply, Commits
  <2> QED BY <1>1, <1>2, <2>1, CommitStage
<1>3. CASE DeadlockVictim(p) \/ Fail(p)
  BY <1>1, <1>3 DEF DeadlockVictim, Fail
<1> QED BY <1>2, <1>3, WayStage, ReversalStage, DecideStage, DueStage DEF Acts, Step

\* What a committed transaction is: what p has decided, or noted.
LEMMA CommitIs ==
  ASSUME RowsInv, NEW p \in Procs, Commits(p)
  PROVE  /\ LedgerInv /\ TypeInv /\ LockInv /\ Keeps(p) /\ Mine(p)
         /\ TxOK(tx[p]) /\ Key(p) \in Keys /\ Key(p) # NoKey /\ tx[p] # NoTx
         /\ tx' = tx /\ rows'[Key(p)] = tx[p] /\ tx[p].request.key = Key(p)
         /\ rows[Key(p)] = NoTx \/ rows[Key(p)].status = "PENDING_REFERENCE"
         /\ Moves(tx[p]) => Decided(p) /\ pc[p] = "commit"
         /\ Decided(p) \/ Noted(p)
<1>1. /\ LedgerInv /\ TypeInv /\ LockInv /\ Keeps(p) /\ Mine(p) /\ KeyInv(p)
      /\ Stage(p) /\ Busy(p) /\ Resolving(p)
  BY StepKeeps DEF RowsInv, KeysInv, LedgerInv, LockInv, Commits, Busy, Resolving
<1>2. Decided(p) \/ Noted(p)
  BY <1>1 DEF Stage, Commits, Aside
<1>3. Moves(tx[p]) => Decided(p) /\ pc[p] = "commit"
  BY <1>1 DEF Stage, Commits, Aside, Mine
<1>4. rows[Key(p)] = NoTx \/ rows[Key(p)].status = "PENDING_REFERENCE"
  BY <1>1, CommitRow DEF Stage, Procs
<1>5. /\ TxOK(tx[p]) /\ Key(p) \in Keys /\ Key(p) # NoKey /\ tx[p] # NoTx
      /\ tx' = tx /\ rows'[Key(p)] = tx[p] /\ tx[p].request.key = Key(p)
  BY <1>1, BusyKey, CommitRow, DomainAssumption DEF Commits
<1> QED BY <1>1, <1>2, <1>3, <1>4, <1>5

\* A committed row is one of those a row can be.
LEMMA CommitRowOK ==
  ASSUME RowsInv, NEW p \in Procs, Commits(p)
  PROVE  \A k \in Keys : rows'[k] # NoTx => RowOK(rows[k])'
<1> SUFFICES ASSUME NEW k \in Keys, rows'[k] # NoTx PROVE RowOK(rows[k])'
  OBVIOUS
<1>1. CASE k # Key(p)
  <2>1. rows'[k] = rows[k] /\ RowOK(rows[k]) /\ TxOK(rows[k])
    BY <1>1, CommitIs DEF Keeps, RowsInv, TypeInv, WellFormed, RowsOK
  <2>2. Justified(rows[k]) => Justified(rows[k])'
    BY <2>1, CommitIs, JustifiedStays
  <2> QED BY <2>1, <2>2 DEF RowOK
<1>2. CASE k = Key(p)
  <2>1. rows'[k] = tx[p] /\ TxOK(tx[p]) /\ (Decided(p) \/ Noted(p))
    BY <1>2, CommitIs
  <2>2. tx[p].status = "PROCESSED" => tx[p].code = "none" /\ Justified(tx[p])
    <3>1. tx[p].request.kind = "LOSS" /\ tx[p].ref = NoKey => Justified(tx[p])
      BY DEF Justified, IsReversal
    <3> QED BY <2>1, <3>1 DEF Decided, Noted
  <2>3. Justified(tx[p]) => Justified(tx[p])'
    BY <2>1, CommitIs, JustifiedStays
  <2>4. /\ tx[p].status \in {"PENDING_REFERENCE", "PROCESSED", "REJECTED"}
        /\ tx[p].status = "PENDING_REFERENCE" =>
             IsReversal(tx[p].request.kind) /\ tx[p].ref = NoKey /\ tx[p].code = "none"
    BY <2>1 DEF Decided, Noted
  <2>5. Justified(tx[p])' => Justified(rows[k])'
    BY <2>1, CommitIs DEF Justified
  <2> QED BY <2>1, <2>2, <2>3, <2>4, <2>5 DEF RowOK
<1> QED BY <1>1, <1>2

\* The committed reversal is the first of its reference.
LEMMA CommitReversal ==
  ASSUME RowsInv, NEW p \in Procs, Commits(p)
  PROVE  OneReversal'
<1>1. \A k \in Keys : k # Key(p) => rows'[k] = rows[k]
  BY CommitIs DEF Keeps
<1>2. \A ref : FindReversal(ref)' \subseteq FindReversal(ref) \cup {Key(p)}
  BY <1>1 DEF FindReversal
<1>3. \A ref : Key(p) \in FindReversal(ref)' => FindReversal(ref) = {}
  <2> SUFFICES ASSUME NEW ref, Key(p) \in FindReversal(ref)'
               PROVE  FindReversal(ref) = {}
    OBVIOUS
  <2>1. /\ tx[p].ref = ref /\ IsReversal(tx[p].request.kind)
        /\ tx[p].status = "PROCESSED"
    BY CommitIs DEF FindReversal
  <2>2. Moves(tx[p])
    BY <2>1 DEF Moves, IsReversal
  <2> QED BY <2>1, <2>2, CommitIs DEF Decided
<1> QED BY <1>2, <1>3 DEF OneReversal, RowsInv

\* The row of that entry's key is of its wallet, amount and direction.
Tells(w, e) ==
  /\ rows[e.key] # NoTx /\ Moves(rows[e.key])
  /\ rows[e.key].request.wallet = w
  /\ rows[e.key].request.amount = e.amount
  /\ Direction(rows[e.key]) = e.direction

\* The entry of a commit is the one of its row, and the other rows keep theirs.
LEMMA CommitTells ==
  ASSUME RowsInv, NEW p \in Procs, Commits(p)
  PROVE  LedgerTellsRows'
<1>0. LedgerTellsRows /\ \A k \in Keys : rows[k] # NoTx => RowOK(rows[k]) /\ TxOK(rows[k])
  BY CommitIs DEF RowsInv, TypeInv, WellFormed, RowsOK
<1>1. ~Moves(rows[Key(p)])
  BY CommitIs DEF Moves, NoTx
<1>2. \A k \in Keys : k # Key(p) => rows'[k] = rows[k]
  BY CommitIs DEF Keeps
<1>3. \A k \in Keys : HasLedgerEntry(k) => HasLedgerEntry(k)'
  BY CommitIs, CommitEntry DEF HasLedgerEntry
<1>4. Moves(tx[p]) =>
        /\ HasLedgerEntry(Key(p))' /\ WalletOf(p) \in Wallets
        /\ entry[p].key = Key(p) /\ entry[p].amount = tx[p].request.amount
        /\ entry[p].direction = Direction(tx[p]) /\ Direction(tx[p])' = Direction(tx[p])
  <2> SUFFICES ASSUME Moves(tx[p])
               PROVE  /\ HasLedgerEntry(Key(p))' /\ WalletOf(p) \in Wallets
                      /\ entry[p].key = Key(p) /\ entry[p].amount = tx[p].request.amount
                      /\ entry[p].direction = Direction(tx[p])
                      /\ Direction(tx[p])' = Direction(tx[p])
    OBVIOUS
  <2>1. /\ WalletOf(p) \in Wallets /\ entry[p].key = Key(p)
    BY CommitIs DEF Mine, Inside
  <2>2. /\ Justified(tx[p]) /\ entry[p].amount = tx[p].request.amount
        /\ entry[p].direction = Direction(tx[p])
    BY CommitIs DEF Decided, Moves
  <2>3. Direction(tx[p])' = Direction(tx[p])
    BY <2>2, CommitIs, JustifiedStays
  <2>4. \E i \in DOMAIN ledger'[WalletOf(p)] : ledger'[WalletOf(p)][i].key = Key(p)
    BY <2>1, CommitIs, CommitEntry
  <2>5. Key(p)' = Key(p)
    BY CommitIs DEF Key
  <2> QED BY <2>1, <2>2, <2>3, <2>4, <2>5 DEF HasLedgerEntry
<1>5. ASSUME NEW k \in Keys, rows'[k] # NoTx, Moves(rows[k])'
      PROVE  HasLedgerEntry(k)'
  <2>1. CASE k = Key(p)
    <3>1. rows'[k] = tx[p] /\ Key(p)' = Key(p)
      BY <2>1, CommitIs DEF Key
    <3>2. Moves(tx[p])
      BY <1>5, <3>1 DEF Moves
    <3> QED BY <1>4, <2>1, <3>1, <3>2
  <2>2. CASE k # Key(p)
    <3>1. rows'[k] = rows[k] /\ Moves(rows[k])
      BY <1>2, <1>5, <2>2 DEF Moves
    <3> QED BY <1>0, <1>3, <1>5, <3>1 DEF LedgerTellsRows
  <2> QED BY <2>1, <2>2
<1>6. \A w \in Wallets : \A e \in LedgerEntry :
        e.key # NoKey /\ Tells(w, e) => Tells(w, e)'
  <2> SUFFICES ASSUME NEW w \in Wallets, NEW e \in LedgerEntry, e.key # NoKey, Tells(w, e)
               PROVE  Tells(w, e)'
    OBVIOUS
  <2>1. e.key \in Keys /\ rows[e.key] # NoTx /\ Moves(rows[e.key])
    BY DEF LedgerEntry, Tells
  <2>2. rows'[e.key] = rows[e.key]
    BY <1>1, <1>2, <2>1
  <2>3. Justified(rows[e.key]) /\ TxOK(rows[e.key])
    BY <1>0, <2>1 DEF RowOK, Moves
  <2>4. Direction(rows[e.key])' = Direction(rows[e.key])
    BY <2>2, <2>3, CommitIs, JustifiedStays
  <2> QED BY <2>2, <2>4 DEF Tells, Moves
<1>7. \A w, e : Moves(tx[p]) /\ w = WalletOf(p) /\ e = entry[p] => Tells(w, e)'
  <2> SUFFICES ASSUME NEW w, NEW e, Moves(tx[p]), w = WalletOf(p), e = entry[p]
               PROVE  Tells(w, e)'
    OBVIOUS
  <2>1. e.key = Key(p) /\ rows'[e.key] = tx[p] /\ tx[p] # NoTx /\ tx'[p] = tx[p]
    BY <1>4, CommitIs
  <2>2. Direction(rows[e.key])' = e.direction
    BY <1>4, <2>1
  <2> QED BY <1>4, <2>1, <2>2 DEF Tells, Moves, WalletOf
<1>8. \A w \in Wallets : \A i \in DOMAIN ledger'[w] :
        ledger'[w][i].key # NoKey => Tells(w, ledger[w][i])'
  <2> SUFFICES ASSUME NEW w \in Wallets, NEW i \in DOMAIN ledger'[w],
                      ledger'[w][i].key # NoKey
               PROVE  Tells(w, ledger[w][i])'
    OBVIOUS
  <2>1. CASE i \in DOMAIN ledger[w] /\ ledger'[w][i] = ledger[w][i]
    <3>1. ledger[w][i] \in LedgerEntry
      BY <2>1, CommitIs DEF TypeInv, TypeOK
    <3>2. Tells(w, ledger[w][i])
      BY <1>0, <2>1 DEF LedgerTellsRows, Tells
    <3> QED BY <1>6, <2>1, <3>1, <3>2
  <2>2. CASE Moves(tx[p]) /\ w = WalletOf(p) /\ ledger'[w][i] = entry[p]
    BY <1>7, <2>2
  <2> QED BY <2>1, <2>2, CommitIs, CommitEntry
<1> QED BY <1>5, <1>8 DEF LedgerTellsRows, Tells

\* At first there are no rows, no movements and no batches.
LEMMA RowsInit == OneResolver /\ Init => RowsInv
<1> SUFFICES ASSUME OneResolver, Init PROVE RowsInv
  OBVIOUS
<1>1. KeysInv
  BY KeysInit
<1>2. /\ \A k \in Keys : rows[k] = NoTx
      /\ \A p \in Procs : pc[p] = "idle" /\ due[p] = {}
  BY DEF Init
<1>3. \A p \in Procs : Stage(p) /\ Batch(p)
  BY <1>2 DEF Stage, Aside, Batch, Resolving, Busy
<1>4. \A w \in Wallets : \A i \in DOMAIN ledger[w] : ledger[w][i].key = NoKey
  <2> TAKE w \in Wallets
  <2>1. \/ ledger[w] = <<>>
        \/ ledger[w] = <<[key |-> NoKey, direction |-> "CREDIT",
                          amount |-> Opening[w], before |-> 0,
                          after |-> Opening[w]]>>
    BY DEF Init
  <2> QED BY <2>1
<1>5. OneReversal /\ LedgerTellsRows
  BY <1>2, <1>4 DEF OneReversal, FindReversal, LedgerTellsRows
<1> QED BY <1>1, <1>2, <1>3, <1>5 DEF RowsInv, Procs

\* Each step keeps the rows, what the processes rest on and the ledger in
\* agreement.
LEMMA RowsNext == ASSUME RowsInv, [Next]_vars PROVE RowsInv'
<1>0. KeysInv' /\ TypeInv
  BY KeysNext DEF RowsInv, KeysInv, LedgerInv
<1>1. ASSUME book' = book
      PROVE  /\ \A k \in Keys : rows'[k] # NoTx => RowOK(rows[k])'
             /\ OneReversal' /\ LedgerTellsRows'
  BY <1>1 DEF RowsInv, book, RowOK, Justified, OneReversal, FindReversal,
              LedgerTellsRows, HasLedgerEntry, Direction
<1>2. ASSUME NEW p \in Procs, Acts(p) PROVE RowsInv'
  <2>1. /\ Alone(p) /\ (book' = book \/ Commits(p))
        /\ \A q \in Procs : q # p => entry'[q] = entry[q]
    BY <1>0, <1>2, ActsAlone, ActsBook
  <2>2. rows' = rows \/ Commits(p)
    BY <2>1 DEF book
  <2>3. \A q \in Procs : Stage(q)'
    BY <1>0, <1>2, <2>1, StageFrame, ActsStage DEF KeysInv
  <2>4. \A r \in Resolvers : Batch(r)'
    BY <1>0, <1>2, <2>1, <2>2, BatchFrame, ActsStage DEF KeysInv, Procs
  <2>5. /\ \A k \in Keys : rows'[k] # NoTx => RowOK(rows[k])'
        /\ OneReversal' /\ LedgerTellsRows'
    BY <1>1, <2>1, CommitRowOK, CommitReversal, CommitTells
  <2> QED BY <1>0, <2>3, <2>4, <2>5 DEF RowsInv, OneResolver
<1>3. ASSUME UNCHANGED <<book, pc, tx, due, entry>> PROVE RowsInv'
  <2>1. \A q \in Procs : Stage(q)'
    BY <1>3 DEF RowsInv, Stage, Decided, Noted, Justified, Direction, FindReversal,
                book, WalletOf, Key, Resolving, Busy
  <2>2. \A r \in Resolvers : Batch(r)'
    BY <1>3 DEF RowsInv, Batch, book, Key, Resolving, Busy
  <2> QED BY <1>0, <1>1, <1>3, <2>1, <2>2 DEF RowsInv, OneResolver
<1>4. CASE UNCHANGED vars
  BY <1>3, <1>4 DEF vars, memory
<1>5. ASSUME NEW k \in Keys, RetryDue(k) \/ Expire(k) PROVE RowsInv'
  BY <1>3, <1>5 DEF RetryDue, Expire, memory
<1> QED BY <1>2, <1>4, <1>5 DEF Next, Acts

\* With one resolver, wager rows and wallet ledgers tell the same story.
THEOREM LedgerTellsRowsHolds == OneResolver /\ Spec => []LedgerTellsRows
<1>1. RowsInv => LedgerTellsRows
  BY DEF RowsInv
<1> QED BY <1>1, RowsInit, RowsNext, PTL DEF Spec

\* With one resolver, no transaction is reversed twice, by whatever race of
\* REFUND and ROLLBACK.
THEOREM OneReversalHolds == OneResolver /\ Spec => []OneReversalPerReference
<1>1. RowsInv => OneReversalPerReference
  <2> SUFFICES ASSUME RowsInv PROVE OneReversalPerReference
    OBVIOUS
  <2>1. \A w \in Wallets : \A i \in DOMAIN ledger[w] :
          LET k == ledger[w][i].key IN
          k # NoKey /\ IsReversal(rows[k].request.kind) =>
            k \in Keys /\ k \in FindReversal(rows[k].request.reference)
    <3> SUFFICES ASSUME NEW w \in Wallets, NEW i \in DOMAIN ledger[w],
                        NEW k, k = ledger[w][i].key, k # NoKey,
                        IsReversal(rows[k].request.kind)
                 PROVE  k \in Keys /\ k \in FindReversal(rows[k].request.reference)
      OBVIOUS
    <3>0. ledger[w] \in Seq(LedgerEntry)
      BY DEF RowsInv, KeysInv, LedgerInv, TypeInv, TypeOK
    <3>1. k \in Keys
      <4>1. ledger[w][i] \in LedgerEntry
        BY <3>0
      <4> QED BY <4>1 DEF LedgerEntry
    <3>2. rows[k] # NoTx /\ Moves(rows[k])
      BY DEF RowsInv, LedgerTellsRows
    <3>3. rows[k].ref = rows[k].request.reference
      BY <3>1, <3>2 DEF RowsInv, RowOK, Moves, Justified
    <3> QED BY <3>1, <3>2, <3>3 DEF FindReversal, Moves
  <2>2. \A k \in Keys : rows[k] # NoTx /\ IsReversal(rows[k].request.kind) =>
          rows[k].request.reference \in Keys
    BY DecisionTypes DEF RowsInv, KeysInv, LedgerInv, TypeInv, WellFormed, RowsOK
  <2>3. OneReversal
    BY DEF RowsInv
  <2> QED BY <2>1, <2>2, <2>3 DEF OneReversalPerReference, OneReversal, FindReversal
<1> QED BY <1>1, RowsInit, RowsNext, PTL DEF Spec

\* With one resolver, no step rewrites a row that has a terminal status.
THEOREM TerminalHolds == OneResolver /\ Spec => TerminalIsFinal
<1>1. RowsInv /\ [Next]_vars =>
        [\A k \in Keys :
           rows[k] # NoTx /\ IsTerminal(rows[k].status) => rows'[k] = rows[k]]_vars
  <2> SUFFICES ASSUME RowsInv, [Next]_vars, NEW k \in Keys, rows[k] # NoTx,
                      IsTerminal(rows[k].status)
               PROVE  rows'[k] = rows[k]
    OBVIOUS
  <2>1. CASE \E p \in Procs : Acts(p)
    <3>1. PICK p \in Procs : Acts(p)
      BY <2>1
    <3>2. Keeps(p)
      BY <3>1, ActsAlone, StepKeeps DEF RowsInv, KeysInv, LedgerInv
    <3> QED BY <3>2 DEF Keeps, IsTerminal
  <2>2. CASE UNCHANGED vars \/ \E j \in Keys : RetryDue(j) \/ Expire(j)
    BY <2>2 DEF vars, book, RetryDue, Expire
  <2> QED BY <2>1, <2>2 DEF Next, Acts
<1> QED BY <1>1, RowsInit, RowsNext, PTL DEF Spec, TerminalIsFinal

-----------------------------------------------------------------------------
\* Answers, for one resolver.

\* A terminal status that p was told, or is about to be told, is its row's.
Telling(p) ==
  /\ pc[p] \in {"replay", "current", "balance"} /\ IsTerminal(tx[p].status) =>
       rows[Key(p)].status = tx[p].status
  /\ answer[p].outcome \in {"fresh", "replay"} /\ IsTerminal(answer[p].status) =>
       rows[Key(p)].status = answer[p].status

AnswersInv ==
  /\ RowsInv /\ EntriesInv
  /\ \A p \in Submitters : Telling(p)
  /\ OutboxTellsHistory

\* What another was told, or is about to be told, stays true.
LEMMA AnswerFrame ==
  ASSUME RowsInv, NEW p \in Procs, Alone(p), rows' = rows \/ Commits(p),
         NEW q \in Submitters, q # p, Replaying(q), Told(q), Telling(q)
  PROVE  Telling(q)'
<1>1. /\ pc'[q] = pc[q] /\ tx'[q] = tx[q] /\ answer'[q] = answer[q]
      /\ Key(q)' = Key(q) /\ Keeps(p)
  BY StepKeeps DEF Alone, Key, Procs
<1>2. \A k \in Keys : rows[k] # NoTx /\ IsTerminal(rows[k].status) => rows'[k] = rows[k]
  BY <1>1 DEF Keeps, IsTerminal
<1>3. Stored(tx[q].request) => Key(q) \in Keys /\ rows[Key(q)] # NoTx
  BY DEF Stored, Key
<1> QED BY <1>1, <1>2, <1>3 DEF Telling, Replaying, Told

\* A step that ends with an error, or neither ends nor turns to an answer.
LEMMA Unanswered ==
  ASSUME NEW p \in Submitters,
         pc'[p] \notin {"replay", "current", "balance"},
         \/ answer'[p] = answer[p] /\ answer[p].outcome = "none"
         \/ answer'[p].outcome \notin {"fresh", "replay"}
  PROVE  Telling(p)'
BY DEF Telling

\* The steps that answer: reading the row, the entry or the balance, and the
\* commit of a movement.
LEMMA AnswerStep ==
  ASSUME RowsInv, NEW p \in Submitters, Telling(p), Acts(p)
  PROVE  Telling(p)'
<1>0. /\ TypeInv /\ p \in Procs /\ KeyInv(p)
      /\ pc[p] # "done" => answer[p].outcome = "none"
  BY SubmitAssumption DEF RowsInv, KeysInv, LedgerInv, Procs, KeyInv
<1>1. ASSUME NEW o, Return(p, o), o \notin {"fresh", "replay"} PROVE Telling(p)'
  <2>1. pc'[p] = "done" /\ answer'[p].outcome = o
    BY <1>0, <1>1 DEF Return, Goto, Reply, TypeInv, TypeOK
  <2> QED BY <1>1, <2>1, Unanswered
<1>2. CASE \E req \in Requests : Submit(p, req)
  <2>1. \/ pc'[p] = "lookup" /\ answer' = answer /\ pc[p] = "idle"
        \/ pc'[p] = "done" /\ answer'[p].outcome = "validation"
    BY <1>0, <1>2 DEF Submit, Goto, Reply, TypeInv, TypeOK
  <2> QED BY <1>0, <2>1, Unanswered
<1>3. CASE LookUp(p)
  <2>1. rows' = rows /\ Busy(p) /\ Key(p) \in Keys /\ pc[p] # "done"
    BY <1>0, <1>3, BusyKey DEF LookUp, Busy, book
  <2>2. \/ pc'[p] = "process" /\ answer' = answer
        \/ pc'[p] = "done" /\ answer'[p].outcome = "ErrIdempotencyConflict"
        \/ /\ rows[Key(p)] # NoTx /\ tx'[p] = rows[Key(p)]
           /\ pc'[p] = "replay" /\ answer' = answer
    BY <1>0, <1>3 DEF LookUp, Goto, Reply, TypeInv, TypeOK
  <2>3. rows[Key(p)] # NoTx => rows[Key(p)].request.key = Key(p)
    BY <1>0, <2>1 DEF TypeInv, WellFormed, RowsOK
  <2> QED BY <1>0, <2>1, <2>2, <2>3, Unanswered DEF Telling, Key
<1>4. CASE Replay(p) \/ ReadBalance(p)
  <2>1. /\ rows' = rows /\ tx' = tx /\ Key(p)' = Key(p)
        /\ answer[p].outcome = "none"
        /\ IsTerminal(tx[p].status) => rows[Key(p)].status = tx[p].status
    BY <1>0, <1>4 DEF Replay, ReadBalance, book, Key, Telling
  <2>2. \/ answer' = answer
        \/ pc'[p] = "done" /\ answer'[p].status = tx[p].status
    BY <1>0, <1>4 DEF Replay, ReadBalance, Succeed, Goto, Reply, TypeInv, TypeOK
  <2> QED BY <2>1, <2>2 DEF Telling
<1>5. CASE Commits(p) /\ (CommitMovement(p) \/ CommitEvent(p) \/ LoseCommitReply(p))
  <2>1. /\ rows'[Key(p)] = tx[p] /\ tx' = tx /\ Key(p)' = Key(p)
        /\ answer[p].outcome = "none"
    BY <1>0, <1>5, CommitIs DEF Key, Commits
  <2>2. \/ answer' = answer
        \/ pc'[p] = "done" /\ answer'[p].outcome \notin {"fresh", "replay"}
        \/ pc'[p] = "done" /\ answer'[p].status = tx[p].status
    BY <1>0, <1>5
    DEF CommitMovement, CommitEvent, LoseCommitReply, Return, Succeed, Goto, Reply,
        TypeInv, TypeOK
  <2> QED BY <2>1, <2>2 DEF Telling
<1>6. CASE /\ pc[p] # "done" /\ answer' = answer
           /\ \E l : Goto(p, l) /\ l \notin {"replay", "current", "balance"}
  <2>1. pc'[p] \notin {"replay", "current", "balance"}
    BY <1>0, <1>6 DEF Goto, TypeInv, TypeOK
  <2> QED BY <1>0, <1>6, <2>1, Unanswered
<1>7. CASE ProcessReversal(p) \/ ProcessMovement(p) \/ FindDue(p) \/ ResolveOne(p) \/ Reschedule(p)
  BY <1>6, <1>7 DEF ProcessReversal, ProcessMovement, FindDue, ResolveOne, Reschedule
<1>8. CASE ProcessLoss(p) \/ LockWallet(p) \/ ShareWallet(p) \/ Decide(p)
  BY <1>1, <1>6, <1>8 DEF ProcessLoss, LockWallet, ShareWallet, Decide
<1>9. CASE SaveMovement(p) \/ SaveEvent(p)
  BY <1>6, <1>9 DEF SaveMovement, SaveEvent, SaveWager
<1>10. CASE CommitMovement(p) \/ CommitEvent(p) \/ LoseCommitReply(p)
  <2>1. Return(p, "duplicate_ledger_entry") \/ Commits(p)
    BY <1>10 DEF CommitMovement, CommitEvent, LoseCommitReply, Commits
  <2> QED BY <1>1, <1>5, <1>10, <2>1
<1>11. CASE DeadlockVictim(p) \/ Fail(p)
  BY <1>1, <1>11 DEF DeadlockVictim, Fail
<1> QED BY <1>2, <1>3, <1>4, <1>7, <1>8, <1>9, <1>10, <1>11 DEF Acts, Step

\* A commit adds to the key's history what its row has become.
LEMMA CommitOutbox ==
  ASSUME RowsInv, OutboxTellsHistory, NEW p \in Procs, Commits(p)
  PROVE  OutboxTellsHistory'
<1> DEFINE parked == <<"WagerTransactionPendingReference">>
           end(t) == IF t.status = "REJECTED" THEN <<"WagerTransactionRejected">>
                     ELSE IF Moves(t)
                       THEN <<"WagerTransactionProcessed", "WalletBalanceChanged">>
                     ELSE <<"WagerTransactionProcessed">>
           t == tx[p]
<1>1. /\ Key(p) \in Keys /\ rows'[Key(p)] = t /\ t # NoTx
      /\ outbox'[Key(p)] = outbox[Key(p)] \o EventsOf(t)
      /\ \A k \in Keys : k # Key(p) => rows'[k] = rows[k] /\ outbox'[k] = outbox[k]
  BY CommitIs DEF Commits, Persist, Keeps, TypeInv, TypeOK
<1>2. t.status \in {"PENDING_REFERENCE", "PROCESSED", "REJECTED"}
  BY CommitIs DEF Decided, Noted
<1>3. EventsOf(t) = IF t.status = "PENDING_REFERENCE" THEN parked ELSE end(t)
  BY <1>2 DEF EventsOf, Moves
<1>4. CASE rows[Key(p)] = NoTx
  <2>1. outbox[Key(p)] = <<>>
    BY <1>1, <1>4 DEF OutboxTellsHistory
  <2>2. outbox'[Key(p)] = EventsOf(t)
    BY <1>1, <2>1, EventsType
  <2> QED BY <1>1, <1>2, <1>3, <2>2 DEF OutboxTellsHistory, Moves
<1>5. CASE rows[Key(p)] # NoTx /\ rows[Key(p)].status = "PENDING_REFERENCE"
  <2>1. outbox[Key(p)] = parked
    BY <1>1, <1>5 DEF OutboxTellsHistory
  <2>2. p \in Resolvers
    BY <1>5, CommitRow DEF RowsInv, KeysInv, LedgerInv, Procs
  <2>3. t.status # "PENDING_REFERENCE"
    BY <2>2, CommitIs, SubmitAssumption DEF Decided, Noted
  <2>4. outbox'[Key(p)] = parked \o end(t)
    BY <1>1, <1>3, <2>1, <2>3
  <2> QED BY <1>1, <1>2, <2>3, <2>4 DEF OutboxTellsHistory, Moves
<1> QED BY <1>4, <1>5, CommitIs

\* At first nobody has been told anything.
LEMMA AnswersInit == OneResolver /\ Init => AnswersInv
<1> SUFFICES ASSUME OneResolver, Init PROVE AnswersInv
  OBVIOUS
<1>1. \A p \in Submitters : Telling(p)
  BY DEF Init, Telling, Procs
<1>2. OutboxTellsHistory
  BY DEF Init, OutboxTellsHistory
<1> QED BY <1>1, <1>2, RowsInit, EntriesInit DEF AnswersInv

\* Each step keeps every answer and every history true.
LEMMA AnswersNext == ASSUME AnswersInv, [Next]_vars PROVE AnswersInv'
<1>0. RowsInv' /\ EntriesInv' /\ RowsInv /\ TypeInv
  BY RowsNext, EntriesNext DEF AnswersInv, RowsInv, KeysInv, LedgerInv
<1>1. ASSUME NEW p \in Procs, Acts(p) PROVE AnswersInv'
  <2>1. Alone(p) /\ (rows' = rows \/ Commits(p)) /\ (book' = book \/ Commits(p))
    BY <1>0, <1>1, ActsAlone, ActsBook
  <2>2. \A q \in Submitters : Telling(q)'
    BY <1>0, <1>1, <2>1, AnswerFrame, AnswerStep DEF AnswersInv, EntriesInv
  <2>3. OutboxTellsHistory'
    <3>1. CASE book' = book
      BY <3>1 DEF AnswersInv, OutboxTellsHistory, book
    <3> QED BY <1>0, <2>1, <3>1, CommitOutbox DEF AnswersInv
  <2> QED BY <1>0, <2>2, <2>3 DEF AnswersInv
<1>2. ASSUME UNCHANGED <<book, pc, tx, answer>> PROVE AnswersInv'
  <2>1. \A q \in Submitters : Telling(q)'
    BY <1>2 DEF AnswersInv, Telling, Key, book
  <2>2. OutboxTellsHistory'
    BY <1>2 DEF AnswersInv, OutboxTellsHistory, book
  <2> QED BY <1>0, <2>1, <2>2 DEF AnswersInv
<1>3. CASE UNCHANGED vars
  BY <1>2, <1>3 DEF vars
<1>4. ASSUME NEW k \in Keys, RetryDue(k) \/ Expire(k) PROVE AnswersInv'
  BY <1>2, <1>4 DEF RetryDue, Expire
<1> QED BY <1>1, <1>3, <1>4 DEF Next, Acts

\* With one resolver, what a caller was told of its submission, a replayed
\* balance included, is true for good.
THEOREM AnswersHoldAlways == OneResolver /\ Spec => []AnswersHold
<1>1. AnswersInv => AnswersHold
  BY DEF AnswersInv, EntriesInv, Told, Stored, Recorded, Telling, AnswersHold, Moves, Key,
         IsTerminal
<1> QED BY <1>1, AnswersInit, AnswersNext, PTL DEF Spec

\* With one resolver, the outbox tells the history of every transaction, once
\* and in order.
THEOREM OutboxHolds == OneResolver /\ Spec => []OutboxTellsHistory
<1>1. AnswersInv => OutboxTellsHistory
  BY DEF AnswersInv
<1> QED BY <1>1, AnswersInit, AnswersNext, PTL DEF Spec

-----------------------------------------------------------------------------
\* The book, for one resolver.

\* What the book knows of a key, its reversals and its balances.
LEMMA BookIs ==
  ASSUME RowsInv
  PROVE  /\ \A k \in Keys :
              /\ rows[k] = NoTx => BookDecided[k] = NoTx
              /\ rows[k] # NoTx =>
                   /\ BookDecided[k] # NoTx
                   /\ BookDecided[k].request = rows[k].request
                   /\ BookDecided[k].status = rows[k].status
                   /\ BookDecided[k].code = rows[k].code
         /\ \A k \in BookMoved :
              /\ k \in Keys /\ rows[k] # NoTx /\ rows[k].status = "PROCESSED"
              /\ IsReversal(rows[k].request.kind) =>
                   k \in FindReversal(rows[k].request.reference)
         /\ \A ref \in Keys : \A k \in FindReversal(ref) :
              k \in BookMoved /\ rows[k].request.reference = ref
<1>1. \A k \in Keys : rows[k] # NoTx =>
        RowOK(rows[k]) /\ TxOK(rows[k]) /\ rows[k].status # "ABSENT"
  BY DEF RowsInv, KeysInv, LedgerInv, TypeInv, WellFormed, RowsOK, RowOK
<1>2. \A k \in Keys : rows[k] # NoTx =>
        /\ BookDecided[k] = [request |-> rows[k].request, status |-> rows[k].status,
                             code |-> rows[k].code]
        /\ BookDecided[k].status # "ABSENT"
  BY <1>1 DEF BookDecided
<1>3. \A k \in Keys : rows[k] # NoTx => BookDecided[k] # NoTx
  <2>1. NoTx.status = "ABSENT"
    BY DEF NoTx
  <2> QED BY <1>2, <2>1
<1>4. ASSUME NEW k \in BookMoved
      PROVE  /\ k \in Keys /\ rows[k] # NoTx /\ rows[k].status = "PROCESSED"
             /\ IsReversal(rows[k].request.kind) =>
                  k \in FindReversal(rows[k].request.reference)
  <2>1. k \in Keys /\ k # NoKey /\ HasLedgerEntry(k)
    BY <1>4, DomainAssumption DEF BookMoved
  <2>2. rows[k] # NoTx /\ Moves(rows[k])
    BY <2>1 DEF HasLedgerEntry, RowsInv, LedgerTellsRows
  <2>3. IsReversal(rows[k].request.kind) => rows[k].ref = rows[k].request.reference
    BY <1>1, <2>1, <2>2 DEF RowOK, Justified, Moves
  <2> QED BY <2>1, <2>2, <2>3 DEF FindReversal, Moves
<1>5. ASSUME NEW ref \in Keys, NEW k \in FindReversal(ref)
      PROVE  k \in BookMoved /\ rows[k].request.reference = ref
  <2>1. /\ k \in Keys /\ rows[k] # NoTx /\ Moves(rows[k]) /\ rows[k].ref = ref
        /\ IsReversal(rows[k].request.kind) /\ rows[k].status = "PROCESSED"
    BY <1>5 DEF FindReversal, Moves, IsReversal
  <2>2. HasLedgerEntry(k)
    BY <2>1 DEF RowsInv, LedgerTellsRows
  <2>3. rows[k].request.reference = ref
    BY <1>1, <2>1 DEF RowOK, Justified
  <2> QED BY <2>1, <2>2, <2>3 DEF BookMoved
<1>6. \A k \in Keys : rows[k] = NoTx => BookDecided[k] = NoTx
  BY DEF BookDecided
<1>7. \A k \in Keys : rows[k] # NoTx =>
        /\ BookDecided[k].request = rows[k].request
        /\ BookDecided[k].status = rows[k].status
        /\ BookDecided[k].code = rows[k].code
  <2> TAKE k \in Keys
  <2> HAVE rows[k] # NoTx
  <2>1. BookDecided[k] = [request |-> rows[k].request, status |-> rows[k].status,
                          code |-> rows[k].code]
    BY <1>2
  <2> QED BY <2>1
<1> QED BY <1>3, <1>4, <1>5, <1>6, <1>7, Zenon

\* The book decides with the same rules.
LEMMA BookRules ==
  /\ \A kind : Book!IsReversal(kind) = IsReversal(kind)
  /\ \A kind, ref : Book!MovementDirection(kind, ref) = MovementDirection(kind, ref)
  /\ \A req, found : Book!ValidateReference(req, found) = ValidateReference(req, found)
  /\ \A req : Book!ValidRequest(req) = ValidRequest(req)
  /\ \A b, d, a : Book!BalanceAfter(b, d, a) = BalanceAfter(b, d, a)
  /\ \A kind : Book!InsufficientCode(kind) = InsufficientCode(kind)
<1>1. \A kind : Book!IsReversal(kind) = IsReversal(kind)
  BY DEF Book!IsReversal, IsReversal
<1>4. \A kind, ref : Book!MovementDirection(kind, ref) = MovementDirection(kind, ref)
  BY DEF Book!MovementDirection, MovementDirection
<1>5. \A b, d, a : Book!BalanceAfter(b, d, a) = BalanceAfter(b, d, a)
  BY DEF Book!BalanceAfter, BalanceAfter
<1>6. \A kind : Book!InsufficientCode(kind) = InsufficientCode(kind)
  BY DEF Book!InsufficientCode, InsufficientCode
<1>2. \A req, found : Book!ValidateReference(req, found) = ValidateReference(req, found)
  BY DEF Book!ValidateReference, ValidateReference, Book!ReferenceableKind, ReferenceableKind
<1>3. \A req : Book!ValidRequest(req) = ValidRequest(req)
  BY <1>1 DEF Book!ValidRequest, ValidRequest
<1> QED BY <1>1, <1>2, <1>3, <1>4, <1>5, <1>6

\* A transaction with a justified reference has it in the book too, with the
\* same direction.
LEMMA BookReference ==
  ASSUME RowsInv, NEW t, TxOK(t), Justified(t)
  PROVE  Book!Referable(t.request) /\ Book!DirectionOf(t.request) = Direction(t)
<1>1. CASE IsReversal(t.request.kind)
  <2>1. /\ t.ref = t.request.reference /\ t.ref \in Keys /\ t.ref # NoKey
        /\ rows[t.ref] # NoTx /\ ValidateReference(t.request, rows[t.ref])
    BY <1>1, DecisionTypes, DomainAssumption DEF Justified
  <2>2. /\ BookDecided[t.ref] # NoTx
        /\ BookDecided[t.ref].request = rows[t.ref].request
        /\ BookDecided[t.ref].status = rows[t.ref].status
    BY <2>1, BookIs
  <2>3. ValidateReference(t.request, BookDecided[t.ref])
    BY <2>1, <2>2 DEF ValidateReference
  <2>4. Book!Referenced(t.request) = BookDecided[t.ref]
    BY <2>1 DEF Book!Referenced
  <2>5. Book!Referable(t.request)
    BY <2>2, <2>3, <2>4, BookRules DEF Book!Referable
  <2>6. Book!DirectionOf(t.request) = Direction(t)
    BY <1>1, <2>1, <2>2, <2>4, BookRules DEF Book!DirectionOf, Direction
  <2> QED BY <2>5, <2>6
<1>2. CASE ~IsReversal(t.request.kind)
  <2>1. Book!Referable(t.request)
    BY <1>2, BookRules DEF Book!Referable
  <2>2. Book!DirectionOf(t.request) = Direction(t)
    BY <1>2, BookRules DEF Justified, Book!DirectionOf, Direction
  <2> QED BY <2>1, <2>2
<1> QED BY <1>1, <1>2

\* A commit records the decision in the book, under a key that is open.
LEMMA BookRecord ==
  ASSUME RowsInv, NEW p \in Procs, Commits(p)
  PROVE  LET t == tx[p] IN
         /\ Book!Open(t.request) /\ Book!Record(t.request, t.status, t.code)
         /\ p \in Submitters => BookDecided[t.request.key] = NoTx
         /\ p \in Resolvers => BookDecided[t.request.key] # NoTx
<1> DEFINE t == tx[p]
           k == Key(p)
<1>1. /\ k \in Keys /\ t.request.key = k /\ rows'[k] = t /\ t # NoTx /\ tx' = tx
      /\ \A j \in Keys : j # k => rows'[j] = rows[j]
  BY CommitIs DEF Keeps
<1>2. /\ p \in Submitters => rows[k] = NoTx
      /\ p \in Resolvers => /\ rows[k] # NoTx /\ rows[k].request = t.request
                            /\ rows[k].status = "PENDING_REFERENCE"
  <2>1. TypeInv /\ KeyInv(p)
    BY DEF RowsInv, KeysInv, LedgerInv
  <2> QED BY <1>1, <2>1, CommitRow, CommitIs DEF Stored
<1>3. Book!Open(t.request)
  <2>1. CASE rows[k] = NoTx
    BY <1>1, <2>1, BookIs DEF Book!Open
  <2>2. CASE rows[k] # NoTx
    BY <1>1, <1>2, <2>2, BookIs DEF Book!Open, Procs
  <2> QED BY <2>1, <2>2
<1>4. Book!Record(t.request, t.status, t.code)
  <2> DEFINE new == [request |-> t.request, status |-> t.status, code |-> t.code]
  <2>1. BookDecided' = [BookDecided EXCEPT ![k] = new]
    BY <1>1 DEF BookDecided
  <2> QED BY <1>1, <2>1 DEF Book!Record
<1> QED BY <1>1, <1>2, <1>3, <1>4, BookIs

\* A commit that moves no money leaves the book's balances and movements.
LEMMA BookStill ==
  ASSUME RowsInv, NEW p \in Procs, Commits(p), ~Moves(tx[p])
  PROVE  BookBalance' = BookBalance /\ BookMoved' = BookMoved
BY DEF Commits, Persist, BookBalance, BookMoved, HasLedgerEntry

\* A commit that moves money moves it in the book: by the amount and in the
\* direction of the decision, from the balance before, under its key.
LEMMA BookMovement ==
  ASSUME RowsInv, NEW p \in Procs, Commits(p), Moves(tx[p])
  PROVE  LET t == tx[p]
             w == WalletOf(p)
         IN /\ w \in Wallets
            /\ BookBalance' = [BookBalance EXCEPT ![w] =
                                 BalanceAfter(@, Direction(t), t.request.amount)]
            /\ BookBalance'[w] \in 0..MaxMoney
            /\ BookMoved' = BookMoved \cup {Key(p)}
<1> DEFINE t == tx[p]
           w == WalletOf(p)
           b == wallets[w].balance
<1>0. /\ TypeInv /\ w \in Wallets /\ Key(p) \in Keys /\ tx' = tx
      /\ entry[p].key = Key(p) /\ entry[p].before = b /\ entry[p].after = loaded[p].balance
      /\ entry[p].after = BalanceAfter(entry[p].before, entry[p].direction, entry[p].amount)
      /\ entry[p].direction = Direction(t) /\ entry[p].amount = t.request.amount
  BY CommitIs DEF Mine, Inside, Decided, Moves
<1>1. wallets' = [wallets EXCEPT ![w] = loaded[p]]
  BY DEF Commits, Persist
<1>2. loaded[p].balance = BalanceAfter(b, Direction(t), t.request.amount)
  BY <1>0
<1>3. loaded[p].balance \in 0..MaxMoney
  BY <1>0 DEF TypeInv, TypeOK, Wallet
<1> HIDE DEF w, b
<1>4. /\ wallets'[w] = loaded[p]
      /\ \A v \in Wallets : v # w => wallets'[v] = wallets[v]
  BY <1>0, <1>1 DEF TypeInv, TypeOK
<1>5. BookBalance' = [BookBalance EXCEPT ![w] = loaded[p].balance]
  BY <1>0, <1>4 DEF BookBalance
<1>6. BookBalance[w] = b
  BY <1>0 DEF BookBalance, b
<1>7. BookBalance'[w] = loaded[p].balance
  BY <1>0, <1>4 DEF BookBalance
<1>8. BookMoved' = BookMoved \cup {Key(p)}
  <2>1. \A k \in Keys : HasLedgerEntry(k)' <=> HasLedgerEntry(k) \/ k = Key(p)
    <3>1. HasLedgerEntry(Key(p))'
      <4>1. \E i \in DOMAIN ledger'[w] : ledger'[w][i].key = Key(p)
        BY <1>0, CommitIs, CommitEntry DEF w
      <4>2. Key(p)' = Key(p)
        BY <1>0 DEF Key
      <4> QED BY <1>0, <4>1, <4>2 DEF HasLedgerEntry
    <3>2. \A k \in Keys : HasLedgerEntry(k) => HasLedgerEntry(k)'
      BY CommitIs, CommitEntry DEF HasLedgerEntry
    <3>3. \A k \in Keys : HasLedgerEntry(k)' => HasLedgerEntry(k) \/ k = Key(p)
      BY <1>0, CommitIs, CommitEntry DEF HasLedgerEntry
    <3>4. \A k \in Keys : k = Key(p) => HasLedgerEntry(k)'
      BY <1>0, <3>1 DEF HasLedgerEntry, Key
    <3> QED BY <3>2, <3>3, <3>4
  <2> QED BY <1>0, <2>1 DEF BookMoved
<1> QED BY <1>0, <1>2, <1>3, <1>5, <1>6, <1>7, <1>8 DEF w

\* Each commit is one step of the book.
LEMMA BookStep ==
  ASSUME RowsInv, NEW p \in Procs, Commits(p)
  PROVE  Book!Next
<1> DEFINE req == tx[p].request
           ref == req.reference
<1>0. /\ TxOK(tx[p]) /\ req \in Requests /\ Book!ValidRequest(req)
      /\ IsReversal(req.kind) => ref \in Keys
  BY CommitIs, DecisionTypes, BookRules DEF TxOK, Transaction
<1>1. /\ Book!Open(req) /\ Book!Record(req, tx[p].status, tx[p].code)
      /\ p \in Submitters => BookDecided[req.key] = NoTx
      /\ p \in Resolvers => BookDecided[req.key] # NoTx
  BY BookRecord
<1>2. ~Moves(tx[p]) => UNCHANGED <<BookBalance, BookMoved>>
  BY BookStill
<1>3. req.wallet \in Wallets /\ req.wallet = WalletOf(p)
  BY CommitIs DEF Commits, TypeInv, WellFormed, Busy, Checked, WalletOf
<1>4. CASE Moves(tx[p])
  <2>1. /\ tx[p].status = "PROCESSED" /\ tx[p].code = "none" /\ Justified(tx[p])
        /\ IsReversal(req.kind) => FindReversal(tx[p].ref) = {}
        /\ WalletCurrency[req.wallet] = req.currency /\ req.kind # "LOSS"
    BY <1>3, <1>4, CommitIs DEF Decided, Moves
  <2>2. /\ BookBalance' = [BookBalance EXCEPT ![req.wallet] =
                             BalanceAfter(@, Direction(tx[p]), req.amount)]
        /\ BookBalance'[req.wallet] \in 0..MaxMoney
        /\ BookMoved' = BookMoved \cup {req.key}
    BY <1>3, <1>4, BookMovement DEF Key
  <2>3. Book!Referable(req) /\ Book!DirectionOf(req) = Direction(tx[p])
    BY <1>0, <2>1, BookReference
  <2>4. IsReversal(req.kind) => ~Book!Reversed(ref)
    <3> SUFFICES ASSUME IsReversal(req.kind), NEW k \in BookMoved,
                        IsReversal(BookDecided[k].request.kind),
                        BookDecided[k].request.reference = ref
                 PROVE  FALSE
      BY BookRules DEF Book!Reversed
    <3>1. BookDecided[k].request = rows[k].request
      BY BookIs
    <3>2. k \in FindReversal(ref)
      BY <3>1, BookIs
    <3> QED BY <2>1, <3>2 DEF Justified
  <2>5. Book!Settle(req)
    BY <1>1, <1>3, <2>1, <2>2, <2>3, <2>4, BookRules DEF Book!Settle
  <2> QED BY <1>0, <2>5 DEF Book!Next
<1>5. CASE ~Moves(tx[p]) /\ Decided(p)
  <2>1. CASE /\ tx[p].status = "REJECTED" /\ tx[p].code = "DUPLICATE_REVERSAL"
             /\ IsReversal(req.kind) /\ FindReversal(ref) # {}
    <3>1. PICK k \in Keys : k \in FindReversal(ref)
      BY <2>1 DEF FindReversal
    <3>2. k \in BookMoved /\ rows[k].request.reference = ref
      BY <1>0, <2>1, <3>1, BookIs
    <3>3. IsReversal(rows[k].request.kind) /\ BookDecided[k].request = rows[k].request
      BY <3>1, BookIs DEF FindReversal
    <3>4. Book!Reversed(ref)
      BY <3>2, <3>3, BookRules DEF Book!Reversed
    <3>5. Book!RejectDuplicate(req)
      BY <1>1, <1>2, <1>5, <2>1, <3>4, BookRules DEF Book!RejectDuplicate
    <3> QED BY <1>0, <3>5 DEF Book!Next
  <2>2. CASE /\ tx[p].status = "REJECTED" /\ tx[p].code = InsufficientCode(req.kind)
             /\ Justified(tx[p]) /\ Direction(tx[p]) = "DEBIT"
             /\ wallets[WalletOf(p)].balance < req.amount
    <3>1. BookBalance[req.wallet] < req.amount
      BY <1>3, <2>2 DEF BookBalance
    <3>2. Book!Referable(req) /\ Book!DirectionOf(req) = "DEBIT"
      BY <1>0, <2>2, BookReference
    <3>3. Book!RejectBalance(req)
      BY <1>1, <1>2, <1>3, <1>5, <2>2, <3>1, <3>2, BookRules DEF Book!RejectBalance
    <3> QED BY <1>0, <3>3 DEF Book!Next
  <2> QED BY <1>5, <2>1, <2>2 DEF Decided, Moves
<1>6. CASE ~Moves(tx[p]) /\ Noted(p)
  <2>1. CASE /\ tx[p].status = "PENDING_REFERENCE" /\ tx[p].code = "none"
             /\ p \in Submitters /\ IsReversal(req.kind)
    <3>1. Book!Park(req)
      BY <1>1, <1>2, <1>6, <2>1, BookRules DEF Book!Park
    <3> QED BY <1>0, <3>1 DEF Book!Next
  <2>2. CASE /\ tx[p].status = "REJECTED" /\ tx[p].code = "INVALID_REFERENCE"
             /\ IsReversal(req.kind) /\ rows[ref] # NoTx
    <3>1. Book!Referenced(req) # NoTx
      BY <1>0, <2>2, BookIs DEF Book!Referenced
    <3>2. Book!RejectReference(req)
      BY <1>1, <1>2, <1>6, <2>2, <3>1, BookRules DEF Book!RejectReference
    <3> QED BY <1>0, <3>2 DEF Book!Next
  <2>3. CASE /\ tx[p].status = "REJECTED" /\ tx[p].code = "REFERENCE_NOT_FOUND"
             /\ p \in Resolvers
    <3>1. Book!GiveUpReference(req)
      BY <1>1, <1>2, <1>6, <2>3 DEF Book!GiveUpReference
    <3> QED BY <1>0, <3>1 DEF Book!Next
  <2>4. CASE /\ tx[p].status = "PROCESSED" /\ tx[p].code = "none" /\ req.kind = "LOSS"
             /\ WalletCurrency[req.wallet] = req.currency
    <3>1. Book!Lose(req)
      BY <1>1, <1>2, <1>3, <1>6, <2>4 DEF Book!Lose
    <3> QED BY <1>0, <3>1 DEF Book!Next
  <2> QED BY <1>3, <1>6, <2>1, <2>2, <2>3, <2>4 DEF Noted
<1> QED BY <1>4, <1>5, <1>6, CommitIs

\* With one resolver, every behaviour of submitters and resolver, with its
\* locks, races, lost replies and retries, is a sequence of atomic decisions of
\* the book.
THEOREM BookRefined == OneResolver /\ Spec => ImplementsBook
<1>1. Init => Book!Init
  <2> SUFFICES ASSUME Init PROVE Book!Init
    OBVIOUS
  <2>1. BookDecided = [k \in Keys |-> NoTx]
    BY DEF Init, BookDecided
  <2>2. BookBalance = Opening
    BY SubmitAssumption DEF Init, BookBalance
  <2>3. \A w \in Wallets : \A i \in DOMAIN ledger[w] : ledger[w][i].key = NoKey
    <3> TAKE w \in Wallets
    <3>1. \/ ledger[w] = <<>>
          \/ ledger[w] = <<[key |-> NoKey, direction |-> "CREDIT",
                            amount |-> Opening[w], before |-> 0,
                            after |-> Opening[w]]>>
      BY DEF Init
    <3> QED BY <3>1
  <2>4. BookMoved = {}
    BY <2>3, DomainAssumption DEF BookMoved, HasLedgerEntry
  <2> QED BY <2>1, <2>2, <2>4 DEF Book!Init
<1>2. RowsInv /\ [Next]_vars => [Book!Next]_(Book!vars)
  <2> SUFFICES ASSUME RowsInv, [Next]_vars PROVE [Book!Next]_(Book!vars)
    OBVIOUS
  <2>1. ASSUME book' = book PROVE UNCHANGED Book!vars
    BY <2>1 DEF book, BookDecided, BookBalance, BookMoved, HasLedgerEntry, Book!vars
  <2>2. CASE \E p \in Procs : Acts(p)
    <3>1. PICK p \in Procs : Acts(p)
      BY <2>2
    <3>2. book' = book \/ Commits(p)
      BY <3>1, ActsBook DEF RowsInv, KeysInv, LedgerInv
    <3> QED BY <2>1, <3>2, BookStep
  <2>3. CASE UNCHANGED vars \/ \E k \in Keys : RetryDue(k) \/ Expire(k)
    BY <2>1, <2>3 DEF vars, RetryDue, Expire
  <2> QED BY <2>2, <2>3 DEF Next, Acts
<1> QED BY <1>1, <1>2, RowsInit, RowsNext, PTL DEF Spec, ImplementsBook, Book!Spec

=============================================================================
