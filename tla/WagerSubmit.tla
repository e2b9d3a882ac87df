----------------------------- MODULE WagerSubmit ---------------------------
(***************************************************************************)
(* WagerSubmitter.Submit and process, and the PendingReferenceResolver     *)
(* that re-enters process, at the granularity of the Postgres statements   *)
(* whose order matters.  A process is one call of Submit (a submitter,     *)
(* which answers once) or one resolver loop (one per running instance of   *)
(* the service).                                                           *)
(*                                                                         *)
(* Postgres is modelled by what it guarantees at READ COMMITTED: a reader  *)
(* sees committed rows only, so what a transaction wrote appears in its    *)
(* Commit step; the locks it takes on the way (FOR UPDATE on the wallet,   *)
(* KEY SHARE on it by the foreign key of an inserted row, the row or       *)
(* unique-index entry of a wager) are variables, because other processes   *)
(* wait for them.                                                          *)
(***************************************************************************)
EXTENDS WagerDomain, Sequences, FiniteSets

CONSTANTS
  Submitters,     \* calls of Submit
  Resolvers,      \* resolver loops, one per instance of the service
  NoProc,         \* "nobody" as the holder of a lock
  Wallets,        \* the wallets that exist
  WalletCurrency, \* their currencies
  Opening,        \* their opening balances
  MaxAttempts,    \* PendingReferenceResolver.maxAttempts
  MaxFailures     \* bound: database calls that fail in one behaviour

Procs == Submitters \cup Resolvers

ASSUME SubmitAssumption ==
  /\ Submitters \cap Resolvers = {}
  /\ NoProc \notin Procs
  /\ Wallets \subseteq WalletIds
  /\ WalletCurrency \in [Wallets -> Currencies]
  /\ Opening \in [Wallets -> 0..MaxMoney]
  /\ MaxAttempts \in Nat
  /\ MaxFailures \in Nat

VARIABLES
  rows,      \* wager_transactions: the committed row of each key, or NoTx
  attempts,  \* pending_reference_attempts of each row
  backoff,   \* keys whose pending_reference_next_retry_at lies ahead
  old,       \* keys whose row is older than the resolver's ttl
  wallets,   \* wallets: balance and version
  ledger,    \* wallet_ledger_entries of each wallet, in insertion order
  outbox,    \* event types recorded for each key, in insertion order
  holder,    \* who holds FOR UPDATE on each wallet row
  sharers,   \* who holds KEY SHARE on each wallet row
  rowLock,   \* who has an uncommitted row of each key
  pc,        \* next statement of each process
  tx,        \* the wager.Transaction each process works on, or NoTx
  loaded,    \* the wallet.Wallet each process has in memory
  entry,     \* the wallet.LedgerEntry each process has built
  due,       \* the rest of each resolver's batch
  answer,    \* what each submitter was told
  failures   \* database calls that have failed so far

book == <<rows, wallets, ledger, outbox>>
schedule == <<attempts, backoff, old>>
locks == <<holder, sharers, rowLock>>
memory == <<loaded, entry>>
vars == <<book, schedule, locks, pc, tx, memory, due, answer, failures>>

NoTx == [status |-> "ABSENT"]

EventTypes ==
  {"WagerTransactionProcessed", "WagerTransactionRejected",
   "WagerTransactionPendingReference", "WalletBalanceChanged"}

Outcomes ==
  {"none", "fresh", "replay", "ErrIdempotencyConflict", "validation",
   "ErrWalletNotFound", "money", "duplicate_ledger_entry", "deadlock",
   "unavailable"}

Labels ==
  {"idle", "lookup", "winner", "process", "lock", "decide", "save", "commit",
   "saveEvent", "share", "commitEvent", "balance", "replay", "current",
   "next", "reschedule", "done"}

Wallet == [balance: 0..MaxMoney, version: Nat]

\* key is NoKey for the OPENING entry, which no provider can name.
LedgerEntry ==
  [key: Keys \cup {NoKey}, direction: Directions, amount: Nat,
   before: 0..MaxMoney, after: 0..MaxMoney]

\* Before anything is built.
ZeroEntry == [key |-> NoKey, direction |-> "CREDIT", amount |-> 0,
              before |-> 0, after |-> 0]

\* PendingReferenceRetry, with what resolveOne will compute from createdAt.
Retry == [tx: Transaction, attempts: Nat, old: BOOLEAN]

Answer == [outcome: Outcomes, status: Statuses \cup {"ABSENT"}, balance: Int]

Key(p) == tx[p].request.key
WalletOf(p) == tx[p].request.wallet

\* Only rows of other kinds than LOSS that end PROCESSED have moved a wallet.
Moves(t) == t.status = "PROCESSED" /\ t.request.kind # "LOSS"

HasLedgerEntry(k) ==
  \E w \in Wallets : \E i \in DOMAIN ledger[w] : ledger[w][i].key = k

\* Variation: a ROLLBACK always credits, whatever it reverses.
DirectionIgnoringReference(t) == MovementDirection(t.request.kind, "BET")

\* movementDirection, with the kind of the referenced transaction; a row's
\* request never changes, so it does not matter when it is read.
Direction(t) ==
  MovementDirection(t.request.kind,
                    IF t.ref = NoKey THEN "BET" ELSE rows[t.ref].request.kind)

\* Variation: only a REFUND counts as a reversal.
FindReversalRefundOnly(ref) ==
  {k \in Keys : /\ rows[k] # NoTx /\ rows[k].ref = ref
                /\ rows[k].request.kind = "REFUND"
                /\ rows[k].status = "PROCESSED"}

\* FindReversal: any PROCESSED reversal of that reference, whoever wrote it.
FindReversal(ref) ==
  {k \in Keys : /\ rows[k] # NoTx
                /\ rows[k].ref = ref
                /\ IsReversal(rows[k].request.kind)
                /\ rows[k].status = "PROCESSED"}

-----------------------------------------------------------------------------
\* What the steps below are made of.

Goto(p, label) == pc' = [pc EXCEPT ![p] = label]

Reply(p, outcome, status, balance) ==
  answer' = [answer EXCEPT ![p] = [outcome |-> outcome, status |-> status,
                                   balance |-> balance]]

\* Variation: the KEY SHARE of a finished transaction stays.
ReleaseKeepingShare(p) ==
  /\ holder' = [w \in Wallets |-> IF holder[w] = p THEN NoProc ELSE holder[w]]
  /\ rowLock' = [k \in Keys |-> IF rowLock[k] = p THEN NoProc ELSE rowLock[k]]
  /\ UNCHANGED sharers

\* Rollback or commit: everything p has locked is free again.
Release(p) ==
  /\ holder' = [w \in Wallets |-> IF holder[w] = p THEN NoProc ELSE holder[w]]
  /\ sharers' = [w \in Wallets |-> sharers[w] \ {p}]
  /\ rowLock' = [k \in Keys |-> IF rowLock[k] = p THEN NoProc ELSE rowLock[k]]

\* An error returned by any statement: the transaction is rolled back; Submit
\* answers with it, and ResolveDue drops the rest of its batch.
Return(p, outcome) ==
  /\ Release(p)
  /\ IF p \in Submitters
       THEN Goto(p, "done") /\ Reply(p, outcome, "ABSENT", 0) /\ UNCHANGED due
       ELSE /\ Goto(p, "idle")
            /\ due' = [due EXCEPT ![p] = {}]
            /\ UNCHANGED answer
  /\ UNCHANGED <<book, schedule, tx, memory>>

\* A result: Submit answers; resolveOne turns to the next item of the batch.
Succeed(p, outcome, balance) ==
  IF p \in Submitters
    THEN Goto(p, "done") /\ Reply(p, outcome, tx[p].status, balance)
    ELSE Goto(p, "next") /\ UNCHANGED answer

-----------------------------------------------------------------------------
\* Submit.

Submit(p, req) ==
  /\ pc[p] = "idle" /\ p \in Submitters
  /\ IF ValidRequest(req)
       THEN /\ tx' = [tx EXCEPT ![p] = NewTransaction(req)]
            /\ Goto(p, "lookup")
            /\ UNCHANGED answer
       ELSE /\ Goto(p, "done")
            /\ Reply(p, "validation", "ABSENT", 0)
            /\ UNCHANGED tx
  /\ UNCHANGED <<book, schedule, locks, memory, due, failures>>

\* FindByProviderAndExternalID before process, and again after losing the
\* insert race; replay compares the payloads.  The winner's row is committed and
\* rows are never deleted, so it is there.
LookUp(p) ==
  /\ pc[p] \in {"lookup", "winner"}
  /\ LET existing == rows[Key(p)] IN
       \/ /\ existing = NoTx /\ pc[p] = "lookup"
          /\ Goto(p, "process")
          /\ UNCHANGED <<tx, answer>>
       \/ /\ existing # NoTx
          /\ ~SamePayload(existing.request, tx[p].request)
          /\ Goto(p, "done")
          /\ Reply(p, "ErrIdempotencyConflict", "ABSENT", 0)
          /\ UNCHANGED tx
       \/ /\ existing # NoTx
          /\ SamePayload(existing.request, tx[p].request)
          /\ tx' = [tx EXCEPT ![p] = existing]
          /\ Goto(p, "replay")
          /\ UNCHANGED answer
  /\ UNCHANGED <<book, schedule, locks, memory, due, failures>>

\* Variation: a replay always reports the current balance.
ReplayCurrentBalance(p) ==
  /\ pc[p] = "replay"
  /\ Goto(p, "current")
  /\ UNCHANGED <<book, schedule, locks, tx, memory, due, answer, failures>>

\* balanceAtProcessing: the balance of the ledger entry if there is one.
Replay(p) ==
  /\ pc[p] = "replay"
  /\ \/ \E w \in Wallets : \E i \in DOMAIN ledger[w] :
          /\ ledger[w][i].key = Key(p)
          /\ Succeed(p, "replay", ledger[w][i].after)
     \/ ~HasLedgerEntry(Key(p)) /\ Goto(p, "current") /\ UNCHANGED answer
  /\ UNCHANGED <<book, schedule, locks, tx, memory, due, failures>>

\* FindByID outside a transaction takes no lock: the tail of a replay without
\* ledger entry, and of saveWithEvent after its commit.
ReadBalance(p) ==
  /\ pc[p] \in {"balance", "current"}
  /\ Succeed(p, IF pc[p] = "balance" THEN "fresh" ELSE "replay",
             wallets[WalletOf(p)].balance)
  /\ UNCHANGED <<book, schedule, locks, tx, memory, due, failures>>

-----------------------------------------------------------------------------
\* process, up to the first write.

\* Variation: every retry that finds nothing saves and announces again.
ProcessReversalAnnouncing(p) ==
  /\ pc[p] = "process" /\ IsReversal(tx[p].request.kind)
  /\ rows[tx[p].request.reference] = NoTx
  /\ tx' = [tx EXCEPT ![p] = MarkPendingReference(@)]
  /\ Goto(p, "saveEvent")
  /\ UNCHANGED <<book, schedule, locks, memory, due, answer, failures>>

\* The reference of a REFUND or ROLLBACK, read before any lock is held.
\* parkPendingReference writes nothing for a row that is parked already.
ProcessReversal(p) ==
  /\ pc[p] = "process" /\ IsReversal(tx[p].request.kind)
  /\ LET key   == tx[p].request.reference
         found == rows[key]
     IN \/ /\ found = NoTx
           /\ tx' = [tx EXCEPT ![p] = MarkPendingReference(@)]
           /\ Goto(p, IF tx[p].status = "PENDING_REFERENCE"
                        THEN "reschedule" ELSE "saveEvent")
        \/ /\ found # NoTx /\ ~ValidateReference(tx[p].request, found)
           /\ tx' = [tx EXCEPT ![p] = MarkRejected(@, "INVALID_REFERENCE")]
           /\ Goto(p, "saveEvent")
        \/ /\ found # NoTx /\ ValidateReference(tx[p].request, found)
           /\ tx' = [tx EXCEPT ![p] = ResolveReference(@, key)]
           /\ Goto(p, "lock")
  /\ UNCHANGED <<book, schedule, locks, memory, due, answer, failures>>

\* BET and WIN go straight to the wallet.
ProcessMovement(p) ==
  /\ pc[p] = "process" /\ tx[p].request.kind \in {"BET", "WIN"}
  /\ Goto(p, "lock")
  /\ UNCHANGED <<book, schedule, locks, tx, memory, due, answer, failures>>

\* finishWithoutMovement: a LOSS must only match the wallet's currency.
ProcessLoss(p) ==
  /\ pc[p] = "process" /\ tx[p].request.kind = "LOSS"
  /\ \/ WalletOf(p) \notin Wallets /\ Return(p, "ErrWalletNotFound")
     \/ /\ WalletOf(p) \in Wallets
        /\ WalletCurrency[WalletOf(p)] # tx[p].request.currency
        /\ Return(p, "money")
     \/ /\ WalletOf(p) \in Wallets
        /\ WalletCurrency[WalletOf(p)] = tx[p].request.currency
        /\ tx' = [tx EXCEPT ![p] = MarkProcessed(@)]
        /\ Goto(p, "saveEvent")
        /\ UNCHANGED <<book, schedule, locks, memory, due, answer>>
  /\ UNCHANGED failures

-----------------------------------------------------------------------------
\* process, inside WithinTx: wallet lock, decision, writes, commit.

\* Variation: FindByID without FOR UPDATE reads and goes on.
LockWalletNot(p) ==
  /\ pc[p] = "lock" /\ WalletOf(p) \in Wallets
  /\ loaded' = [loaded EXCEPT ![p] = wallets[WalletOf(p)]]
  /\ Goto(p, "decide")
  /\ UNCHANGED <<book, schedule, locks, tx, entry, due, answer, failures>>

\* FindByID ... FOR UPDATE waits for the holder and for every KEY SHARE.
LockWallet(p) ==
  /\ pc[p] = "lock"
  /\ \/ WalletOf(p) \notin Wallets /\ Return(p, "ErrWalletNotFound")
     \/ /\ WalletOf(p) \in Wallets
        /\ holder[WalletOf(p)] = NoProc /\ sharers[WalletOf(p)] = {}
        /\ holder' = [holder EXCEPT ![WalletOf(p)] = p]
        /\ loaded' = [loaded EXCEPT ![p] = wallets[WalletOf(p)]]
        /\ Goto(p, "decide")
        /\ UNCHANGED <<book, schedule, sharers, rowLock, tx, entry, due, answer>>
  /\ UNCHANGED failures

\* FindReversal, then Debit or Credit of the wallet in memory, and its entry.
\* Whatever is not decided here ends the transaction with an error.
Decide(p) ==
  LET t == tx[p]
      amount == t.request.amount
      before == loaded[p].balance
      duplicate == IsReversal(t.request.kind) /\ FindReversal(t.ref) # {}
      mismatch == WalletCurrency[WalletOf(p)] # t.request.currency
      refused == Insufficient(before, Direction(t), amount)
      overflow == Overflows(before, Direction(t), amount)
      after == BalanceAfter(before, Direction(t), amount)
      Reject(code) ==
        /\ tx' = [tx EXCEPT ![p] = MarkRejected(t, code)]
        /\ Goto(p, "save")
        /\ UNCHANGED <<book, schedule, locks, memory, due, answer>>
  IN /\ pc[p] = "decide"
     /\ \/ duplicate /\ Reject("DUPLICATE_REVERSAL")
        \/ ~duplicate /\ (mismatch \/ overflow) /\ Return(p, "money")
        \/ /\ ~duplicate /\ ~mismatch /\ refused
           /\ Reject(InsufficientCode(t.request.kind))
        \/ /\ ~duplicate /\ ~mismatch /\ ~overflow /\ ~refused
           /\ tx' = [tx EXCEPT ![p] = MarkProcessed(t)]
           /\ loaded' = [loaded EXCEPT ![p] =
                [balance |-> after, version |-> @.version + 1]]
           /\ entry' = [entry EXCEPT ![p] =
                [key |-> Key(p), direction |-> Direction(t), amount |-> amount,
                 before |-> before, after |-> after]]
           /\ Goto(p, "save")
           /\ UNCHANGED <<book, schedule, locks, due, answer>>
     /\ UNCHANGED failures

\* Variation: the upsert resolves the conflict of keys instead of reporting it.
SaveWagerOverKey(p, label, next) ==
  /\ pc[p] = label
  /\ rowLock[Key(p)] = NoProc
  /\ rowLock' = [rowLock EXCEPT ![Key(p)] = p]
  /\ Goto(p, next)
  /\ UNCHANGED <<book, schedule, holder, sharers, tx, memory, due, answer,
                 failures>>

\* Save of the wager: an upsert by id.  It waits for an uncommitted row of the
\* same key; a submitter's id is new, so a committed row of that key is a
\* violation of the unique constraint (the transaction is rolled back and
\* Submit reads the winner), while a resolver's upsert meets its own row.
SaveWager(p, label, next) ==
  /\ pc[p] = label
  /\ rowLock[Key(p)] = NoProc
  /\ \/ /\ p \in Submitters /\ rows[Key(p)] # NoTx
        /\ Release(p)
        /\ Goto(p, "winner")
     \/ /\ p \in Resolvers \/ rows[Key(p)] = NoTx
        /\ rowLock' = [rowLock EXCEPT ![Key(p)] = p]
        /\ Goto(p, next)
        /\ UNCHANGED <<holder, sharers>>
  /\ UNCHANGED <<book, schedule, tx, memory, due, answer, failures>>

\* Under the wallet lock: wager, wallet, ledger entry and outbox rows follow
\* each other with nothing to wait for.
SaveMovement(p) == SaveWager(p, "save", "commit")

\* In saveWithEvent: no wallet lock is held, so the foreign key of a new row
\* has still to be checked.  An upsert of an existing row checks none.
SaveEvent(p) ==
  SaveWager(p, "saveEvent", IF p \in Submitters THEN "share" ELSE "commitEvent")

\* The foreign key check of the inserted row: KEY SHARE on the wallet waits
\* for FOR UPDATE.
ShareWallet(p) ==
  /\ pc[p] = "share"
  /\ \/ WalletOf(p) \notin Wallets /\ Return(p, "ErrWalletNotFound")
     \/ /\ WalletOf(p) \in Wallets
        /\ holder[WalletOf(p)] = NoProc
        /\ sharers' = [sharers EXCEPT ![WalletOf(p)] = @ \cup {p}]
        /\ Goto(p, "commitEvent")
        /\ UNCHANGED <<book, schedule, holder, rowLock, tx, memory, due, answer>>
  /\ UNCHANGED failures

\* The outbox entries saved with a transaction of each outcome.
EventsOf(t) ==
  IF Moves(t)
    THEN <<"WagerTransactionProcessed", "WalletBalanceChanged">>
  ELSE IF t.status = "PROCESSED" THEN <<"WagerTransactionProcessed">>
  ELSE IF t.status = "REJECTED" THEN <<"WagerTransactionRejected">>
  ELSE <<"WagerTransactionPendingReference">>

\* Variation: a reversal's entry is booked under what it reverses.
PersistUnderReference(p) ==
  LET t == tx[p]
      w == WalletOf(p)
      booked == IF IsReversal(t.request.kind) THEN t.request.reference ELSE Key(p)
  IN /\ rows' = [rows EXCEPT ![Key(p)] = t]
     /\ outbox' = [outbox EXCEPT ![Key(p)] = @ \o EventsOf(t)]
     /\ \/ /\ Moves(t)
           /\ wallets' = [wallets EXCEPT ![w] = loaded[p]]
           /\ ledger' = [ledger EXCEPT ![w] = Append(@, [entry[p] EXCEPT !.key = booked])]
        \/ ~Moves(t) /\ UNCHANGED <<wallets, ledger>>

\* The writes of p's transaction become visible, all at once.
Persist(p) ==
  LET t == tx[p]
      w == WalletOf(p)
  IN /\ rows' = [rows EXCEPT ![Key(p)] = t]
     /\ outbox' = [outbox EXCEPT ![Key(p)] = @ \o EventsOf(t)]
     /\ \/ /\ Moves(t)
           /\ wallets' = [wallets EXCEPT ![w] = loaded[p]]
           /\ ledger' = [ledger EXCEPT ![w] = Append(@, entry[p])]
        \/ ~Moves(t) /\ UNCHANGED <<wallets, ledger>>

\* The ledger admits one entry per wallet and transaction; a second one rolls
\* everything back.
CommitMovement(p) ==
  /\ pc[p] = "commit"
  /\ \/ /\ Moves(tx[p]) /\ HasLedgerEntry(Key(p))
        /\ Return(p, "duplicate_ledger_entry")
     \/ /\ ~(Moves(tx[p]) /\ HasLedgerEntry(Key(p)))
        /\ Persist(p)
        /\ Release(p)
        /\ Succeed(p, "fresh", loaded[p].balance)
        /\ UNCHANGED <<schedule, tx, memory, due>>
  /\ UNCHANGED failures

CommitEvent(p) ==
  /\ pc[p] = "commitEvent"
  /\ Persist(p)
  /\ Release(p)
  /\ Goto(p, "balance")
  /\ UNCHANGED <<schedule, tx, memory, due, answer, failures>>

-----------------------------------------------------------------------------
\* PendingReferenceResolver.

\* Variation: the query forgets the rows that were never scheduled (NULL).
FindDueScheduled(r) ==
  /\ pc[r] = "idle" /\ r \in Resolvers
  /\ due' = [due EXCEPT ![r] =
       {[tx |-> rows[k], attempts |-> attempts[k], old |-> k \in old] :
          k \in {j \in Keys : /\ rows[j].status = "PENDING_REFERENCE"
                              /\ attempts[j] > 0 /\ j \notin backoff}}]
  /\ Goto(r, "next")
  /\ UNCHANGED <<book, schedule, locks, tx, memory, answer, failures>>

\* ResolveDue on the ticker: one unlocked query gives the whole batch; the
\* time of the tick decides which items have outlived the ttl.
FindDue(r) ==
  /\ pc[r] = "idle" /\ r \in Resolvers
  /\ due' = [due EXCEPT ![r] =
       {[tx |-> rows[k], attempts |-> attempts[k], old |-> k \in old] :
          k \in {j \in Keys : /\ rows[j].status = "PENDING_REFERENCE"
                              /\ j \notin backoff}}]
  /\ Goto(r, "next")
  /\ UNCHANGED <<book, schedule, locks, tx, memory, answer, failures>>

\* resolveOne: reject a transaction that has waited enough, or process it.
ResolveOne(r) ==
  /\ pc[r] = "next"
  /\ \/ due[r] = {} /\ Goto(r, "idle") /\ UNCHANGED <<tx, due>>
     \/ \E item \in due[r] :
          /\ due' = [due EXCEPT ![r] = @ \ {item}]
          /\ IF item.attempts >= MaxAttempts \/ item.old
               THEN /\ tx' = [tx EXCEPT ![r] =
                         MarkRejected(item.tx, "REFERENCE_NOT_FOUND")]
                    /\ Goto(r, "saveEvent")
               ELSE /\ tx' = [tx EXCEPT ![r] = item.tx]
                    /\ Goto(r, "process")
  /\ UNCHANGED <<book, schedule, locks, memory, answer, failures>>

\* ScheduleNextPendingReferenceRetry, after process parked the item again.
Reschedule(r) ==
  /\ pc[r] = "reschedule"
  /\ rowLock[Key(r)] = NoProc
  /\ IF rows[Key(r)].status = "PENDING_REFERENCE"
       THEN /\ attempts' = [attempts EXCEPT ![Key(r)] = @ + 1]
            /\ backoff' = backoff \cup {Key(r)}
       ELSE UNCHANGED <<attempts, backoff>>
  /\ Goto(r, "next")
  /\ UNCHANGED <<book, old, locks, tx, memory, due, answer, failures>>

-----------------------------------------------------------------------------
\* Time, failures, the deadlock detector.

RetryDue(k) ==
  /\ k \in backoff
  /\ backoff' = backoff \ {k}
  /\ UNCHANGED <<book, attempts, old, locks, pc, tx, memory, due, answer, failures>>

Expire(k) ==
  /\ rows[k].status = "PENDING_REFERENCE" /\ k \notin old
  /\ old' = old \cup {k}
  /\ UNCHANGED <<book, attempts, backoff, locks, pc, tx, memory, due, answer,
                 failures>>

\* A database call fails, or the process dies: before it took effect, or,
\* for a commit whose reply was lost, after.
Fail(p) ==
  /\ failures < MaxFailures
  /\ pc[p] \notin {"idle", "next", "done"}
  /\ failures' = failures + 1
  /\ Return(p, "unavailable")

LoseCommitReply(p) ==
  /\ failures < MaxFailures
  /\ pc[p] \in {"commit", "commitEvent"}
  /\ ~(pc[p] = "commit" /\ Moves(tx[p]) /\ HasLedgerEntry(Key(p)))
  /\ failures' = failures + 1
  /\ Persist(p)
  /\ Release(p)
  /\ IF p \in Submitters
       THEN /\ Goto(p, "done")
            /\ Reply(p, "unavailable", "ABSENT", 0)
            /\ UNCHANGED due
       ELSE /\ Goto(p, "idle")
            /\ due' = [due EXCEPT ![p] = {}]
            /\ UNCHANGED answer
  /\ UNCHANGED <<schedule, tx, memory>>

WaitsFor(p, q) ==
  /\ p # q
  /\ \/ /\ pc[p] = "lock" /\ WalletOf(p) \in Wallets
        /\ holder[WalletOf(p)] = q \/ q \in sharers[WalletOf(p)]
     \/ pc[p] \in {"save", "saveEvent"} /\ rowLock[Key(p)] = q
     \/ /\ pc[p] = "share" /\ WalletOf(p) \in Wallets
        /\ holder[WalletOf(p)] = q

Stuck(S) == S # {} /\ \A p \in S : \E q \in S : WaitsFor(p, q)

\* Postgres aborts one transaction of a cycle of waiting ones (40P01).
DeadlockVictim(p) ==
  /\ \E S \in SUBSET Procs :
       p \in S /\ Stuck(S) /\ \A R \in SUBSET S : Stuck(R) => R = S
  /\ Return(p, "deadlock")
  /\ UNCHANGED failures

-----------------------------------------------------------------------------
Init ==
  /\ rows = [k \in Keys |-> NoTx]
  /\ attempts = [k \in Keys |-> 0]
  /\ backoff = {} /\ old = {}
  /\ wallets = [w \in Wallets |-> [balance |-> Opening[w], version |-> 1]]
  /\ ledger = [w \in Wallets |->
       IF Opening[w] = 0 THEN <<>>
       ELSE <<[key |-> NoKey, direction |-> "CREDIT", amount |-> Opening[w],
               before |-> 0, after |-> Opening[w]]>>]
  /\ outbox = [k \in Keys |-> <<>>]
  /\ holder = [w \in Wallets |-> NoProc]
  /\ sharers = [w \in Wallets |-> {}]
  /\ rowLock = [k \in Keys |-> NoProc]
  /\ pc = [p \in Procs |-> "idle"]
  /\ tx = [p \in Procs |-> NoTx]
  /\ loaded = [p \in Procs |-> [balance |-> 0, version |-> 0]]
  /\ entry = [p \in Procs |-> ZeroEntry]
  /\ due = [r \in Procs |-> {}]
  /\ answer = [p \in Submitters |->
                 [outcome |-> "none", status |-> "ABSENT", balance |-> 0]]
  /\ failures = 0

\* What a process does of its own accord once it has begun.
Step(p) ==
  \/ LookUp(p) \/ Replay(p) \/ ReadBalance(p)
  \/ ProcessReversal(p) \/ ProcessMovement(p) \/ ProcessLoss(p)
  \/ LockWallet(p) \/ Decide(p) \/ SaveMovement(p) \/ CommitMovement(p)
  \/ SaveEvent(p) \/ ShareWallet(p) \/ CommitEvent(p)
  \/ FindDue(p) \/ ResolveOne(p) \/ Reschedule(p)

Next ==
  \/ \E p \in Procs :
       \/ \E req \in Requests : Submit(p, req)
       \/ Step(p)
       \/ DeadlockVictim(p)
       \/ Fail(p)
       \/ LoseCommitReply(p)
  \/ \E k \in Keys : RetryDue(k) \/ Expire(k)

Spec == Init /\ [][Next]_vars

\* Goroutines are scheduled, the ticker ticks, time passes and Postgres
\* breaks deadlocks.  Nobody has to submit, and nothing has to fail.
Fairness ==
  /\ \A p \in Procs : WF_vars(Step(p)) /\ WF_vars(DeadlockVictim(p))
  /\ \A k \in Keys : WF_vars(RetryDue(k)) /\ WF_vars(Expire(k))

FairSpec == Spec /\ Fairness

-----------------------------------------------------------------------------
\* Properties.

TypeOK ==
  /\ rows \in [Keys -> Transaction \cup {NoTx}]
  /\ attempts \in [Keys -> Nat]
  /\ backoff \subseteq Keys /\ old \subseteq Keys
  /\ wallets \in [Wallets -> Wallet]
  /\ ledger \in [Wallets -> Seq(LedgerEntry)]
  /\ outbox \in [Keys -> Seq(EventTypes)]
  /\ holder \in [Wallets -> Procs \cup {NoProc}]
  /\ sharers \in [Wallets -> SUBSET Procs]
  /\ rowLock \in [Keys -> Procs \cup {NoProc}]
  /\ pc \in [Procs -> Labels]
  /\ tx \in [Procs -> Transaction \cup {NoTx}]
  /\ loaded \in [Procs -> Wallet]
  /\ entry \in [Procs -> LedgerEntry]
  /\ due \in [Procs -> SUBSET Retry]
  /\ answer \in [Submitters -> Answer]
  /\ failures \in 0..MaxFailures

\* The ledger of a wallet is a chain from zero to the wallet's balance: every
\* entry starts where the previous one ended.  A lost update of the wallet, or
\* a movement without its entry, breaks the chain; the balance that
\* WalletReconciler recomputes is then not the stored one.
LedgerChain ==
  \A w \in Wallets :
    LET entries == ledger[w]
        after(i) == IF i = 0 THEN 0 ELSE entries[i].after
    IN /\ wallets[w].balance = after(Len(entries))
       /\ \A i \in 1..Len(entries) :
            /\ entries[i].before = after(i - 1)
            /\ entries[i].after = BalanceAfter(entries[i].before,
                                    entries[i].direction, entries[i].amount)

\* A provider's transaction moves money once: no key has two ledger entries.
OneEntryPerTransaction ==
  \A v, w \in Wallets : \A i \in DOMAIN ledger[v], j \in DOMAIN ledger[w] :
    ledger[v][i].key = ledger[w][j].key /\ ledger[v][i].key # NoKey
      => v = w /\ i = j

\* What the wager rows say and what the ledger says is the same: a key has an
\* entry exactly when its row is a PROCESSED transaction that moves money, and
\* the entry is of that row's wallet, amount and direction.
LedgerTellsRows ==
  /\ \A k \in Keys :
       rows[k] # NoTx /\ Moves(rows[k]) => HasLedgerEntry(k)
  /\ \A w \in Wallets : \A i \in DOMAIN ledger[w] :
       LET e == ledger[w][i] IN
       e.key # NoKey =>
         /\ rows[e.key] # NoTx /\ Moves(rows[e.key])
         /\ rows[e.key].request.wallet = w
         /\ rows[e.key].request.amount = e.amount
         /\ Direction(rows[e.key]) = e.direction

\* The ledger never holds two reversals of one transaction, of whatever kinds:
\* "a second reversal, of either kind, against one reference" would return the
\* money of one debit twice.
OneReversalPerReference ==
  \A v, w \in Wallets : \A i \in DOMAIN ledger[v], j \in DOMAIN ledger[w] :
    LET k == ledger[v][i].key
        l == ledger[w][j].key
    IN /\ k # NoKey /\ l # NoKey /\ k # l
       /\ IsReversal(rows[k].request.kind) /\ IsReversal(rows[l].request.kind)
       => rows[k].request.reference # rows[l].request.reference

\* Among concurrent submissions of one key, at most one processes it; the
\* others replay it, conflict with it or fail.
OneFreshAnswer ==
  \A p, q \in Submitters :
    /\ answer[p].outcome = "fresh" /\ answer[q].outcome = "fresh"
    /\ Key(p) = Key(q)
    => p = q

\* What a caller was told stays true: the key is recorded with this caller's
\* payload (another one, if told of a conflict), a terminal status is the
\* status of the row for good, and the balance told for a movement is the one
\* its ledger entry recorded, whenever it was asked for.
AnswersHold ==
  \A p \in Submitters :
    /\ answer[p].outcome \in {"fresh", "replay"} =>
         /\ rows[Key(p)] # NoTx
         /\ rows[Key(p)].request = tx[p].request
         /\ IsTerminal(answer[p].status) =>
              /\ rows[Key(p)].status = answer[p].status
              /\ Moves(rows[Key(p)]) =>
                   \E w \in Wallets : \E i \in DOMAIN ledger[w] :
                     /\ ledger[w][i].key = Key(p)
                     /\ ledger[w][i].after = answer[p].balance
    /\ answer[p].outcome = "ErrIdempotencyConflict" =>
         rows[Key(p)] # NoTx /\ rows[Key(p)].request # tx[p].request

\* The outbox tells each transaction's history, once and in order: parked (if
\* it was), then its end, with the change of balance exactly if there was one.
OutboxTellsHistory ==
  \A k \in Keys :
    LET parked == <<"WagerTransactionPendingReference">>
        end == IF rows[k] = NoTx \/ rows[k].status = "PENDING_REFERENCE" THEN <<>>
               ELSE IF rows[k].status = "REJECTED"
                 THEN <<"WagerTransactionRejected">>
               ELSE IF Moves(rows[k])
                 THEN <<"WagerTransactionProcessed", "WalletBalanceChanged">>
               ELSE <<"WagerTransactionProcessed">>
    IN IF rows[k] = NoTx THEN outbox[k] = <<>>
       ELSE IF rows[k].status = "PENDING_REFERENCE" THEN outbox[k] = parked
       ELSE outbox[k] \in {end, parked \o end}

\* A terminal status is terminal: no step rewrites the row that has one.
TerminalIsFinal ==
  [][\A k \in Keys :
       rows[k] # NoTx /\ IsTerminal(rows[k].status) => rows'[k] = rows[k]]_vars

\* "one caller gets a fresh result, every other one gets a clean replay, never
\* a raw insert error": no caller is answered with Postgres's own error.
NoRawInsertError ==
  \A p \in Submitters : answer[p].outcome # "deadlock"

\* What a book would have recorded of each key.
BookDecided ==
  [k \in Keys |->
     IF rows[k] = NoTx THEN NoTx
     ELSE [request |-> rows[k].request, status |-> rows[k].status,
           code |-> rows[k].code]]

BookBalance == [w \in Wallets |-> wallets[w].balance]

BookMoved == {k \in Keys : HasLedgerEntry(k)}

\* The book behind the rows: the abstract specification this one implements
\* as long as one resolver runs.
Book == INSTANCE WalletBook WITH
  Absent <- NoTx, decided <- BookDecided, balance <- BookBalance, moved <- BookMoved

\* Every behaviour of the submitters and of one resolver, locks, races, lost
\* replies and all, is a sequence of atomic, justified decisions of the book.
ImplementsBook == Book!Spec

\* Every submission is answered, whatever the others do.
EverySubmissionIsAnswered ==
  \A p \in Submitters : pc[p] = "lookup" ~> pc[p] = "done"

\* No transaction waits for its reference for ever: found or not, the resolver
\* brings it to a terminal status.
EveryParkedTransactionEnds ==
  \A k \in Keys :
    rows[k].status = "PENDING_REFERENCE" ~> IsTerminal(rows[k].status)

=============================================================================
