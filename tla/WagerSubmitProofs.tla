-------------------------- MODULE WagerSubmitProofs ------------------------
(***************************************************************************)
(* Theorems about WagerSubmit, for any sets of keys, wallets, requests,    *)
(* submitters and resolvers, any opening balances and any number of        *)
(* failures: types, the ledger, and what the callers are told.             *)
(***************************************************************************)
EXTENDS WagerSubmit, TLAPS

-----------------------------------------------------------------------------
\* Types.

\* A transaction NewTransaction has let through.
TxOK(t) == t \in Transaction /\ ValidRequest(t.request)

\* p works on a transaction.
Busy(p) == pc[p] \notin {"idle", "next", "done"}

\* Where p has made sure that the wallet of its transaction exists.
Checked ==
  {"decide", "save", "commit", "commitEvent", "balance", "replay", "current"}

\* A row is of a valid transaction, under its own key, on an existing wallet.
RowsOK ==
  \A k \in Keys : rows[k] # NoTx =>
    /\ TxOK(rows[k])
    /\ rows[k].request.key = k
    /\ rows[k].request.wallet \in Wallets

\* What the types of the memory and of the rows rest on.
WellFormed ==
  /\ RowsOK
  /\ \A p \in Procs : \A item \in due[p] :
       TxOK(item.tx) /\ item.tx.request.wallet \in Wallets
  /\ \A p \in Procs : Busy(p) => TxOK(tx[p])
  /\ \A p \in Procs : Busy(p) /\ (p \in Resolvers \/ pc[p] \in Checked) =>
       WalletOf(p) \in Wallets
  /\ \A p \in Procs : pc[p] \in {"lock", "decide"} => tx[p].request.kind # "LOSS"

TypeInv == TypeOK /\ WellFormed

\* The marker of an absent row is no transaction.
LEMMA NoTxIsNone == NoTx \notin Transaction
BY DEF NoTx, Transaction, Statuses

\* The decision functions yield the values their callers store.
LEMMA DecisionTypes ==
  ASSUME NEW t, TxOK(t)
  PROVE  /\ t.request \in Request
         /\ \A s \in FailureCodes : TxOK(MarkRejected(t, s))
         /\ TxOK(MarkProcessed(t))
         /\ TxOK(MarkPendingReference(t))
         /\ \A k \in Keys : TxOK(ResolveReference(t, k))
         /\ t.request.kind # "LOSS" => t.request.amount \in Nat \ {0}
         /\ IsReversal(t.request.kind) => t.request.reference \in Keys
<1> USE DEF TxOK
<1>1. t \in Transaction /\ t.request \in Requests /\ t.request \in Request
  BY DomainAssumption DEF Transaction
<1>2. \A s \in FailureCodes : TxOK(MarkRejected(t, s))
  BY <1>1 DEF Transaction, MarkRejected, Statuses
<1>3. TxOK(MarkProcessed(t)) /\ TxOK(MarkPendingReference(t))
  BY <1>1 DEF Transaction, MarkProcessed, MarkPendingReference, Statuses
<1>4. \A k \in Keys : TxOK(ResolveReference(t, k))
  BY <1>1 DEF Transaction, ResolveReference
<1>5. t.request.kind # "LOSS" => t.request.amount \in Nat \ {0}
  BY <1>1 DEF Request, ValidRequest
<1>6. IsReversal(t.request.kind) => t.request.reference \in Keys
  BY <1>1 DEF Request, ValidRequest
<1> QED BY <1>1, <1>2, <1>3, <1>4, <1>5, <1>6

\* Whatever a transaction ends as, its events are of the known types.
LEMMA EventsType == ASSUME NEW t PROVE EventsOf(t) \in Seq(EventTypes)
<1>1. /\ <<"WagerTransactionProcessed">> \in Seq(EventTypes)
      /\ <<"WagerTransactionRejected">> \in Seq(EventTypes)
      /\ <<"WagerTransactionPendingReference">> \in Seq(EventTypes)
  BY DEF EventTypes
<1>2. <<"WagerTransactionProcessed", "WalletBalanceChanged">> \in Seq(EventTypes)
  BY DEF EventTypes
<1> QED BY <1>1, <1>2 DEF EventsOf

\* Giving back all locks leaves well-typed locks.
LEMMA ReleaseType ==
  ASSUME TypeOK, NEW p \in Procs, Release(p)
  PROVE  /\ holder' \in [Wallets -> Procs \cup {NoProc}]
         /\ sharers' \in [Wallets -> SUBSET Procs]
         /\ rowLock' \in [Keys -> Procs \cup {NoProc}]
BY DEF Release, TypeOK

\* An error keeps everything well formed: nothing but the locks, the reply and
\* the batch changes.
LEMMA ReturnType ==
  ASSUME TypeInv, NEW p \in Procs, NEW outcome \in Outcomes, Return(p, outcome),
         failures' \in 0..MaxFailures
  PROVE  TypeInv'
<1> USE DEF TypeInv
<1>1. TypeOK'
  <2>1. /\ rows' = rows /\ wallets' = wallets /\ ledger' = ledger
        /\ outbox' = outbox /\ attempts' = attempts /\ backoff' = backoff
        /\ old' = old /\ tx' = tx /\ loaded' = loaded /\ entry' = entry
    BY DEF Return, book, schedule, memory
  <2>2. pc' \in [Procs -> Labels] /\ due' \in [Procs -> SUBSET Retry]
    BY DEF Return, Goto, TypeOK, Labels
  <2>3. answer' \in [Submitters -> Answer]
    <3>1. [outcome |-> outcome, status |-> "ABSENT", balance |-> 0] \in Answer
      BY DEF Answer
    <3> QED BY <3>1 DEF Return, Reply, TypeOK
  <2>4. Release(p)
    BY DEF Return
  <2> QED BY <2>1, <2>2, <2>3, <2>4, ReleaseType DEF TypeOK
<1>2. WellFormed'
  <2>1. rows' = rows /\ tx' = tx
    BY DEF Return, book
  <2>2. \A q \in Procs : pc'[q] = pc[q] \/ pc'[q] \in {"idle", "done"}
    BY DEF TypeOK, Return, Goto
  <2>3. \A q \in Procs : due'[q] \subseteq due[q]
    BY DEF TypeOK, Return
  <2> QED BY <2>1, <2>2, <2>3 DEF WellFormed, RowsOK, Busy, WalletOf, Checked
<1> QED BY <1>1, <1>2 DEF TypeInv

\* Well-formedness of a step that keeps the rows so and moves p, with the
\* transaction t, to the label l.
LEMMA LocalStep ==
  ASSUME TypeInv, NEW p \in Procs, NEW l \in Labels, NEW t,
         rows' = rows \/ RowsOK', pc' = [pc EXCEPT ![p] = l],
         tx' = [tx EXCEPT ![p] = t],
         \A q \in Procs : due'[q] \subseteq due[q],
         l \notin {"idle", "next", "done"} =>
           /\ TxOK(t)
           /\ p \in Resolvers \/ l \in Checked => t.request.wallet \in Wallets
           /\ l \in {"lock", "decide"} => t.request.kind # "LOSS"
  PROVE  WellFormed'
<1>1. \A q \in Procs : q # p => pc'[q] = pc[q] /\ tx'[q] = tx[q]
  BY DEF TypeInv, TypeOK
<1>2. pc'[p] = l /\ tx'[p] = t
  BY DEF TypeInv, TypeOK
<1>3. \A q \in Procs : Busy(q)' => TxOK(tx'[q])
  BY <1>1, <1>2 DEF TypeInv, WellFormed, Busy
<1>4. \A q \in Procs : Busy(q)' /\ (q \in Resolvers \/ pc'[q] \in Checked) =>
        tx'[q].request.wallet \in Wallets
  BY <1>1, <1>2 DEF TypeInv, WellFormed, Busy, WalletOf
<1>5. \A q \in Procs : \A item \in due'[q] :
        TxOK(item.tx) /\ item.tx.request.wallet \in Wallets
  BY DEF TypeInv, WellFormed
<1>6. \A q \in Procs :
        pc'[q] \in {"lock", "decide"} => tx'[q].request.kind # "LOSS"
  BY <1>1, <1>2 DEF TypeInv, WellFormed
<1>7. RowsOK'
  BY DEF TypeInv, WellFormed, RowsOK
<1> QED BY <1>3, <1>4, <1>5, <1>6, <1>7 DEF WellFormed, WalletOf

\* The same for a step that does not touch the transactions either.
LEMMA GotoStep ==
  ASSUME TypeInv, NEW p \in Procs, NEW l \in Labels,
         rows' = rows \/ RowsOK', tx' = tx, Goto(p, l),
         \A q \in Procs : due'[q] \subseteq due[q],
         Busy(p) \/ l \in {"idle", "next", "done"},
         l \in Checked \ {"idle", "next", "done"} => WalletOf(p) \in Wallets,
         l \in {"lock", "decide"} => tx[p].request.kind # "LOSS"
  PROVE  WellFormed'
<1>1. tx' = [tx EXCEPT ![p] = tx[p]]
  BY DEF TypeInv, TypeOK
<1>2. l \notin {"idle", "next", "done"} =>
        /\ TxOK(tx[p])
        /\ p \in Resolvers \/ l \in Checked => tx[p].request.wallet \in Wallets
        /\ l \in {"lock", "decide"} => tx[p].request.kind # "LOSS"
  BY DEF TypeInv, WellFormed, WalletOf, Busy
<1> QED BY <1>1, <1>2, LocalStep DEF Goto

\* An answer is a well-typed answer.
LEMMA ReplyType ==
  ASSUME TypeInv, NEW p \in Procs, NEW o \in Outcomes,
         NEW s \in Statuses \cup {"ABSENT"}, NEW b \in Int, Reply(p, o, s, b)
  PROVE  answer' \in [Submitters -> Answer]
<1>1. [outcome |-> o, status |-> s, balance |-> b] \in Answer
  BY DEF Answer
<1> QED BY <1>1 DEF TypeInv, TypeOK, Reply

\* A success is answered with the state of the transaction.
LEMMA SucceedType ==
  ASSUME TypeInv, NEW p \in Procs, NEW o \in Outcomes, NEW b \in Int,
         TxOK(tx[p]), Succeed(p, o, b)
  PROVE  /\ answer' \in [Submitters -> Answer]
         /\ \E l \in {"done", "next"} : Goto(p, l)
<1>1. tx[p].status \in Statuses
  BY DEF TxOK, Transaction
<1>2. CASE p \in Submitters
  BY <1>1, <1>2, ReplyType DEF Succeed
<1>3. CASE p \notin Submitters
  BY <1>3 DEF Succeed, TypeInv, TypeOK
<1> QED BY <1>2, <1>3

\* Initial balances are in range, and no process has begun.
LEMMA InitType == Init => TypeInv
<1> SUFFICES ASSUME Init PROVE TypeInv
  OBVIOUS
<1>1. Opening \in [Wallets -> 0..MaxMoney] /\ MaxMoney \in Nat /\ MaxFailures \in Nat
  BY SubmitAssumption, DomainAssumption
<1>2. ledger \in [Wallets -> Seq(LedgerEntry)]
  <2>1. \A w \in Wallets :
          /\ Opening[w] \in 0..MaxMoney
          /\ [key |-> NoKey, direction |-> "CREDIT", amount |-> Opening[w],
              before |-> 0, after |-> Opening[w]] \in LedgerEntry
    BY <1>1 DEF LedgerEntry, Directions
  <2> QED BY <2>1 DEF Init
<1>3. wallets \in [Wallets -> Wallet]
  BY <1>1 DEF Init, Wallet
<1>4. /\ loaded \in [Procs -> Wallet]
      /\ entry \in [Procs -> LedgerEntry]
  BY <1>1 DEF Init, Wallet, LedgerEntry, ZeroEntry, Directions
<1>5. answer \in [Submitters -> Answer]
  BY DEF Init, Answer, Outcomes
<1>6. outbox \in [Keys -> Seq(EventTypes)]
  BY DEF Init
<1>7. TypeOK
  BY <1>1, <1>2, <1>3, <1>4, <1>5, <1>6 DEF TypeOK, Init, Labels
<1>8. WellFormed
  BY DEF Init, WellFormed, RowsOK, Busy
<1> QED BY <1>7, <1>8 DEF TypeInv

\* A valid request gives a well-formed transaction.
LEMMA SubmitType ==
  ASSUME TypeInv, NEW p \in Procs, NEW req \in Requests, Submit(p, req)
  PROVE  TypeInv'
<1> USE DEF TypeInv
<1>1. /\ UNCHANGED <<rows, wallets, ledger, outbox, attempts, backoff, old>>
      /\ UNCHANGED <<holder, sharers, rowLock, loaded, entry, due, failures>>
  BY DEF Submit, book, schedule, locks, memory
<1>2. CASE ValidRequest(req)
  <2>1. TxOK(NewTransaction(req))
    BY <1>2 DEF TxOK, NewTransaction, Transaction, Statuses, FailureCodes
  <2>2. /\ tx' = [tx EXCEPT ![p] = NewTransaction(req)]
        /\ pc' = [pc EXCEPT ![p] = "lookup"] /\ answer' = answer
        /\ p \notin Resolvers
    BY <1>2, SubmitAssumption DEF Submit, Goto
  <2>3. TypeOK'
    BY <1>1, <2>1, <2>2 DEF TypeOK, TxOK, Labels
  <2>4. "lookup" \in Labels /\ "lookup" \notin Checked
    BY DEF Labels, Checked
  <2>5. WellFormed'
    BY <1>1, <2>1, <2>2, <2>4, LocalStep
  <2> QED BY <2>3, <2>5
<1>3. CASE ~ValidRequest(req)
  <2>1. /\ Goto(p, "done") /\ tx' = tx
        /\ Reply(p, "validation", "ABSENT", 0)
    BY <1>3 DEF Submit
  <2>2. answer' \in [Submitters -> Answer]
    BY <2>1, ReplyType DEF Outcomes
  <2>3. TypeOK'
    BY <1>1, <2>1, <2>2 DEF TypeOK, Labels, Goto
  <2>4. "done" \in Labels /\ "done" \notin Checked
    BY DEF Labels, Checked
  <2>5. WellFormed'
    BY <1>1, <2>1, <2>4, GotoStep
  <2> QED BY <2>3, <2>5
<1> QED BY <1>2, <1>3

\* The lookup finds nothing, or a well-formed row.
LEMMA LookUpType ==
  ASSUME TypeInv, NEW p \in Procs, LookUp(p)
  PROVE  TypeInv'
<1> USE DEF TypeInv
<1>1. /\ UNCHANGED <<rows, wallets, ledger, outbox, attempts, backoff, old>>
      /\ UNCHANGED <<holder, sharers, rowLock, loaded, entry, due, failures>>
  BY DEF LookUp, book, schedule, locks, memory
<1>2. Busy(p) /\ TxOK(tx[p])
  BY DEF LookUp, WellFormed, Busy
<1>3. {"process", "done", "replay"} \subseteq Labels
  BY DEF Labels
<1>4. CASE Goto(p, "process") /\ UNCHANGED <<tx, answer>>
  <2>1. TypeOK'
    BY <1>1, <1>3, <1>4 DEF TypeOK, Goto
  <2>2. WellFormed'
    BY <1>1, <1>2, <1>3, <1>4, GotoStep DEF Checked
  <2> QED BY <2>1, <2>2
<1>5. CASE /\ Goto(p, "done") /\ UNCHANGED tx
           /\ Reply(p, "ErrIdempotencyConflict", "ABSENT", 0)
  <2>1. answer' \in [Submitters -> Answer]
    BY <1>5, ReplyType DEF Outcomes
  <2>2. TypeOK'
    BY <1>1, <1>3, <1>5, <2>1 DEF TypeOK, Goto
  <2>3. WellFormed'
    BY <1>1, <1>2, <1>3, <1>5, GotoStep DEF Checked
  <2> QED BY <2>2, <2>3
<1>6. CASE /\ rows[Key(p)] # NoTx
           /\ tx' = [tx EXCEPT ![p] = rows[Key(p)]]
           /\ Goto(p, "replay") /\ UNCHANGED answer
  <2>1. Key(p) \in Keys
    BY <1>2, DecisionTypes DEF Key, Request
  <2>2. TxOK(rows[Key(p)]) /\ rows[Key(p)].request.wallet \in Wallets
    BY <1>6, <2>1 DEF WellFormed, RowsOK
  <2>3. TypeOK'
    BY <1>1, <1>3, <1>6, <2>2 DEF TypeOK, Goto, TxOK
  <2>4. WellFormed'
    BY <1>1, <1>3, <1>6, <2>2, LocalStep DEF Goto
  <2> QED BY <2>3, <2>4
<1> QED BY <1>4, <1>5, <1>6 DEF LookUp

\* A replay returns the ledger balance or goes on to read the current one.
LEMMA ReplayType ==
  ASSUME TypeInv, NEW p \in Procs, Replay(p)
  PROVE  TypeInv'
<1> USE DEF TypeInv
<1>1. /\ UNCHANGED <<rows, wallets, ledger, outbox, attempts, backoff, old>>
      /\ UNCHANGED <<holder, sharers, rowLock, tx, loaded, entry, due, failures>>
  BY DEF Replay, book, schedule, locks, memory
<1>2. Busy(p) /\ TxOK(tx[p]) /\ WalletOf(p) \in Wallets
  BY DEF Replay, WellFormed, Busy, Checked
<1>3. {"done", "next", "current"} \subseteq Labels
  BY DEF Labels
<1>4. /\ answer' \in [Submitters -> Answer]
      /\ \E l \in {"done", "next", "current"} : Goto(p, l)
  <2>1. CASE ~HasLedgerEntry(Key(p)) /\ Goto(p, "current") /\ UNCHANGED answer
    BY <2>1 DEF TypeOK
  <2>2. CASE \E w \in Wallets : \E i \in DOMAIN ledger[w] :
               Succeed(p, "replay", ledger[w][i].after)
    <3>0. PICK w \in Wallets : \E i \in DOMAIN ledger[w] :
            Succeed(p, "replay", ledger[w][i].after)
      BY <2>2
    <3>1. PICK i \in DOMAIN ledger[w] : Succeed(p, "replay", ledger[w][i].after)
      BY <3>0
    <3>2. ledger[w] \in Seq(LedgerEntry)
      BY DEF TypeOK
    <3>3. ledger[w][i] \in LedgerEntry
      BY <3>2
    <3>4. ledger[w][i].after \in Int
      BY <3>3, DomainAssumption DEF LedgerEntry
    <3> QED BY <1>2, <3>1, <3>4, SucceedType DEF Outcomes
  <2> QED BY <2>1, <2>2 DEF Replay
<1>5. TypeOK'
  BY <1>1, <1>3, <1>4 DEF TypeOK, Goto
<1>6. WellFormed'
  BY <1>1, <1>2, <1>3, <1>4, GotoStep
<1> QED BY <1>5, <1>6

\* The balance that is read is one that is stored.
LEMMA ReadBalanceType ==
  ASSUME TypeInv, NEW p \in Procs, ReadBalance(p)
  PROVE  TypeInv'
<1> USE DEF TypeInv
<1>1. /\ UNCHANGED <<rows, wallets, ledger, outbox, attempts, backoff, old>>
      /\ UNCHANGED <<holder, sharers, rowLock, tx, loaded, entry, due, failures>>
  BY DEF ReadBalance, book, schedule, locks, memory
<1>2. Busy(p) /\ TxOK(tx[p]) /\ WalletOf(p) \in Wallets
  BY DEF ReadBalance, WellFormed, Busy, Checked
<1>3. wallets[WalletOf(p)].balance \in Int
  BY <1>2, DomainAssumption DEF TypeOK, Wallet
<1>4. /\ answer' \in [Submitters -> Answer]
      /\ \E l \in {"done", "next"} : Goto(p, l)
  BY <1>2, <1>3, SucceedType DEF ReadBalance, Outcomes
<1>5. {"done", "next"} \subseteq Labels
  BY DEF Labels
<1>6. TypeOK'
  BY <1>1, <1>4, <1>5 DEF TypeOK, Goto
<1>7. WellFormed'
  BY <1>1, <1>2, <1>4, <1>5, GotoStep
<1> QED BY <1>6, <1>7

\* A reversal is parked, rejected, or goes on under the rules of its reference.
LEMMA ProcessReversalType ==
  ASSUME TypeInv, NEW p \in Procs, ProcessReversal(p)
  PROVE  TypeInv'
<1> USE DEF TypeInv
<1>1. /\ UNCHANGED <<rows, wallets, ledger, outbox, attempts, backoff, old>>
      /\ UNCHANGED <<holder, sharers, rowLock, loaded, entry, due, answer, failures>>
  BY DEF ProcessReversal, book, schedule, locks, memory
<1>2. Busy(p) /\ TxOK(tx[p]) /\ (p \in Resolvers => WalletOf(p) \in Wallets)
  BY DEF ProcessReversal, WellFormed, Busy
<1>3. tx[p].request.reference \in Keys
  BY <1>2, DecisionTypes DEF ProcessReversal
<1>4. \E l \in {"reschedule", "saveEvent", "lock"} :
        \E t : /\ Goto(p, l) /\ tx' = [tx EXCEPT ![p] = t]
               /\ TxOK(t) /\ t.request = tx[p].request
               /\ l = "lock" => t.request.kind # "LOSS"
  <2>1. "INVALID_REFERENCE" \in FailureCodes
    BY DEF FailureCodes
  <2>2. /\ TxOK(MarkPendingReference(tx[p]))
        /\ MarkPendingReference(tx[p]).request = tx[p].request
    BY <1>2, DecisionTypes DEF MarkPendingReference, TxOK, Transaction
  <2>3. /\ TxOK(MarkRejected(tx[p], "INVALID_REFERENCE"))
        /\ MarkRejected(tx[p], "INVALID_REFERENCE").request = tx[p].request
    BY <1>2, <2>1, DecisionTypes DEF MarkRejected, TxOK, Transaction
  <2>4. /\ TxOK(ResolveReference(tx[p], tx[p].request.reference))
        /\ ResolveReference(tx[p], tx[p].request.reference).request = tx[p].request
    BY <1>2, <1>3, DecisionTypes DEF ResolveReference, TxOK, Transaction
  <2>5. tx[p].request.kind # "LOSS"
    BY DEF ProcessReversal, IsReversal
  <2> QED BY <2>2, <2>3, <2>4, <2>5 DEF ProcessReversal
<1>4a. PICK l \in {"reschedule", "saveEvent", "lock"} :
        \E t : /\ Goto(p, l) /\ tx' = [tx EXCEPT ![p] = t]
               /\ TxOK(t) /\ t.request = tx[p].request
               /\ l = "lock" => t.request.kind # "LOSS"
  BY <1>4
<1>5. PICK t : /\ Goto(p, l) /\ tx' = [tx EXCEPT ![p] = t]
               /\ TxOK(t) /\ t.request = tx[p].request
               /\ l = "lock" => t.request.kind # "LOSS"
  BY <1>4a
<1>6. l \in Labels /\ l \notin Checked
  BY DEF Labels, Checked
<1>7. TypeOK'
  BY <1>1, <1>5, <1>6 DEF TypeOK, Goto, TxOK
<1>8. WellFormed'
  BY <1>1, <1>2, <1>5, <1>6, LocalStep DEF Goto, WalletOf
<1> QED BY <1>7, <1>8

\* A movement without reference goes on to the lock.
LEMMA ProcessMovementType ==
  ASSUME TypeInv, NEW p \in Procs, ProcessMovement(p)
  PROVE  TypeInv'
<1> USE DEF TypeInv
<1>1. /\ UNCHANGED <<rows, wallets, ledger, outbox, attempts, backoff, old>>
      /\ UNCHANGED <<holder, sharers, rowLock, tx, loaded, entry, due, answer,
                     failures>>
  BY DEF ProcessMovement, book, schedule, locks, memory
<1>2. Busy(p) /\ Goto(p, "lock")
  BY DEF ProcessMovement, Busy
<1>3. /\ "lock" \in Labels /\ "lock" \notin Checked
      /\ tx[p].request.kind # "LOSS"
  BY DEF Labels, Checked, ProcessMovement
<1>4. TypeOK'
  BY <1>1, <1>2, <1>3 DEF TypeOK, Goto
<1>5. WellFormed'
  BY <1>1, <1>2, <1>3, GotoStep
<1> QED BY <1>4, <1>5

\* A loss is decided without touching the wallet.
LEMMA ProcessLossType ==
  ASSUME TypeInv, NEW p \in Procs, ProcessLoss(p)
  PROVE  TypeInv'
<1> USE DEF TypeInv
<1>1. failures' \in 0..MaxFailures
  BY DEF ProcessLoss, TypeOK
<1>2. CASE \E o \in {"ErrWalletNotFound", "money"} : Return(p, o)
  BY <1>1, <1>2, ReturnType DEF Outcomes
<1>3. CASE /\ WalletOf(p) \in Wallets
           /\ tx' = [tx EXCEPT ![p] = MarkProcessed(@)]
           /\ Goto(p, "saveEvent")
           /\ UNCHANGED <<book, schedule, locks, memory, due, answer>>
  <2>1. /\ UNCHANGED <<rows, wallets, ledger, outbox, attempts, backoff, old>>
        /\ UNCHANGED <<holder, sharers, rowLock, loaded, entry, due, answer>>
    BY <1>3 DEF book, schedule, locks, memory
  <2>2. TxOK(tx[p])
    BY DEF ProcessLoss, WellFormed, Busy
  <2>3. /\ TxOK(MarkProcessed(tx[p]))
        /\ MarkProcessed(tx[p]).request = tx[p].request
    BY <2>2, DecisionTypes DEF MarkProcessed, TxOK, Transaction
  <2>4. "saveEvent" \in Labels /\ "saveEvent" \notin Checked
    BY DEF Labels, Checked
  <2>5. tx' = [tx EXCEPT ![p] = MarkProcessed(tx[p])]
    BY <1>3
  <2>6. TypeOK'
    BY <1>1, <1>3, <2>1, <2>3, <2>4, <2>5 DEF TypeOK, Goto, TxOK
  <2>7. WellFormed'
    BY <1>3, <2>1, <2>3, <2>4, <2>5, LocalStep DEF Goto, WalletOf
  <2> QED BY <2>6, <2>7
<1> QED BY <1>2, <1>3 DEF ProcessLoss

\* The copy under the lock is a stored wallet.
LEMMA LockWalletType ==
  ASSUME TypeInv, NEW p \in Procs, LockWallet(p)
  PROVE  TypeInv'
<1> USE DEF TypeInv
<1>1. failures' \in 0..MaxFailures
  BY DEF LockWallet, TypeOK
<1>2. CASE Return(p, "ErrWalletNotFound")
  BY <1>1, <1>2, ReturnType DEF Outcomes
<1>3. CASE /\ WalletOf(p) \in Wallets
           /\ holder' = [holder EXCEPT ![WalletOf(p)] = p]
           /\ loaded' = [loaded EXCEPT ![p] = wallets[WalletOf(p)]]
           /\ Goto(p, "decide")
           /\ UNCHANGED <<book, schedule, sharers, rowLock, tx, entry, due, answer>>
  <2>1. Busy(p) /\ tx[p].request.kind # "LOSS"
    BY DEF LockWallet, Busy, WellFormed
  <2>2. "decide" \in Labels
    BY DEF Labels
  <2>3. /\ UNCHANGED <<rows, wallets, ledger, outbox, attempts, backoff, old>>
        /\ UNCHANGED <<sharers, rowLock, tx, entry, due, answer>>
    BY <1>3 DEF book, schedule
  <2>4. TypeOK'
    BY <1>1, <1>3, <2>2, <2>3 DEF TypeOK, Goto
  <2>5. WellFormed'
    BY <1>3, <2>1, <2>2, <2>3, GotoStep
  <2> QED BY <2>4, <2>5
<1> QED BY <1>2, <1>3 DEF LockWallet

\* A movement that was neither refused nor overflows leaves a balance in range.
LEMMA BalanceInRange ==
  ASSUME NEW before \in 0..MaxMoney, NEW d \in Directions,
         NEW amount \in Nat, ~Overflows(before, d, amount),
         ~Insufficient(before, d, amount)
  PROVE  BalanceAfter(before, d, amount) \in 0..MaxMoney
BY DomainAssumption
DEF Overflows, Insufficient, BalanceAfter, Directions

\* What is decided under the lock keeps the balance in range.
LEMMA DecideType ==
  ASSUME TypeInv, NEW p \in Procs, Decide(p)
  PROVE  TypeInv'
<1> USE DEF TypeInv
<1> DEFINE amount == tx[p].request.amount
           before == loaded[p].balance
           d == Direction(tx[p])
           after == BalanceAfter(before, d, amount)
<1>1. failures' \in 0..MaxFailures
  BY DEF Decide, TypeOK
<1>2. Busy(p) /\ TxOK(tx[p]) /\ WalletOf(p) \in Wallets
  BY DEF Decide, WellFormed, Busy, Checked
<1>2a. tx[p].request.kind # "LOSS"
  BY DEF Decide, WellFormed
<1>3. "save" \in Labels
  BY DEF Labels
<1>4. CASE Return(p, "money")
  BY <1>1, <1>4, ReturnType DEF Outcomes
<1>5. CASE \E code \in FailureCodes :
             /\ tx' = [tx EXCEPT ![p] = MarkRejected(tx[p], code)]
             /\ Goto(p, "save")
             /\ UNCHANGED <<book, schedule, locks, memory, due, answer>>
  <2>1. PICK code \in FailureCodes :
             /\ tx' = [tx EXCEPT ![p] = MarkRejected(tx[p], code)]
             /\ Goto(p, "save")
             /\ UNCHANGED <<book, schedule, locks, memory, due, answer>>
    BY <1>5
  <2>2. /\ TxOK(MarkRejected(tx[p], code))
        /\ MarkRejected(tx[p], code).request = tx[p].request
    BY <1>2, DecisionTypes DEF MarkRejected, TxOK, Transaction
  <2>3. /\ UNCHANGED <<rows, wallets, ledger, outbox, attempts, backoff, old>>
        /\ UNCHANGED <<holder, sharers, rowLock, loaded, entry, due, answer>>
    BY <2>1 DEF book, schedule, locks, memory
  <2>4. TypeOK'
    BY <1>1, <1>3, <2>1, <2>2, <2>3 DEF TypeOK, Goto, TxOK
  <2>5. WellFormed'
    BY <1>2, <1>3, <2>1, <2>2, <2>3, LocalStep DEF Goto, WalletOf
  <2> QED BY <2>4, <2>5
<1>6. CASE /\ ~Overflows(before, d, amount) /\ ~Insufficient(before, d, amount)
           /\ tx' = [tx EXCEPT ![p] = MarkProcessed(tx[p])]
           /\ loaded' = [loaded EXCEPT ![p] =
                [balance |-> after, version |-> @.version + 1]]
           /\ entry' = [entry EXCEPT ![p] =
                [key |-> Key(p), direction |-> d, amount |-> amount,
                 before |-> before, after |-> after]]
           /\ Goto(p, "save")
           /\ UNCHANGED <<book, schedule, locks, due, answer>>
  <2>1. /\ amount \in Nat /\ Key(p) \in Keys /\ d \in Directions
    BY <1>2, <1>2a, DecisionTypes
    DEF Key, Request, Direction, MovementDirection, Directions
  <2>2. before \in 0..MaxMoney /\ loaded[p].version \in Nat
    BY DEF TypeOK, Wallet
  <2>3. after \in 0..MaxMoney
    BY <1>6, <2>1, <2>2, BalanceInRange
  <2>4. /\ TxOK(MarkProcessed(tx[p]))
        /\ MarkProcessed(tx[p]).request = tx[p].request
    BY <1>2, DecisionTypes DEF MarkProcessed, TxOK, Transaction
  <2>5. /\ UNCHANGED <<rows, wallets, ledger, outbox, attempts, backoff, old>>
        /\ UNCHANGED <<holder, sharers, rowLock, due, answer>>
    BY <1>6 DEF book, schedule, locks
  <2>6. loaded' \in [Procs -> Wallet]
    <3>1. [balance |-> after, version |-> loaded[p].version + 1] \in Wallet
      BY <2>2, <2>3 DEF Wallet
    <3> HIDE DEF after
    <3> QED BY <1>6, <3>1 DEF TypeOK
  <2>7. entry' \in [Procs -> LedgerEntry]
    <3>1. [key |-> Key(p), direction |-> d, amount |-> amount,
           before |-> before, after |-> after] \in LedgerEntry
      <4> HIDE DEF after, before, d, amount
      <4> QED BY <2>1, <2>2, <2>3 DEF LedgerEntry
    <3> HIDE DEF after, before, d, amount
    <3> QED BY <1>6, <3>1 DEF TypeOK
  <2> HIDE DEF after, before, d, amount
  <2>8. TypeOK'
    BY <1>1, <1>3, <1>6, <2>4, <2>5, <2>6, <2>7 DEF TypeOK, Goto, TxOK
  <2>9. WellFormed'
    BY <1>2, <1>3, <1>6, <2>4, <2>5, LocalStep DEF Goto, WalletOf
  <2> QED BY <2>8, <2>9
<1>7. /\ "DUPLICATE_REVERSAL" \in FailureCodes
      /\ InsufficientCode(tx[p].request.kind) \in FailureCodes
  BY DEF InsufficientCode, FailureCodes
<1> QED BY <1>4, <1>5, <1>6, <1>7 DEF Decide

\* The upsert locks the row of the transaction's own key.
LEMMA SaveWagerType ==
  ASSUME TypeInv, NEW p \in Procs,
         NEW label \in {"save", "saveEvent"},
         NEW next \in {"commit", "share", "commitEvent"},
         next \in Checked => WalletOf(p) \in Wallets,
         SaveWager(p, label, next)
  PROVE  TypeInv'
<1> USE DEF TypeInv
<1>1. /\ UNCHANGED <<rows, wallets, ledger, outbox, attempts, backoff, old>>
      /\ UNCHANGED <<tx, loaded, entry, due, answer, failures>>
  BY DEF SaveWager, book, schedule, memory
<1>2. Busy(p) /\ Key(p) \in Keys
  <2>1. Busy(p)
    BY DEF SaveWager, Busy
  <2> QED BY <2>1, DecisionTypes DEF WellFormed, Key, Request
<1>3. {"winner", "commit", "share", "commitEvent"} \subseteq Labels
  BY DEF Labels
<1>4. CASE Release(p) /\ Goto(p, "winner")
  <2>1. TypeOK'
    BY <1>1, <1>3, <1>4, ReleaseType DEF TypeOK, Goto
  <2>2. WellFormed'
    BY <1>1, <1>2, <1>3, <1>4, GotoStep DEF Checked
  <2> QED BY <2>1, <2>2
<1>5. CASE /\ rowLock' = [rowLock EXCEPT ![Key(p)] = p]
           /\ Goto(p, next) /\ UNCHANGED <<holder, sharers>>
  <2>1. TypeOK'
    BY <1>1, <1>2, <1>3, <1>5 DEF TypeOK, Goto
  <2>2. WellFormed'
    BY <1>1, <1>2, <1>3, <1>5, GotoStep
  <2> QED BY <2>1, <2>2
<1> QED BY <1>4, <1>5 DEF SaveWager

\* The same for a movement.
LEMMA SaveMovementType ==
  ASSUME TypeInv, NEW p \in Procs, SaveMovement(p)
  PROVE  TypeInv'
<1>1. WalletOf(p) \in Wallets
  BY DEF SaveMovement, SaveWager, TypeInv, WellFormed, Busy, Checked
<1> QED BY <1>1, SaveWagerType DEF SaveMovement

\* The same for a transaction that moves nothing.
LEMMA SaveEventType ==
  ASSUME TypeInv, NEW p \in Procs, SaveEvent(p)
  PROVE  TypeInv'
<1> DEFINE next == IF p \in Submitters THEN "share" ELSE "commitEvent"
<1>1. next \in {"commit", "share", "commitEvent"}
  OBVIOUS
<1>2. next \in Checked => WalletOf(p) \in Wallets
  <2>1. CASE p \in Submitters
    BY <2>1 DEF Checked
  <2>2. CASE p \in Resolvers
    BY <2>2 DEF SaveEvent, SaveWager, TypeInv, WellFormed, Busy
  <2> QED BY <2>1, <2>2 DEF Procs
<1>3. SaveWager(p, "saveEvent", next)
  BY DEF SaveEvent
<1> HIDE DEF next
<1> QED BY <1>1, <1>2, <1>3, SaveWagerType

\* KEY SHARE is taken on a wallet that exists.
LEMMA ShareWalletType ==
  ASSUME TypeInv, NEW p \in Procs, ShareWallet(p)
  PROVE  TypeInv'
<1> USE DEF TypeInv
<1>1. failures' \in 0..MaxFailures
  BY DEF ShareWallet, TypeOK
<1>2. CASE Return(p, "ErrWalletNotFound")
  BY <1>1, <1>2, ReturnType DEF Outcomes
<1>3. CASE /\ WalletOf(p) \in Wallets
           /\ sharers' = [sharers EXCEPT ![WalletOf(p)] = @ \cup {p}]
           /\ Goto(p, "commitEvent")
           /\ UNCHANGED <<book, schedule, holder, rowLock, tx, memory, due, answer>>
  <2>1. Busy(p)
    BY DEF ShareWallet, Busy
  <2>2. "commitEvent" \in Labels
    BY DEF Labels
  <2>3. /\ UNCHANGED <<rows, wallets, ledger, outbox, attempts, backoff, old>>
        /\ UNCHANGED <<holder, rowLock, tx, loaded, entry, due, answer>>
    BY <1>3 DEF book, schedule, memory
  <2>4. TypeOK'
    BY <1>1, <1>3, <2>2, <2>3 DEF TypeOK, Goto
  <2>5. WellFormed'
    BY <1>3, <2>1, <2>2, <2>3, GotoStep
  <2> QED BY <2>4, <2>5
<1> QED BY <1>2, <1>3 DEF ShareWallet

\* What a commit makes visible is well formed.
LEMMA PersistType ==
  ASSUME TypeInv, NEW p \in Procs, Persist(p), TxOK(tx[p]), WalletOf(p) \in Wallets
  PROVE  /\ rows' \in [Keys -> Transaction \cup {NoTx}]
         /\ wallets' \in [Wallets -> Wallet]
         /\ ledger' \in [Wallets -> Seq(LedgerEntry)]
         /\ outbox' \in [Keys -> Seq(EventTypes)]
         /\ RowsOK'
<1> USE DEF TypeInv
<1>1. Key(p) \in Keys
  BY DecisionTypes DEF Key, Request
<1>2. rows' = [rows EXCEPT ![Key(p)] = tx[p]]
  BY DEF Persist
<1>3. rows' \in [Keys -> Transaction \cup {NoTx}]
  BY <1>2 DEF TypeOK, TxOK
<1>4. RowsOK'
  BY <1>1, <1>2 DEF TypeOK, WellFormed, RowsOK, Key, WalletOf
<1>5. outbox' \in [Keys -> Seq(EventTypes)]
  <2>1. EventsOf(tx[p]) \in Seq(EventTypes)
    BY EventsType
  <2>2. outbox[Key(p)] \in Seq(EventTypes)
    BY <1>1 DEF TypeOK
  <2>3. outbox[Key(p)] \o EventsOf(tx[p]) \in Seq(EventTypes)
    BY <2>1, <2>2
  <2>4. outbox' = [outbox EXCEPT ![Key(p)] = outbox[Key(p)] \o EventsOf(tx[p])]
    BY DEF Persist
  <2> QED BY <2>3, <2>4 DEF TypeOK
<1>6. wallets' \in [Wallets -> Wallet] /\ ledger' \in [Wallets -> Seq(LedgerEntry)]
  <2>1. CASE UNCHANGED <<wallets, ledger>>
    BY <2>1 DEF TypeOK
  <2>2. CASE /\ wallets' = [wallets EXCEPT ![WalletOf(p)] = loaded[p]]
             /\ ledger' = [ledger EXCEPT ![WalletOf(p)] = Append(@, entry[p])]
    <3>1. Append(ledger[WalletOf(p)], entry[p]) \in Seq(LedgerEntry)
      BY DEF TypeOK
    <3> QED BY <2>2, <3>1 DEF TypeOK
  <2> QED BY <2>1, <2>2 DEF Persist
<1> QED BY <1>3, <1>4, <1>5, <1>6

\* The commit stores a row, a balance in range and an entry.
LEMMA CommitMovementType ==
  ASSUME TypeInv, NEW p \in Procs, CommitMovement(p)
  PROVE  TypeInv'
<1> USE DEF TypeInv
<1>1. failures' \in 0..MaxFailures
  BY DEF CommitMovement, TypeOK
<1>2. CASE Return(p, "duplicate_ledger_entry")
  BY <1>1, <1>2, ReturnType DEF Outcomes
<1>3. CASE /\ Persist(p) /\ Release(p)
           /\ Succeed(p, "fresh", loaded[p].balance)
           /\ UNCHANGED <<schedule, tx, memory, due>>
  <2>1. UNCHANGED <<attempts, backoff, old, tx, loaded, entry, due>>
    BY <1>3 DEF schedule, memory
  <2>2. Busy(p) /\ TxOK(tx[p]) /\ WalletOf(p) \in Wallets
    BY DEF CommitMovement, WellFormed, Busy, Checked
  <2>3. loaded[p].balance \in Int
    BY DomainAssumption DEF TypeOK, Wallet
  <2>4. /\ answer' \in [Submitters -> Answer]
        /\ \E l \in {"done", "next"} : Goto(p, l)
    BY <1>3, <2>2, <2>3, SucceedType DEF Outcomes
  <2>5. {"done", "next"} \subseteq Labels
    BY DEF Labels
  <2>6. TypeOK'
    BY <1>1, <1>3, <2>1, <2>2, <2>4, <2>5, PersistType, ReleaseType
    DEF TypeOK, Goto
  <2>7. RowsOK'
    BY <1>3, <2>2, PersistType
  <2>8. WellFormed'
    BY <2>1, <2>4, <2>5, <2>7, GotoStep
  <2> QED BY <2>6, <2>8
<1> QED BY <1>2, <1>3 DEF CommitMovement

\* The commit of a decision without movement stores the row alone.
LEMMA CommitEventType ==
  ASSUME TypeInv, NEW p \in Procs, CommitEvent(p)
  PROVE  TypeInv'
<1> USE DEF TypeInv
<1>1. /\ UNCHANGED <<attempts, backoff, old, tx, loaded, entry, due, answer, failures>>
      /\ Persist(p) /\ Release(p) /\ Goto(p, "balance")
  BY DEF CommitEvent, schedule, memory
<1>2. Busy(p) /\ TxOK(tx[p]) /\ WalletOf(p) \in Wallets
  BY DEF CommitEvent, WellFormed, Busy, Checked
<1>3. "balance" \in Labels
  BY DEF Labels
<1>4. TypeOK'
  BY <1>1, <1>2, <1>3, PersistType, ReleaseType DEF TypeOK, Goto
<1>5. RowsOK'
  BY <1>1, <1>2, PersistType
<1>6. WellFormed'
  BY <1>1, <1>2, <1>3, <1>5, GotoStep
<1> QED BY <1>4, <1>6

\* A batch is made of parked rows.
LEMMA FindDueType ==
  ASSUME TypeInv, NEW r \in Procs, FindDue(r)
  PROVE  TypeInv'
<1> USE DEF TypeInv
<1> DEFINE batch ==
      {[tx |-> rows[k], attempts |-> attempts[k], old |-> k \in old] :
         k \in {j \in Keys : /\ rows[j].status = "PENDING_REFERENCE"
                             /\ j \notin backoff}}
<1>1. /\ UNCHANGED <<rows, wallets, ledger, outbox, attempts, backoff, old>>
      /\ UNCHANGED <<holder, sharers, rowLock, tx, loaded, entry, answer, failures>>
      /\ due' = [due EXCEPT ![r] = batch] /\ Goto(r, "next")
  BY DEF FindDue, book, schedule, locks, memory
<1>2. \A item \in batch :
        item \in Retry /\ TxOK(item.tx) /\ item.tx.request.wallet \in Wallets
  <2>1. SUFFICES ASSUME NEW k \in Keys, rows[k].status = "PENDING_REFERENCE"
                 PROVE  /\ [tx |-> rows[k], attempts |-> attempts[k],
                            old |-> k \in old] \in Retry
                        /\ TxOK(rows[k]) /\ rows[k].request.wallet \in Wallets
    OBVIOUS
  <2>2. rows[k] # NoTx
    BY <2>1 DEF NoTx
  <2>3. TxOK(rows[k]) /\ rows[k].request.wallet \in Wallets
    BY <2>2 DEF WellFormed, RowsOK
  <2>4. attempts[k] \in Nat /\ (k \in old) \in BOOLEAN
    BY DEF TypeOK
  <2> QED BY <2>3, <2>4 DEF Retry, TxOK
<1> HIDE DEF batch
<1>3. TypeOK'
  BY <1>1, <1>2 DEF TypeOK, Goto, Labels
<1>4. \A q \in Procs : Busy(q)' => Busy(q)
  BY <1>1 DEF Busy, Goto, TypeOK
<1>5. WellFormed'
  <2>1. \A q \in Procs : \A item \in due'[q] :
          TxOK(item.tx) /\ item.tx.request.wallet \in Wallets
    BY <1>1, <1>2 DEF TypeOK, WellFormed
  <2>2. \A q \in Procs : pc'[q] = pc[q] \/ pc'[q] = "next"
    BY <1>1 DEF TypeOK, Goto
  <2> QED BY <1>1, <2>1, <2>2 DEF WellFormed, RowsOK, Busy, WalletOf, Checked
<1> QED BY <1>3, <1>5

\* An item of the batch is expired or processed as it was read.
LEMMA ResolveOneType ==
  ASSUME TypeInv, NEW r \in Procs, ResolveOne(r)
  PROVE  TypeInv'
<1> USE DEF TypeInv
<1>1. /\ UNCHANGED <<rows, wallets, ledger, outbox, attempts, backoff, old>>
      /\ UNCHANGED <<holder, sharers, rowLock, loaded, entry, answer, failures>>
  BY DEF ResolveOne, book, schedule, locks, memory
<1>2. {"idle", "saveEvent", "process"} \subseteq Labels
  BY DEF Labels
<1>3. CASE Goto(r, "idle") /\ UNCHANGED <<tx, due>>
  <2>1. TypeOK'
    BY <1>1, <1>2, <1>3 DEF TypeOK, Goto
  <2>2. WellFormed'
    BY <1>1, <1>2, <1>3, GotoStep
  <2> QED BY <2>1, <2>2
<1>4. CASE \E item \in due[r] :
             /\ due' = [due EXCEPT ![r] = @ \ {item}]
             /\ \E l \in {"saveEvent", "process"} : Goto(r, l)
             /\ tx' \in {[tx EXCEPT ![r] = t] :
                           t \in {MarkRejected(item.tx, "REFERENCE_NOT_FOUND"),
                                  item.tx}}
  <2>1. PICK item \in due[r] :
             /\ due' = [due EXCEPT ![r] = @ \ {item}]
             /\ \E l \in {"saveEvent", "process"} : Goto(r, l)
             /\ tx' \in {[tx EXCEPT ![r] = t] :
                           t \in {MarkRejected(item.tx, "REFERENCE_NOT_FOUND"),
                                  item.tx}}
    BY <1>4
  <2>2. PICK l \in {"saveEvent", "process"} : Goto(r, l)
    BY <2>1
  <2>3. PICK t \in {MarkRejected(item.tx, "REFERENCE_NOT_FOUND"), item.tx} :
          tx' = [tx EXCEPT ![r] = t]
    BY <2>1
  <2>4. TxOK(item.tx) /\ item.tx.request.wallet \in Wallets
    BY DEF WellFormed
  <2>5. TxOK(t) /\ t.request = item.tx.request
    <3>1. "REFERENCE_NOT_FOUND" \in FailureCodes
      BY DEF FailureCodes
    <3>2. MarkRejected(item.tx, "REFERENCE_NOT_FOUND").request = item.tx.request
      BY <2>4 DEF MarkRejected, TxOK, Transaction
    <3> QED BY <2>4, <3>1, <3>2, DecisionTypes
  <2>6. \A q \in Procs : due'[q] \subseteq due[q]
    BY <2>1 DEF TypeOK
  <2>7. TypeOK'
    BY <1>1, <1>2, <2>1, <2>2, <2>3, <2>5, <2>6 DEF TypeOK, Goto, TxOK
  <2>8. WellFormed'
    BY <1>1, <1>2, <2>2, <2>3, <2>4, <2>5, <2>6, LocalStep DEF Goto
  <2> QED BY <2>7, <2>8
<1> QED BY <1>3, <1>4 DEF ResolveOne

\* Rescheduling changes the retry columns only.
LEMMA RescheduleType ==
  ASSUME TypeInv, NEW r \in Procs, Reschedule(r)
  PROVE  TypeInv'
<1> USE DEF TypeInv
<1>1. /\ UNCHANGED <<rows, wallets, ledger, outbox, old>>
      /\ UNCHANGED <<holder, sharers, rowLock, tx, loaded, entry, due, answer,
                     failures>>
      /\ Goto(r, "next")
  BY DEF Reschedule, book, locks, memory
<1>2. Key(r) \in Keys
  <2>1. Busy(r)
    BY DEF Reschedule, Busy
  <2> QED BY <2>1, DecisionTypes DEF WellFormed, Key, Request
<1>3. attempts' \in [Keys -> Nat] /\ backoff' \subseteq Keys
  <2>1. CASE UNCHANGED <<attempts, backoff>>
    BY <2>1 DEF TypeOK
  <2>2. CASE /\ attempts' = [attempts EXCEPT ![Key(r)] = @ + 1]
             /\ backoff' = backoff \cup {Key(r)}
    BY <1>2, <2>2 DEF TypeOK
  <2> QED BY <2>1, <2>2 DEF Reschedule
<1>4. TypeOK'
  BY <1>1, <1>3 DEF TypeOK, Goto, Labels
<1>5. WellFormed'
  BY <1>1, GotoStep DEF Labels
<1> QED BY <1>4, <1>5

\* A failed call rolls back.
LEMMA FailType ==
  ASSUME TypeInv, NEW p \in Procs, Fail(p) \/ DeadlockVictim(p)
  PROVE  TypeInv'
<1>1. failures' \in 0..MaxFailures
  BY SubmitAssumption DEF Fail, DeadlockVictim, TypeInv, TypeOK
<1>2. \E o \in Outcomes : Return(p, o)
  BY DEF Fail, DeadlockVictim, Outcomes
<1> QED BY <1>1, <1>2, ReturnType

\* A lost reply differs from a commit only in the answer.
LEMMA LoseCommitReplyType ==
  ASSUME TypeInv, NEW p \in Procs, LoseCommitReply(p)
  PROVE  TypeInv'
<1> USE DEF TypeInv
<1>1. /\ UNCHANGED <<attempts, backoff, old, tx, loaded, entry>>
      /\ Persist(p) /\ Release(p)
  BY DEF LoseCommitReply, schedule, memory
<1>2. TxOK(tx[p]) /\ WalletOf(p) \in Wallets
  BY DEF LoseCommitReply, WellFormed, Busy, Checked
<1>3. failures' \in 0..MaxFailures
  BY SubmitAssumption DEF LoseCommitReply, TypeOK
<1>4. /\ \E l \in {"done", "idle"} : Goto(p, l)
      /\ answer' \in [Submitters -> Answer]
      /\ due' \in [Procs -> SUBSET Retry]
      /\ \A q \in Procs : due'[q] \subseteq due[q]
  <2>1. CASE p \in Submitters
    <3>1. Goto(p, "done") /\ Reply(p, "unavailable", "ABSENT", 0) /\ due' = due
      BY <2>1 DEF LoseCommitReply
    <3>2. answer' \in [Submitters -> Answer]
      BY <3>1, ReplyType DEF Outcomes
    <3> QED BY <3>1, <3>2 DEF TypeOK
  <2>2. CASE p \notin Submitters
    BY <2>2 DEF LoseCommitReply, TypeOK
  <2> QED BY <2>1, <2>2
<1>5. {"done", "idle"} \subseteq Labels
  BY DEF Labels
<1>6. TypeOK'
  <2>1. /\ rows' \in [Keys -> Transaction \cup {NoTx}]
        /\ wallets' \in [Wallets -> Wallet]
        /\ ledger' \in [Wallets -> Seq(LedgerEntry)]
        /\ outbox' \in [Keys -> Seq(EventTypes)]
    BY <1>1, <1>2, PersistType
  <2>2. /\ holder' \in [Wallets -> Procs \cup {NoProc}]
        /\ sharers' \in [Wallets -> SUBSET Procs]
        /\ rowLock' \in [Keys -> Procs \cup {NoProc}]
    BY <1>1, ReleaseType
  <2>3. pc' \in [Procs -> Labels]
    BY <1>4, <1>5 DEF TypeOK, Goto
  <2> QED BY <1>1, <1>3, <1>4, <2>1, <2>2, <2>3 DEF TypeOK
<1>7. RowsOK'
  BY <1>1, <1>2, PersistType
<1>8. WellFormed'
  <2>1. PICK l \in {"done", "idle"} : Goto(p, l)
    BY <1>4
  <2>2. l \in Labels /\ l \notin {"lock", "decide"}
    BY <1>5
  <2>3. TypeInv /\ tx' = tx
    BY <1>1
  <2> HIDE DEF TypeInv
  <2> QED BY <2>1, <2>2, <2>3, <1>4, <1>7, GotoStep
<1> QED BY <1>6, <1>8

\* Time changes what is due, and nothing else.
LEMMA TimeType ==
  ASSUME TypeInv, NEW k \in Keys, RetryDue(k) \/ Expire(k)
  PROVE  TypeInv'
<1>1. /\ UNCHANGED <<rows, wallets, ledger, outbox, attempts, holder, sharers,
                     rowLock, pc, tx, loaded, entry, due, answer, failures>>
      /\ backoff' \subseteq Keys /\ old' \subseteq Keys
  BY DEF RetryDue, Expire, TypeInv, TypeOK, book, locks, memory
<1> QED BY <1>1 DEF TypeInv, TypeOK, WellFormed, RowsOK, Busy, WalletOf, Checked

\* Each step keeps the types.
LEMMA NextType == ASSUME TypeInv, [Next]_vars PROVE TypeInv'
<1>1. CASE UNCHANGED vars
  BY <1>1 DEF vars, book, schedule, locks, memory, TypeInv, TypeOK, WellFormed,
              RowsOK, Busy, WalletOf, Checked
<1>2. ASSUME NEW p \in Procs, NEW req \in Requests, Submit(p, req)
      PROVE  TypeInv'
  BY <1>2, SubmitType
<1>3. ASSUME NEW p \in Procs, Step(p)
      PROVE  TypeInv'
  BY <1>3, LookUpType, ReplayType, ReadBalanceType, ProcessReversalType,
     ProcessMovementType, ProcessLossType, LockWalletType, DecideType,
     SaveMovementType, CommitMovementType, SaveEventType, ShareWalletType,
     CommitEventType, FindDueType, ResolveOneType, RescheduleType
  DEF Step
<1>4. ASSUME NEW p \in Procs, DeadlockVictim(p) \/ Fail(p) \/ LoseCommitReply(p)
      PROVE  TypeInv'
  BY <1>4, FailType, LoseCommitReplyType
<1>5. ASSUME NEW k \in Keys, RetryDue(k) \/ Expire(k)
      PROVE  TypeInv'
  BY <1>5, TimeType
<1> QED BY <1>1, <1>2, <1>3, <1>4, <1>5 DEF Next

\* Type correctness: whatever the submitters, the resolvers, the failures and
\* the deadlock detector do, every row, wallet, ledger entry, event and answer
\* is one the program can write; above all, no balance leaves 0..MaxMoney.
THEOREM TypeCorrect == Spec => []TypeOK
<1>1. TypeInv => TypeOK
  BY DEF TypeInv
<1> QED BY <1>1, InitType, NextType, PTL DEF Spec

-----------------------------------------------------------------------------
\* The ledger and the fresh answers.  The chain of a wallet's entries always
\* ends in its balance, and no transaction has two entries: both rest on what
\* FOR UPDATE gives the process between its lock of a wallet and its commit.
\* No two callers are told that they have decided one key: that rests on the
\* lock of an uncommitted row of the key.

\* Between the lock of the wallet and the commit.
Inside == {"decide", "save", "commit"}

\* In or on the way into a transaction of saveWithEvent.
Aside == {"saveEvent", "share", "commitEvent"}

\* What p knows of its wallet while it holds the lock: it is the holder, its
\* copy is current, and the entry it has built continues the ledger.  Without
\* a movement it does not touch the wallet.
Mine(p) ==
  /\ pc[p] \in Inside => WalletOf(p) \in Wallets /\ holder[WalletOf(p)] = p
  /\ pc[p] = "decide" => loaded[p] = wallets[WalletOf(p)]
  /\ pc[p] \in {"save", "commit"} /\ Moves(tx[p]) =>
       /\ entry[p].key = Key(p)
       /\ entry[p].before = wallets[WalletOf(p)].balance
       /\ entry[p].after = loaded[p].balance
       /\ entry[p].after =
            BalanceAfter(entry[p].before, entry[p].direction, entry[p].amount)
  /\ pc[p] \in Aside => ~Moves(tx[p])

LockInv == \A p \in Procs : Mine(p)

\* LedgerChain, for one wallet of balance b.
Chain(entries, b) ==
  /\ b = IF Len(entries) = 0 THEN 0 ELSE entries[Len(entries)].after
  /\ \A i \in 1..Len(entries) :
       /\ entries[i].before = IF i - 1 = 0 THEN 0 ELSE entries[i - 1].after
       /\ entries[i].after = BalanceAfter(entries[i].before,
                               entries[i].direction, entries[i].amount)

LedgerInv == TypeInv /\ LockInv /\ LedgerChain /\ OneEntryPerTransaction

\* Nobody but p moves.
Others(p) ==
  \A q \in Procs : q # p =>
    /\ pc'[q] = pc[q] /\ tx'[q] = tx[q]
    /\ loaded'[q] = loaded[q] /\ entry'[q] = entry[q]

\* The chain of a wallet, said of its entries one by one.
LEMMA ChainIs ==
  LedgerChain <=> \A w \in Wallets : Chain(ledger[w], wallets[w].balance)
BY DEF LedgerChain, Chain

\* An entry that starts at the balance continues the chain.
LEMMA ChainAppend ==
  ASSUME NEW entries \in Seq(LedgerEntry), NEW b, Chain(entries, b),
         NEW e \in LedgerEntry, e.before = b,
         e.after = BalanceAfter(e.before, e.direction, e.amount)
  PROVE  Chain(Append(entries, e), e.after)
<1> DEFINE longer == Append(entries, e)
<1>1. /\ Len(entries) \in Nat /\ Len(longer) = Len(entries) + 1
      /\ longer[Len(entries) + 1] = e
      /\ \A i \in 1..Len(entries) : longer[i] = entries[i]
  OBVIOUS
<1> HIDE DEF longer
<1>2. \A i \in 1..Len(longer) :
        /\ longer[i].before = IF i - 1 = 0 THEN 0 ELSE longer[i - 1].after
        /\ longer[i].after = BalanceAfter(longer[i].before,
                               longer[i].direction, longer[i].amount)
  <2> SUFFICES ASSUME NEW i \in 1..Len(longer)
               PROVE  /\ longer[i].before =
                           IF i - 1 = 0 THEN 0 ELSE longer[i - 1].after
                      /\ longer[i].after = BalanceAfter(longer[i].before,
                                             longer[i].direction, longer[i].amount)
    OBVIOUS
  <2>1. CASE i = Len(entries) + 1
    <3>1. i - 1 = Len(entries)
      BY <1>1, <2>1
    <3>2. Len(entries) # 0 => longer[Len(entries)] = entries[Len(entries)]
      BY <1>1
    <3> QED BY <1>1, <2>1, <3>1, <3>2 DEF Chain
  <2>2. CASE i \in 1..Len(entries)
    <3>1. i - 1 # 0 => i - 1 \in 1..Len(entries)
      BY <1>1, <2>2
    <3> QED BY <1>1, <2>2, <3>1 DEF Chain
  <2> QED BY <1>1, <2>1, <2>2
<1>3. Len(longer) # 0 /\ longer[Len(longer)].after = e.after
  BY <1>1
<1> QED BY <1>2, <1>3 DEF Chain, longer

\* What a step of p has to keep of the others' knowledge: their locks and the
\* wallets that p has not locked.
LEMMA Frame ==
  ASSUME TypeInv, LockInv, NEW p \in Procs, Others(p), Mine(p)',
         \A w \in Wallets : holder[w] \in Procs \ {p} =>
           holder'[w] = holder[w] /\ wallets'[w] = wallets[w]
  PROVE  LockInv'
<1> SUFFICES ASSUME NEW q \in Procs PROVE Mine(q)'
  BY DEF LockInv
<1>1. CASE q = p
  BY <1>1
<1>2. CASE q # p
  <2>1. /\ pc'[q] = pc[q] /\ tx'[q] = tx[q]
        /\ loaded'[q] = loaded[q] /\ entry'[q] = entry[q]
    BY <1>2 DEF Others
  <2>2. Mine(q)
    BY DEF LockInv
  <2>3. WalletOf(q)' = WalletOf(q) /\ Key(q)' = Key(q)
    BY <2>1 DEF WalletOf, Key
  <2>4. pc[q] \in Inside =>
          /\ holder'[WalletOf(q)] = holder[WalletOf(q)]
          /\ wallets'[WalletOf(q)] = wallets[WalletOf(q)]
    BY <1>2, <2>2 DEF Mine
  <2> QED BY <2>1, <2>2, <2>3, <2>4 DEF Mine, Inside
<1> QED BY <1>1, <1>2

\* p gives back what it holds, and nothing else.
LEMMA ReleaseFrame ==
  ASSUME TypeInv, NEW p \in Procs, Release(p)
  PROVE  \A w \in Wallets : holder[w] \in Procs \ {p} => holder'[w] = holder[w]
BY DEF Release

\* A step that leaves wallets, ledger and locks alone and takes p out of both
\* kinds of transaction.
LEMMA Quiet ==
  ASSUME TypeInv, LockInv, NEW p \in Procs, NEW l, Goto(p, l),
         l \notin Inside \cup Aside,
         \A q \in Procs : q # p => tx'[q] = tx[q],
         loaded' = loaded, entry' = entry, wallets' = wallets,
         holder' = holder \/ Release(p)
  PROVE  LockInv'
<1>1. pc'[p] = l /\ \A q \in Procs : q # p => pc'[q] = pc[q]
  BY DEF Goto, TypeInv, TypeOK
<1>2. Others(p)
  BY <1>1 DEF Others
<1>3. Mine(p)'
  BY <1>1 DEF Mine, Inside, Aside
<1>4. \A w \in Wallets : holder[w] \in Procs \ {p} =>
        holder'[w] = holder[w] /\ wallets'[w] = wallets[w]
  BY ReleaseFrame
<1> QED BY <1>2, <1>3, <1>4, Frame

\* The same for a step into saveWithEvent.
LEMMA StepAside ==
  ASSUME TypeInv, LockInv, NEW p \in Procs, NEW l \in Aside, Goto(p, l),
         NEW t, tx' = [tx EXCEPT ![p] = t], ~Moves(t),
         loaded' = loaded, entry' = entry, wallets' = wallets, holder' = holder
  PROVE  LockInv'
<1>1. pc'[p] = l /\ \A q \in Procs : q # p => pc'[q] = pc[q]
  BY DEF Goto, TypeInv, TypeOK
<1>2. tx'[p] = t /\ \A q \in Procs : q # p => tx'[q] = tx[q]
  BY DEF TypeInv, TypeOK
<1>3. Others(p)
  BY <1>1, <1>2 DEF Others
<1>4. Mine(p)'
  BY <1>1, <1>2 DEF Mine, Inside, Aside, Moves
<1> QED BY <1>3, <1>4, Frame

\* A process that returns gives up its wallet and owes the ledger nothing.
LEMMA ReturnLock ==
  ASSUME TypeInv, LockInv, NEW p \in Procs, NEW outcome, Return(p, outcome)
  PROVE  LockInv' /\ wallets' = wallets /\ ledger' = ledger
<1>1. /\ wallets' = wallets /\ ledger' = ledger /\ tx' = tx
      /\ loaded' = loaded /\ entry' = entry /\ Release(p)
      /\ \E l \in {"done", "idle"} : Goto(p, l)
  BY DEF Return, book, memory
<1> QED BY <1>1, Quiet DEF Inside, Aside

\* What FOR UPDATE returns is the current wallet, and nobody else holds it.
LEMMA LockWalletLock ==
  ASSUME TypeInv, LockInv, NEW p \in Procs, LockWallet(p)
  PROVE  LockInv' /\ wallets' = wallets /\ ledger' = ledger
<1>1. CASE Return(p, "ErrWalletNotFound")
  BY <1>1, ReturnLock
<1>2. CASE /\ WalletOf(p) \in Wallets
           /\ holder[WalletOf(p)] = NoProc
           /\ holder' = [holder EXCEPT ![WalletOf(p)] = p]
           /\ loaded' = [loaded EXCEPT ![p] = wallets[WalletOf(p)]]
           /\ Goto(p, "decide")
           /\ UNCHANGED <<book, schedule, sharers, rowLock, tx, entry, due, answer>>
  <2>1. wallets' = wallets /\ ledger' = ledger /\ tx' = tx /\ entry' = entry
    BY <1>2 DEF book
  <2>2. /\ pc'[p] = "decide" /\ loaded'[p] = wallets[WalletOf(p)]
        /\ \A q \in Procs : q # p => pc'[q] = pc[q] /\ loaded'[q] = loaded[q]
    BY <1>2 DEF Goto, TypeInv, TypeOK
  <2>3. /\ holder'[WalletOf(p)] = p
        /\ \A w \in Wallets : holder[w] \in Procs => holder'[w] = holder[w]
    BY <1>2, SubmitAssumption DEF TypeInv, TypeOK
  <2>4. Others(p)
    BY <2>1, <2>2 DEF Others
  <2>5. Mine(p)'
    BY <1>2, <2>1, <2>2, <2>3 DEF Mine, Inside, Aside, WalletOf
  <2> QED BY <2>1, <2>3, <2>4, <2>5, Frame
<1> QED BY <1>1, <1>2 DEF LockWallet

\* The entry built under the lock starts at the stored balance.
LEMMA DecideLock ==
  ASSUME TypeInv, LockInv, NEW p \in Procs, Decide(p)
  PROVE  LockInv' /\ wallets' = wallets /\ ledger' = ledger
<1> DEFINE amount == tx[p].request.amount
           before == loaded[p].balance
           d == Direction(tx[p])
           after == BalanceAfter(before, d, amount)
<1>1. /\ pc[p] = "decide" /\ Mine(p)
      /\ TxOK(tx[p]) /\ WalletOf(p) \in Wallets /\ holder[WalletOf(p)] = p
      /\ loaded[p] = wallets[WalletOf(p)]
  BY DEF Decide, LockInv, Mine, Inside, TypeInv, WellFormed, Busy
<1>2. CASE Return(p, "money")
  BY <1>2, ReturnLock
<1>3. ASSUME NEW code,
             tx' = [tx EXCEPT ![p] = MarkRejected(tx[p], code)],
             Goto(p, "save"),
             UNCHANGED <<book, schedule, locks, memory, due, answer>>
      PROVE  LockInv' /\ wallets' = wallets /\ ledger' = ledger
  <2>1. /\ wallets' = wallets /\ ledger' = ledger /\ holder' = holder
        /\ loaded' = loaded /\ entry' = entry
    BY <1>3 DEF book, locks, memory
  <2>2. /\ pc'[p] = "save" /\ tx'[p] = MarkRejected(tx[p], code)
        /\ \A q \in Procs : q # p => pc'[q] = pc[q] /\ tx'[q] = tx[q]
    BY <1>3 DEF Goto, TypeInv, TypeOK
  <2>3. tx'[p].request = tx[p].request /\ tx'[p].status = "REJECTED"
    BY <1>1, <2>2 DEF MarkRejected, TxOK, Transaction
  <2>4. Others(p)
    BY <2>1, <2>2 DEF Others
  <2>5. Mine(p)'
    BY <1>1, <2>1, <2>2, <2>3 DEF Mine, Inside, Aside, WalletOf, Moves
  <2> QED BY <2>1, <2>4, <2>5, Frame
<1>4. CASE /\ tx' = [tx EXCEPT ![p] = MarkProcessed(tx[p])]
           /\ loaded' = [loaded EXCEPT ![p] =
                [balance |-> after, version |-> @.version + 1]]
           /\ entry' = [entry EXCEPT ![p] =
                [key |-> Key(p), direction |-> d, amount |-> amount,
                 before |-> before, after |-> after]]
           /\ Goto(p, "save")
           /\ UNCHANGED <<book, schedule, locks, due, answer>>
  <2>1. wallets' = wallets /\ ledger' = ledger /\ holder' = holder
    BY <1>4 DEF book, locks
  <2> HIDE DEF after, amount, d
  <2>2. /\ pc'[p] = "save" /\ tx'[p] = MarkProcessed(tx[p])
        /\ loaded'[p].balance = after
        /\ entry'[p] = [key |-> Key(p), direction |-> d, amount |-> amount,
                        before |-> before, after |-> after]
    BY <1>4 DEF Goto, TypeInv, TypeOK
  <2>3. Others(p)
    BY <1>4 DEF Others, Goto, TypeInv, TypeOK
  <2>4. tx'[p].request = tx[p].request
    BY <1>1, <2>2 DEF MarkProcessed, TxOK, Transaction
  <2>5. /\ entry'[p].key = Key(p) /\ entry'[p].before = wallets[WalletOf(p)].balance
        /\ entry'[p].after = loaded'[p].balance
        /\ entry'[p].after = BalanceAfter(entry'[p].before, entry'[p].direction,
                                          entry'[p].amount)
    BY <1>1, <2>2 DEF after
  <2>6. WalletOf(p)' = WalletOf(p) /\ Key(p)' = Key(p)
    BY <2>4 DEF WalletOf, Key
  <2>7. Mine(p)'
    BY <1>1, <2>1, <2>2, <2>5, <2>6 DEF Mine, Inside, Aside
  <2> QED BY <2>1, <2>3, <2>7, Frame
<1> QED BY <1>2, <1>3, <1>4 DEF Decide

\* The upsert of the wager's row leaves wallet and entry as they are.
LEMMA SaveWagerLock ==
  ASSUME TypeInv, LockInv, NEW p \in Procs, SaveMovement(p) \/ SaveEvent(p)
  PROVE  LockInv' /\ wallets' = wallets /\ ledger' = ledger
<1>1. PICK label, next : /\ SaveWager(p, label, next)
                         /\ \/ label = "save" /\ next = "commit"
                            \/ /\ label = "saveEvent"
                               /\ next \in {"share", "commitEvent"}
  BY DEF SaveMovement, SaveEvent
<1>2. /\ wallets' = wallets /\ ledger' = ledger /\ tx' = tx
      /\ loaded' = loaded /\ entry' = entry /\ pc[p] = label
  BY <1>1 DEF SaveWager, book, memory
<1>3. CASE Release(p) /\ Goto(p, "winner")
  BY <1>2, <1>3, Quiet DEF Inside, Aside
<1>4. CASE Goto(p, next) /\ UNCHANGED <<holder, sharers>>
  <2>1. pc'[p] = next /\ \A q \in Procs : q # p => pc'[q] = pc[q]
    BY <1>4 DEF Goto, TypeInv, TypeOK
  <2>2. Others(p)
    BY <1>2, <2>1 DEF Others
  <2>3. Mine(p)
    BY DEF LockInv
  <2>4. Mine(p)'
    BY <1>1, <1>2, <1>4, <2>1, <2>3 DEF Mine, Inside, Aside, WalletOf, Key
  <2> QED BY <1>2, <1>4, <2>2, <2>4, Frame
<1> QED BY <1>1, <1>3, <1>4 DEF SaveWager

\* The steps that read, decide or wait on the way.
LEMMA OtherStepsLock ==
  ASSUME TypeInv, LockInv, NEW p \in Procs,
         \/ LookUp(p) \/ Replay(p) \/ ReadBalance(p)
         \/ ProcessMovement(p) \/ FindDue(p) \/ Reschedule(p)
         \/ \E req \in Requests : Submit(p, req)
  PROVE  LockInv' /\ wallets' = wallets /\ ledger' = ledger
<1>1. /\ wallets' = wallets /\ ledger' = ledger /\ holder' = holder
      /\ loaded' = loaded /\ entry' = entry
  BY DEF LookUp, Replay, ReadBalance, ProcessMovement, FindDue, Reschedule,
         Submit, book, locks, memory
<1>2. \E l \in {"lookup", "done", "process", "replay", "current", "next", "lock"} :
        Goto(p, l)
  BY DEF LookUp, Replay, ReadBalance, ProcessMovement, FindDue, Reschedule,
         Submit, Succeed
<1>3. \A q \in Procs : q # p => tx'[q] = tx[q]
  BY DEF LookUp, Replay, ReadBalance, ProcessMovement, FindDue, Reschedule,
         Submit, TypeInv, TypeOK
<1> QED BY <1>1, <1>2, <1>3, Quiet DEF Inside, Aside

\* Steps outside the wallet's lock leave every wallet and ledger alone.
LEMMA ProcessLock ==
  ASSUME TypeInv, LockInv, NEW p \in Procs,
         ProcessReversal(p) \/ ProcessLoss(p) \/ ResolveOne(p) \/ ShareWallet(p)
  PROVE  LockInv' /\ wallets' = wallets /\ ledger' = ledger
<1>1. CASE \E o : Return(p, o)
  BY <1>1, ReturnLock
<1>2. CASE ProcessReversal(p)
  <2>1. /\ wallets' = wallets /\ ledger' = ledger /\ holder' = holder
        /\ loaded' = loaded /\ entry' = entry
    BY <1>2 DEF ProcessReversal, book, locks, memory
  <2>2. TxOK(tx[p])
    BY <1>2 DEF ProcessReversal, TypeInv, WellFormed, Busy
  <2>3. CASE \E l \in {"reschedule", "lock"} :
               /\ Goto(p, l)
               /\ \A q \in Procs : q # p => tx'[q] = tx[q]
    BY <2>1, <2>3, Quiet DEF Inside, Aside
  <2>4. CASE /\ Goto(p, "saveEvent")
             /\ \E t : tx' = [tx EXCEPT ![p] = t] /\ ~Moves(t)
    BY <2>1, <2>4, StepAside DEF Aside
  <2>5. /\ ~Moves(MarkPendingReference(tx[p]))
        /\ ~Moves(MarkRejected(tx[p], "INVALID_REFERENCE"))
    BY <2>2 DEF Moves, MarkPendingReference, MarkRejected, TxOK, Transaction
  <2>6. \A q \in Procs : q # p => tx'[q] = tx[q]
    BY <1>2 DEF ProcessReversal, TypeInv, TypeOK
  <2> QED BY <1>2, <2>3, <2>4, <2>5, <2>6 DEF ProcessReversal
<1>3. CASE /\ ProcessLoss(p)
           /\ tx' = [tx EXCEPT ![p] = MarkProcessed(@)]
           /\ Goto(p, "saveEvent")
           /\ UNCHANGED <<book, schedule, locks, memory, due, answer>>
  <2>1. TxOK(tx[p]) /\ tx[p].request.kind = "LOSS"
    BY <1>3 DEF ProcessLoss, TypeInv, WellFormed, Busy
  <2>2. ~Moves(MarkProcessed(tx[p]))
    BY <2>1 DEF Moves, MarkProcessed, TxOK, Transaction
  <2> QED BY <1>3, <2>2, StepAside DEF Aside, book, locks, memory
<1>4. CASE ResolveOne(p)
  <2>1. /\ wallets' = wallets /\ ledger' = ledger /\ holder' = holder
        /\ loaded' = loaded /\ entry' = entry
    BY <1>4 DEF ResolveOne, book, locks, memory
  <2>2. CASE \E l \in {"idle", "process"} :
               /\ Goto(p, l)
               /\ \A q \in Procs : q # p => tx'[q] = tx[q]
    BY <2>1, <2>2, Quiet DEF Inside, Aside
  <2>3. CASE \E item \in due[p] :
               /\ tx' = [tx EXCEPT ![p] =
                           MarkRejected(item.tx, "REFERENCE_NOT_FOUND")]
               /\ Goto(p, "saveEvent")
    <3>1. PICK item \in due[p] :
               /\ tx' = [tx EXCEPT ![p] =
                           MarkRejected(item.tx, "REFERENCE_NOT_FOUND")]
               /\ Goto(p, "saveEvent")
      BY <2>3
    <3>2. TxOK(item.tx)
      BY DEF TypeInv, WellFormed
    <3>3. ~Moves(MarkRejected(item.tx, "REFERENCE_NOT_FOUND"))
      BY <3>2 DEF Moves, MarkRejected, TxOK, Transaction
    <3> QED BY <2>1, <3>1, <3>3, StepAside DEF Aside
  <2>4. tx' = tx \/ \E t : tx' = [tx EXCEPT ![p] = t]
    BY <1>4 DEF ResolveOne
  <2>5. \A q \in Procs : q # p => tx'[q] = tx[q]
    BY <2>4 DEF TypeInv, TypeOK
  <2> QED BY <1>4, <2>2, <2>3, <2>5 DEF ResolveOne
<1>5. CASE /\ ShareWallet(p) /\ Goto(p, "commitEvent")
           /\ UNCHANGED <<book, schedule, holder, rowLock, tx, memory, due, answer>>
  <2>1. ~Moves(tx[p])
    BY <1>5 DEF ShareWallet, LockInv, Mine, Aside
  <2>2. tx' = [tx EXCEPT ![p] = tx[p]]
    BY <1>5 DEF TypeInv, TypeOK
  <2> QED BY <1>5, <2>1, <2>2, StepAside DEF Aside, book, memory
<1> QED BY <1>1, <1>2, <1>3, <1>4, <1>5 DEF ProcessLoss, ShareWallet

-----------------------------------------------------------------------------
\* Commits.

\* A commit of p changes only a wallet it holds the lock of, and gives all its
\* locks back.
LEMMA PersistLock ==
  ASSUME TypeInv, LockInv, NEW p \in Procs, pc[p] \in {"commit", "commitEvent"},
         Persist(p), Release(p), NEW l, Goto(p, l), l \notin Inside \cup Aside,
         tx' = tx, loaded' = loaded, entry' = entry
  PROVE  LockInv'
<1>1. pc'[p] = l /\ \A q \in Procs : q # p => pc'[q] = pc[q]
  BY DEF Goto, TypeInv, TypeOK
<1>2. Others(p)
  BY <1>1 DEF Others
<1>3. Mine(p)'
  BY <1>1 DEF Mine, Inside, Aside
<1>4. \A w \in Wallets : holder[w] \in Procs \ {p} =>
        holder'[w] = holder[w] /\ wallets'[w] = wallets[w]
  <2>1. CASE ~Moves(tx[p])
    BY <2>1, ReleaseFrame DEF Persist
  <2>2. CASE Moves(tx[p])
    <3>1. pc[p] = "commit" /\ holder[WalletOf(p)] = p
      BY <2>2 DEF LockInv, Mine, Inside, Aside
    <3>2. wallets' = [wallets EXCEPT ![WalletOf(p)] = loaded[p]]
      BY <2>2 DEF Persist
    <3> QED BY <3>1, <3>2, ReleaseFrame DEF TypeInv, TypeOK
  <2> QED BY <2>1, <2>2
<1> QED BY <1>2, <1>3, <1>4, Frame

\* The entry of a commit continues its wallet's chain.
LEMMA PersistChain ==
  ASSUME TypeInv, LockInv, LedgerChain, NEW p \in Procs,
         pc[p] \in {"commit", "commitEvent"}, Persist(p)
  PROVE  LedgerChain'
<1>1. CASE ~Moves(tx[p])
  BY <1>1 DEF Persist, LedgerChain
<1>2. CASE Moves(tx[p])
  <2> DEFINE w == WalletOf(p)
  <2>1. /\ w \in Wallets /\ Mine(p) /\ pc[p] = "commit"
    BY <1>2 DEF LockInv, Mine, Inside, Aside
  <2>2. /\ entry[p].before = wallets[w].balance
        /\ entry[p].after = loaded[p].balance
        /\ entry[p].after =
             BalanceAfter(entry[p].before, entry[p].direction, entry[p].amount)
    BY <1>2, <2>1 DEF Mine
  <2>3. /\ wallets' = [wallets EXCEPT ![w] = loaded[p]]
        /\ ledger' = [ledger EXCEPT ![w] = Append(ledger[w], entry[p])]
    BY <1>2 DEF Persist
  <2>4. ledger[w] \in Seq(LedgerEntry) /\ entry[p] \in LedgerEntry
    BY <2>1 DEF TypeInv, TypeOK
  <2>5. Chain(ledger[w], wallets[w].balance)
    BY <2>1, ChainIs
  <2>6. Chain(Append(ledger[w], entry[p]), loaded[p].balance)
    BY <2>2, <2>4, <2>5, ChainAppend
  <2> HIDE DEF w
  <2>7. \A v \in Wallets : Chain(ledger'[v], wallets'[v].balance)
    BY <2>1, <2>3, <2>6, ChainIs DEF TypeInv, TypeOK
  <2> QED BY <2>7 DEF LedgerChain, Chain
<1> QED BY <1>1, <1>2

\* A commit that the unique constraint lets through adds the first entry of
\* its key.
LEMMA PersistUnique ==
  ASSUME TypeInv, LockInv, OneEntryPerTransaction, NEW p \in Procs,
         pc[p] \in {"commit", "commitEvent"}, Persist(p),
         ~(pc[p] = "commit" /\ Moves(tx[p]) /\ HasLedgerEntry(Key(p)))
  PROVE  OneEntryPerTransaction'
<1>1. CASE ~Moves(tx[p])
  BY <1>1 DEF Persist, OneEntryPerTransaction
<1>2. CASE Moves(tx[p])
  <2> DEFINE w == WalletOf(p)
  <2>1. /\ w \in Wallets /\ Mine(p) /\ pc[p] = "commit" /\ entry[p].key = Key(p)
    BY <1>2 DEF LockInv, Mine, Inside, Aside
  <2>2. \A v \in Wallets : \A i \in DOMAIN ledger[v] :
          ledger[v][i].key # entry[p].key
    BY <1>2, <2>1 DEF HasLedgerEntry
  <2>3. ledger' = [ledger EXCEPT ![w] = Append(ledger[w], entry[p])]
    BY <1>2 DEF Persist
  <2>4. \A v \in Wallets : ledger[v] \in Seq(LedgerEntry)
    BY DEF TypeInv, TypeOK
  <2> HIDE DEF w
  <2>5. \A v \in Wallets : \A i \in DOMAIN ledger'[v] :
          \/ i \in DOMAIN ledger[v] /\ ledger'[v][i] = ledger[v][i]
          \/ v = w /\ i = Len(ledger[w]) + 1 /\ ledger'[v][i] = entry[p]
    <3> TAKE v \in Wallets
    <3>1. CASE v = w
      <4>1. ledger'[v] = Append(ledger[v], entry[p])
        BY <2>3, <3>1, <2>1 DEF TypeInv, TypeOK
      <4>2. ledger[v] \in Seq(LedgerEntry)
        BY <2>4
      <4> QED BY <4>1, <4>2, <3>1
    <3>2. CASE v # w
      BY <2>3, <3>2 DEF TypeInv, TypeOK
    <3> QED BY <3>1, <3>2
  <2> SUFFICES ASSUME NEW u \in Wallets, NEW v \in Wallets,
                      NEW i \in DOMAIN ledger'[u], NEW j \in DOMAIN ledger'[v],
                      ledger'[u][i].key = ledger'[v][j].key,
                      ledger'[u][i].key # NoKey
               PROVE  u = v /\ i = j
    BY DEF OneEntryPerTransaction
  <2>6. CASE i \in DOMAIN ledger[u] /\ ledger'[u][i] = ledger[u][i]
    <3>1. j \in DOMAIN ledger[v] /\ ledger'[v][j] = ledger[v][j]
      BY <2>2, <2>5, <2>6
    <3> QED BY <2>6, <3>1 DEF OneEntryPerTransaction
  <2>7. CASE u = w /\ i = Len(ledger[w]) + 1 /\ ledger'[u][i] = entry[p]
    <3>1. ~(j \in DOMAIN ledger[v] /\ ledger'[v][j] = ledger[v][j])
      BY <2>2, <2>7
    <3> QED BY <2>5, <2>7, <3>1
  <2> QED BY <2>5, <2>6, <2>7
<1> QED BY <1>1, <1>2

\* A commit appends no entry, or the one that continues the chain.
LEMMA CommitLedger ==
  ASSUME LedgerInv, NEW p \in Procs,
         CommitMovement(p) \/ CommitEvent(p) \/ LoseCommitReply(p)
  PROVE  LockInv' /\ LedgerChain' /\ OneEntryPerTransaction'
<1> USE DEF LedgerInv
<1>1. CASE Return(p, "duplicate_ledger_entry")
  BY <1>1, ReturnLock DEF LedgerChain, OneEntryPerTransaction
<1>2. CASE Persist(p) /\ Release(p)
  <2>1. /\ pc[p] \in {"commit", "commitEvent"}
        /\ ~(pc[p] = "commit" /\ Moves(tx[p]) /\ HasLedgerEntry(Key(p)))
        /\ tx' = tx /\ loaded' = loaded /\ entry' = entry
        /\ \E l \in {"done", "next", "idle", "balance"} : Goto(p, l)
    <3>1. CASE CommitMovement(p)
      <4>1. CASE Moves(tx[p]) /\ HasLedgerEntry(Key(p))
        <5>1. ledger' = ledger
          BY <3>1, <4>1 DEF CommitMovement, Return, book
        <5>2. WalletOf(p) \in Wallets
          BY <3>1 DEF CommitMovement, LockInv, Mine, Inside
        <5>3. ledger'[WalletOf(p)] = Append(ledger[WalletOf(p)], entry[p])
          BY <1>2, <4>1, <5>2 DEF Persist, TypeInv, TypeOK
        <5>4. Len(ledger[WalletOf(p)]) \in Nat
              /\ Len(Append(ledger[WalletOf(p)], entry[p]))
                   = Len(ledger[WalletOf(p)]) + 1
          BY <5>2 DEF TypeInv, TypeOK
        <5> QED BY <5>1, <5>3, <5>4
      <4>2. CASE ~(Moves(tx[p]) /\ HasLedgerEntry(Key(p)))
        BY <3>1, <4>2 DEF CommitMovement, Succeed, memory
      <4> QED BY <4>1, <4>2
    <3>2. CASE CommitEvent(p)
      BY <3>2 DEF CommitEvent, memory
    <3>3. CASE LoseCommitReply(p)
      BY <3>3 DEF LoseCommitReply, memory
    <3> QED BY <3>1, <3>2, <3>3
  <2>2. LockInv'
    <3>1. PICK l \in {"done", "next", "idle", "balance"} : Goto(p, l)
      BY <2>1
    <3>2. l \notin Inside \cup Aside
      BY DEF Inside, Aside
    <3>3. TypeInv /\ LockInv
      OBVIOUS
    <3> HIDE DEF LedgerInv
    <3> QED BY <1>2, <2>1, <3>1, <3>2, <3>3, PersistLock
  <2>3. LedgerChain'
    BY <1>2, <2>1, PersistChain
  <2>4. OneEntryPerTransaction'
    BY <1>2, <2>1, PersistUnique
  <2> QED BY <2>2, <2>3, <2>4
<1> QED BY <1>1, <1>2 DEF CommitMovement, CommitEvent, LoseCommitReply

-----------------------------------------------------------------------------
\* At first no process is at work and every ledger is its opening.
LEMMA LedgerInit == Init => LedgerInv
<1> SUFFICES ASSUME Init PROVE LedgerInv
  OBVIOUS
<1>1. TypeInv
  BY InitType
<1>2. LockInv
  BY DEF Init, LockInv, Mine, Inside, Aside
<1>3. \A w \in Wallets : Chain(ledger[w], wallets[w].balance)
  <2> TAKE w \in Wallets
  <2>1. Opening[w] \in Nat /\ wallets[w].balance = Opening[w]
    BY SubmitAssumption, DomainAssumption DEF Init
  <2>2. CASE Opening[w] = 0
    <3>1. ledger[w] = <<>>
      BY <2>2 DEF Init
    <3> QED BY <2>1, <2>2, <3>1 DEF Chain
  <2>3. CASE Opening[w] # 0
    <3> DEFINE e == [key |-> NoKey, direction |-> "CREDIT", amount |-> Opening[w],
                     before |-> 0, after |-> Opening[w]]
    <3>1. ledger[w] = <<e>>
      BY <2>3 DEF Init
    <3>2. e.before = 0 /\ e.after = Opening[w]
          /\ e.after = BalanceAfter(e.before, e.direction, e.amount)
      BY <2>1 DEF BalanceAfter
    <3> HIDE DEF e
    <3>3. Len(ledger[w]) = 1 /\ ledger[w][1] = e
      BY <3>1
    <3> QED BY <2>1, <3>2, <3>3 DEF Chain
  <2> QED BY <2>2, <2>3
<1>4. LedgerChain
  BY <1>3, ChainIs
<1>5. \A w \in Wallets : \A i \in DOMAIN ledger[w] : ledger[w][i].key = NoKey
  <2> TAKE w \in Wallets
  <2>1. \/ ledger[w] = <<>>
        \/ ledger[w] = <<[key |-> NoKey, direction |-> "CREDIT",
                          amount |-> Opening[w], before |-> 0,
                          after |-> Opening[w]]>>
    BY DEF Init
  <2> QED BY <2>1
<1>6. OneEntryPerTransaction
  BY <1>5 DEF OneEntryPerTransaction
<1> QED BY <1>1, <1>2, <1>4, <1>6 DEF LedgerInv

\* Each step keeps the chain, the locks and the uniqueness of entries.
LEMMA LedgerNext == ASSUME LedgerInv, [Next]_vars PROVE LedgerInv'
<1>0. TypeInv /\ LockInv /\ LedgerChain /\ OneEntryPerTransaction /\ TypeInv'
  BY NextType DEF LedgerInv
<1>1. ASSUME wallets' = wallets, ledger' = ledger
      PROVE  LedgerChain' /\ OneEntryPerTransaction'
  BY <1>0, <1>1 DEF LedgerChain, OneEntryPerTransaction
<1>2. ASSUME UNCHANGED <<wallets, ledger, holder, pc, tx, loaded, entry>>
      PROVE  LedgerInv'
  BY <1>0, <1>1, <1>2 DEF LedgerInv, LockInv, Mine, WalletOf, Key
<1>3. CASE UNCHANGED vars
  BY <1>2, <1>3 DEF vars, book, locks, memory
<1>4. ASSUME NEW p \in Procs,
             \/ LookUp(p) \/ Replay(p) \/ ReadBalance(p)
             \/ ProcessMovement(p) \/ FindDue(p) \/ Reschedule(p)
             \/ \E req \in Requests : Submit(p, req)
      PROVE  LedgerInv'
  BY <1>0, <1>1, <1>4, OtherStepsLock DEF LedgerInv
<1>5. ASSUME NEW p \in Procs,
             ProcessReversal(p) \/ ProcessLoss(p) \/ ResolveOne(p) \/ ShareWallet(p)
      PROVE  LedgerInv'
  BY <1>0, <1>1, <1>5, ProcessLock DEF LedgerInv
<1>6. ASSUME NEW p \in Procs,
             LockWallet(p) \/ Decide(p) \/ SaveMovement(p) \/ SaveEvent(p)
      PROVE  LedgerInv'
  BY <1>0, <1>1, <1>6, LockWalletLock, DecideLock, SaveWagerLock DEF LedgerInv
<1>7. ASSUME NEW p \in Procs,
             CommitMovement(p) \/ CommitEvent(p) \/ LoseCommitReply(p)
      PROVE  LedgerInv'
  BY <1>0, <1>7, CommitLedger DEF LedgerInv
<1>8. ASSUME NEW p \in Procs, DeadlockVictim(p) \/ Fail(p)
      PROVE  LedgerInv'
  <2>1. \E o : Return(p, o)
    BY <1>8 DEF DeadlockVictim, Fail
  <2> QED BY <1>0, <1>1, <2>1, ReturnLock DEF LedgerInv
<1>9. ASSUME NEW k \in Keys, RetryDue(k) \/ Expire(k)
      PROVE  LedgerInv'
  BY <1>2, <1>9 DEF RetryDue, Expire, book, locks, memory
<1> QED BY <1>3, <1>4, <1>5, <1>6, <1>7, <1>8, <1>9 DEF Next, Step

\* However many submitters and resolvers race, the ledger of every wallet is a
\* chain from zero to its balance: no movement is lost, none is without entry.
THEOREM LedgerChainHolds == Spec => []LedgerChain
<1>1. LedgerInv => LedgerChain
  BY DEF LedgerInv
<1> QED BY <1>1, LedgerInit, LedgerNext, PTL DEF Spec

\* However many submitters and resolvers race, no transaction moves money
\* twice.
THEOREM OneEntryHolds == Spec => []OneEntryPerTransaction
<1>1. LedgerInv => OneEntryPerTransaction
  BY DEF LedgerInv
<1> QED BY <1>1, LedgerInit, LedgerNext, PTL DEF Spec

-----------------------------------------------------------------------------
\* Keys, for any number of resolvers.

\* Where p holds the uncommitted row of its key.
Writing == {"commit", "share", "commitEvent"}

\* Where a resolver never comes: its rows exist, it loses no insertion and
\* replays nothing.
SubmitterOnly == {"lookup", "winner", "share", "replay", "current"}

\* p has committed its row and knows it.
Wrote(p) == answer[p].outcome = "fresh" \/ pc[p] = "balance"

\* There is a row of this request's key, and it is of this request.
Stored(req) == req.key \in Keys /\ rows[req.key] # NoTx /\ rows[req.key].request = req

\* p writes under the lock of its key.  A submitter writes a key that has no
\* row, a resolver one whose row is of the same request.
KeyInv(p) ==
  /\ pc[p] \in Writing => rowLock[Key(p)] = p
  /\ p \in Submitters =>
       /\ pc[p] \in Writing => rows[Key(p)] = NoTx
       /\ pc[p] # "done" => answer[p].outcome = "none"
       /\ Wrote(p) => Stored(tx[p].request)
  /\ p \in Resolvers =>
       /\ pc[p] \notin SubmitterOnly
       /\ Busy(p) => Stored(tx[p].request)
       /\ \A item \in due[p] : Stored(item.tx.request)

\* No two submitters have written one key.
OneWriter ==
  \A p, q \in Submitters : Wrote(p) /\ Wrote(q) /\ Key(p) = Key(q) => p = q

KeysInv == LedgerInv /\ (\A p \in Procs : KeyInv(p)) /\ OneWriter

\* A step of p, of its own accord or not.
Acts(p) ==
  \/ \E req \in Requests : Submit(p, req)
  \/ Step(p) \/ DeadlockVictim(p) \/ Fail(p) \/ LoseCommitReply(p)

\* p commits.
Commits(p) ==
  /\ pc[p] \in {"commit", "commitEvent"} /\ tx' = tx
  /\ ~(pc[p] = "commit" /\ Moves(tx[p]) /\ HasLedgerEntry(Key(p)))
  /\ Persist(p) /\ Release(p)

\* A step of p leaves the others where they are, with the row locks they have.
Alone(p) ==
  /\ \A q \in Procs : q # p => pc'[q] = pc[q] /\ tx'[q] = tx[q] /\ due'[q] = due[q]
  /\ \A q \in Submitters : q # p => answer'[q] = answer[q]
  /\ \A k \in Keys : rowLock[k] \in Procs \ {p} => rowLock'[k] = rowLock[k]

\* p goes somewhere, tells or batches what it likes, and touches nothing of
\* the others.
LEMMA AloneIs ==
  ASSUME TypeInv, NEW p \in Procs,
         \E l : Goto(p, l),
         tx' = tx \/ \E t : tx' = [tx EXCEPT ![p] = t],
         due' = due \/ \E d : due' = [due EXCEPT ![p] = d],
         answer' = answer \/ \E o, s, b : Reply(p, o, s, b),
         rowLock' = rowLock \/ Release(p)
           \/ \E k \in Keys : rowLock[k] = NoProc /\ rowLock' = [rowLock EXCEPT ![k] = p]
  PROVE  Alone(p)
<1>1. \A q \in Procs : q # p => pc'[q] = pc[q] /\ tx'[q] = tx[q] /\ due'[q] = due[q]
  BY DEF Goto, TypeInv, TypeOK
<1>2. \A q \in Submitters : q # p => answer'[q] = answer[q]
  BY DEF Reply, TypeInv, TypeOK
<1>3. \A k \in Keys : rowLock[k] \in Procs \ {p} => rowLock'[k] = rowLock[k]
  BY SubmitAssumption DEF Release, TypeInv, TypeOK
<1> QED BY <1>1, <1>2, <1>3 DEF Alone

\* Returning with an error is a step of p alone, and leaves every row.
LEMMA ReturnAlone ==
  ASSUME TypeInv, NEW p \in Procs, NEW o, Return(p, o)
  PROVE  Alone(p) /\ rows' = rows
<1>1. /\ \E l : Goto(p, l)
      /\ tx' = tx /\ rows' = rows /\ Release(p)
      /\ due' = due \/ \E d : due' = [due EXCEPT ![p] = d]
      /\ answer' = answer \/ \E c, s, b : Reply(p, c, s, b)
  BY DEF Return, book
<1> QED BY <1>1, AloneIs

\* Every step is a step of one process alone; rows change by commits only.
LEMMA ActsAlone ==
  ASSUME TypeInv, NEW p \in Procs, Acts(p)
  PROVE  Alone(p) /\ (rows' = rows \/ Commits(p))
<1>1. CASE \E o : Return(p, o)
  BY <1>1, ReturnAlone
<1>2. CASE \E req \in Requests : Submit(p, req)
  <2>1. PICK req \in Requests : Submit(p, req)
    BY <1>2
  <2>2. /\ rows' = rows /\ rowLock' = rowLock /\ due' = due
        /\ \E l : Goto(p, l)
        /\ tx' = tx \/ \E t : tx' = [tx EXCEPT ![p] = t]
        /\ answer' = answer \/ \E o, s, b : Reply(p, o, s, b)
    BY <2>1 DEF Submit, book, locks
  <2> QED BY <2>2, AloneIs
<1>3. CASE LookUp(p) \/ Replay(p) \/ ReadBalance(p) \/ ProcessMovement(p)
  <2>1. rows' = rows /\ rowLock' = rowLock /\ due' = due
    BY <1>3 DEF LookUp, Replay, ReadBalance, ProcessMovement, book, locks
  <2>2. /\ \E l : Goto(p, l)
        /\ tx' = tx \/ \E t : tx' = [tx EXCEPT ![p] = t]
        /\ answer' = answer \/ \E o, s, b : Reply(p, o, s, b)
    BY <1>3 DEF LookUp, Replay, ReadBalance, ProcessMovement, Succeed
  <2> QED BY <2>1, <2>2, AloneIs
<1>4. CASE ProcessReversal(p)
  <2>1. /\ rows' = rows /\ rowLock' = rowLock /\ due' = due /\ answer' = answer
        /\ \E l : Goto(p, l)
        /\ \E t : tx' = [tx EXCEPT ![p] = t]
    BY <1>4 DEF ProcessReversal, book, locks
  <2> QED BY <2>1, AloneIs
<1>5. CASE ProcessLoss(p)
  <2>1. CASE Goto(p, "saveEvent") /\ tx' = [tx EXCEPT ![p] = MarkProcessed(@)]
             /\ UNCHANGED <<book, schedule, locks, memory, due, answer>>
    <3>1. /\ rows' = rows /\ rowLock' = rowLock /\ due' = due /\ answer' = answer
          /\ \E l : Goto(p, l)
          /\ \E t : tx' = [tx EXCEPT ![p] = t]
      BY <2>1 DEF book, locks
    <3> QED BY <3>1, AloneIs
  <2> QED BY <1>1, <1>5, <2>1 DEF ProcessLoss
<1>6. CASE LockWallet(p) \/ ShareWallet(p)
  <2>1. CASE \E l : Goto(p, l) /\ UNCHANGED <<book, rowLock, tx, due, answer>>
    <3>1. rows' = rows /\ rowLock' = rowLock /\ due' = due /\ answer' = answer /\ tx' = tx
      BY <2>1 DEF book
    <3> QED BY <2>1, <3>1, AloneIs
  <2> QED BY <1>1, <1>6, <2>1 DEF LockWallet, ShareWallet
<1>7. CASE Decide(p)
  <2>1. CASE /\ Goto(p, "save") /\ UNCHANGED <<book, schedule, locks, due, answer>>
             /\ \E t : tx' = [tx EXCEPT ![p] = t]
    <3>1. rows' = rows /\ rowLock' = rowLock /\ due' = due /\ answer' = answer
      BY <2>1 DEF book, locks
    <3> QED BY <2>1, <3>1, AloneIs
  <2> QED BY <1>1, <1>7, <2>1 DEF Decide
<1>8. CASE SaveMovement(p) \/ SaveEvent(p)
  <2>1. PICK label, next : SaveWager(p, label, next)
    BY <1>8 DEF SaveMovement, SaveEvent
  <2>2. Key(p) \in Keys
    <3>1. TxOK(tx[p])
      BY <1>8 DEF SaveMovement, SaveEvent, SaveWager, TypeInv, WellFormed, Busy
    <3> QED BY <3>1, DecisionTypes DEF Request, Key
  <2>3. /\ rows' = rows /\ due' = due /\ answer' = answer /\ tx' = tx
        /\ \E l : Goto(p, l)
        /\ \/ Release(p)
           \/ rowLock[Key(p)] = NoProc /\ rowLock' = [rowLock EXCEPT ![Key(p)] = p]
    BY <2>1 DEF SaveWager, book
  <2> QED BY <2>2, <2>3, AloneIs
<1>9. CASE Commits(p) /\ (CommitMovement(p) \/ CommitEvent(p) \/ LoseCommitReply(p))
  <2>1. /\ \E l : Goto(p, l)
        /\ due' = due \/ \E d : due' = [due EXCEPT ![p] = d]
        /\ answer' = answer \/ \E o, s, b : Reply(p, o, s, b)
    BY <1>9 DEF CommitMovement, CommitEvent, LoseCommitReply, Return, Succeed
  <2> QED BY <1>9, <2>1, AloneIs DEF Commits
<1>10. CASE FindDue(p) \/ ResolveOne(p) \/ Reschedule(p)
  <2>1. /\ rows' = rows /\ rowLock' = rowLock /\ answer' = answer
        /\ due' = due \/ \E d : due' = [due EXCEPT ![p] = d]
        /\ tx' = tx \/ \E t : tx' = [tx EXCEPT ![p] = t]
    BY <1>10 DEF FindDue, ResolveOne, Reschedule, book, locks
  <2>2. \E l : Goto(p, l)
    BY <1>10 DEF FindDue, ResolveOne, Reschedule
  <2> QED BY <2>1, <2>2, AloneIs
<1>11. CASE DeadlockVictim(p) \/ Fail(p)
  BY <1>1, <1>11 DEF DeadlockVictim, Fail
<1>12. CASE CommitMovement(p) \/ CommitEvent(p) \/ LoseCommitReply(p)
  <2>1. (\E o : Return(p, o)) \/ Commits(p)
    BY <1>12 DEF CommitMovement, CommitEvent, LoseCommitReply, Commits
  <2> QED BY <1>1, <1>9, <1>12, <2>1
<1> QED BY <1>2, <1>3, <1>4, <1>5, <1>6, <1>7, <1>8, <1>10, <1>11, <1>12 DEF Acts, Step

\* What p works on has a key and a request that can be stored.
LEMMA BusyKey ==
  ASSUME TypeInv, NEW p \in Procs, Busy(p)
  PROVE  /\ TxOK(tx[p]) /\ Key(p) \in Keys /\ tx[p] # NoTx
         /\ tx[p].request.key = Key(p)
<1>1. TxOK(tx[p])
  BY DEF TypeInv, WellFormed
<1>2. tx[p].request \in Request /\ tx[p] \in Transaction
  BY <1>1, DecisionTypes DEF TxOK
<1> QED BY <1>1, <1>2, NoTxIsNone DEF Key, Request

\* What a commit does to the rows.
LEMMA CommitRow ==
  ASSUME TypeInv, NEW p \in Procs, KeyInv(p), Commits(p)
  PROVE  /\ Busy(p) /\ rowLock[Key(p)] = p
         /\ rows' = [rows EXCEPT ![Key(p)] = tx[p]]
         /\ rows'[Key(p)] = tx[p]
         /\ p \in Submitters => rows[Key(p)] = NoTx
         /\ p \in Resolvers => Stored(tx[p].request)
<1>1. Busy(p) /\ pc[p] \in Writing
  BY DEF Commits, Busy, Writing
<1>2. rows' = [rows EXCEPT ![Key(p)] = tx[p]]
  BY DEF Commits, Persist
<1>3. Key(p) \in Keys
  BY <1>1, BusyKey
<1> QED BY <1>1, <1>2, <1>3 DEF KeyInv, TypeInv, TypeOK

\* What is stored stays stored, and a key locked by somebody else stays free.
LEMMA RowsStand ==
  ASSUME TypeInv, NEW p \in Procs, KeyInv(p), rows' = rows \/ Commits(p)
  PROVE  /\ \A req : Stored(req) => Stored(req)'
         /\ \A k \in Keys : rowLock[k] \in Procs \ {p} => rows'[k] = rows[k]
<1>1. CASE rows' = rows
  BY <1>1 DEF Stored
<1>2. CASE Commits(p)
  <2>1. /\ tx[p] # NoTx /\ Key(p) \in Keys /\ rowLock[Key(p)] = p
        /\ rows' = [rows EXCEPT ![Key(p)] = tx[p]] /\ rows'[Key(p)] = tx[p]
    BY <1>2, CommitRow, BusyKey
  <2>2. rows[Key(p)] # NoTx => rows[Key(p)].request = tx[p].request
    BY <1>2, CommitRow, SubmitAssumption DEF Stored, Key, Procs
  <2>3. \A k \in Keys : k # Key(p) => rows'[k] = rows[k]
    BY <2>1 DEF TypeInv, TypeOK
  <2>4. \A req : Stored(req) => Stored(req)'
    BY <2>1, <2>2, <2>3 DEF Stored
  <2> QED BY <2>1, <2>3, <2>4
<1> QED BY <1>1, <1>2

\* What p does leaves the others' keys alone.
LEMMA KeyFrame ==
  ASSUME TypeInv, NEW p \in Procs, KeyInv(p), Alone(p), rows' = rows \/ Commits(p),
         NEW q \in Procs, q # p, KeyInv(q)
  PROVE  KeyInv(q)'
<1>1. /\ pc'[q] = pc[q] /\ tx'[q] = tx[q] /\ due'[q] = due[q]
      /\ q \in Submitters => answer'[q] = answer[q]
      /\ Key(q)' = Key(q)
  BY DEF Alone, Key
<1>2. pc[q] \in Writing =>
        /\ rowLock'[Key(q)] = rowLock[Key(q)] /\ rows'[Key(q)] = rows[Key(q)]
  <2> SUFFICES ASSUME pc[q] \in Writing
               PROVE  /\ rowLock'[Key(q)] = rowLock[Key(q)]
                      /\ rows'[Key(q)] = rows[Key(q)]
    OBVIOUS
  <2>1. Busy(q) /\ rowLock[Key(q)] = q
    BY DEF KeyInv, Writing, Busy
  <2>2. Key(q) \in Keys
    BY <2>1, BusyKey
  <2> QED BY <2>1, <2>2, RowsStand DEF Alone
<1>3. \A req : Stored(req) => Stored(req)'
  BY RowsStand
<1>4. Busy(q)' = Busy(q)
  BY <1>1 DEF Busy
<1>5. q \in Submitters => Wrote(q)' = Wrote(q)
  BY <1>1 DEF Wrote
<1>6. q \in Submitters => KeyInv(q)'
  BY <1>1, <1>2, <1>3, <1>5, SubmitAssumption DEF KeyInv
<1>7. q \in Resolvers => KeyInv(q)'
  BY <1>1, <1>2, <1>3, <1>4, SubmitAssumption DEF KeyInv
<1> QED BY <1>6, <1>7 DEF Procs

\* p has not written before the step, or is the first to write its key.
NewWriter(p) ==
  p \in Submitters /\ Wrote(p)' =>
    tx'[p] = tx[p] /\ (Wrote(p) \/ rows[Key(p)] = NoTx)

\* An error writes nothing.
LEMMA ReturnKey ==
  ASSUME TypeInv, NEW p \in Procs, KeyInv(p), NEW o, o # "fresh", Return(p, o)
  PROVE  KeyInv(p)' /\ NewWriter(p)
<1>1. CASE p \in Submitters
  <2>1. pc'[p] = "done" /\ answer'[p].outcome = o
    BY <1>1 DEF Return, Goto, Reply, TypeInv, TypeOK
  <2> QED BY <1>1, <2>1, SubmitAssumption DEF KeyInv, NewWriter, Wrote, Writing
<1>2. CASE p \in Resolvers
  <2>1. pc'[p] = "idle" /\ due'[p] = {}
    BY <1>2, SubmitAssumption DEF Return, Goto, TypeInv, TypeOK
  <2> QED BY <1>2, <2>1, SubmitAssumption
          DEF KeyInv, NewWriter, Busy, Writing, SubmitterOnly
<1> QED BY <1>1, <1>2 DEF Procs

\* A step on the way that writes no row and takes no row lock.
LEMMA WayKey ==
  ASSUME TypeInv, NEW p \in Procs, KeyInv(p), rows' = rows,
         Busy(p), NEW l, Goto(p, l), l \notin Writing \cup {"done", "balance"},
         p \in Resolvers => l \notin SubmitterOnly,
         answer' = answer, due' = due,
         l \in {"idle", "next"} \/ tx'[p].request = tx[p].request
  PROVE  KeyInv(p)' /\ NewWriter(p)
<1>1. pc'[p] = l
  BY DEF Goto, TypeInv, TypeOK
<1>2. Key(p)' = Key(p) \/ l \in {"idle", "next"}
  BY DEF Key
<1>3. \A req : Stored(req)' = Stored(req)
  BY DEF Stored
<1>4. p \in Submitters => ~Wrote(p)'
  BY <1>1 DEF KeyInv, Wrote, Busy
<1>5. p \in Submitters => KeyInv(p)'
  BY <1>1, <1>4, SubmitAssumption DEF KeyInv, Busy
<1>6. p \in Resolvers => KeyInv(p)'
  BY <1>1, <1>2, <1>3, SubmitAssumption DEF KeyInv, Busy
<1> QED BY <1>4, <1>5, <1>6 DEF NewWriter, Procs

\* Each process keeps its key's lock, row and batch consistent.
LEMMA ActsKey ==
  ASSUME TypeInv, NEW p \in Procs, KeyInv(p), Acts(p)
  PROVE  KeyInv(p)' /\ NewWriter(p)
<1>1. CASE \E o : o # "fresh" /\ Return(p, o)
  BY <1>1, ReturnKey
<1>2. CASE \E req \in Requests : Submit(p, req)
  <2>1. /\ p \in Submitters /\ pc[p] = "idle"
        /\ \/ pc'[p] = "lookup" /\ answer' = answer
           \/ pc'[p] = "done" /\ answer'[p].outcome = "validation"
    BY <1>2 DEF Submit, Goto, Reply, TypeInv, TypeOK
  <2> QED BY <2>1, SubmitAssumption DEF KeyInv, NewWriter, Wrote, Writing
<1>3. CASE LookUp(p)
  <2>1. /\ p \in Submitters /\ Busy(p)
        /\ \/ pc'[p] \in {"process", "replay"} /\ answer' = answer
           \/ pc'[p] = "done" /\ answer'[p].outcome = "ErrIdempotencyConflict"
    BY <1>3 DEF LookUp, Goto, Reply, TypeInv, TypeOK, KeyInv, SubmitterOnly, Procs, Busy
  <2> QED BY <2>1, SubmitAssumption DEF KeyInv, NewWriter, Wrote, Writing, Busy
<1>4. CASE Replay(p)
  <2>1. /\ p \in Submitters /\ Busy(p)
        /\ \/ pc'[p] = "current" /\ answer' = answer
           \/ pc'[p] = "done" /\ answer'[p].outcome = "replay"
    BY <1>4 DEF Replay, Succeed, Goto, Reply, TypeInv, TypeOK, KeyInv, SubmitterOnly,
                Procs, Busy
  <2> QED BY <2>1, SubmitAssumption DEF KeyInv, NewWriter, Wrote, Writing, Busy
<1>5. CASE ReadBalance(p)
  <2>0. rows' = rows /\ tx' = tx /\ due' = due /\ pc[p] \in {"balance", "current"}
    BY <1>5 DEF ReadBalance, book
  <2>1. CASE p \in Submitters
    <3>1. /\ pc'[p] = "done"
          /\ pc[p] # "balance" => answer'[p].outcome = "replay"
      BY <1>5, <2>1 DEF ReadBalance, Succeed, Goto, Reply, TypeInv, TypeOK
    <3> QED BY <2>0, <2>1, <3>1, SubmitAssumption
            DEF KeyInv, NewWriter, Wrote, Writing, Stored, Key
  <2>2. CASE p \in Resolvers
    <3>1. pc'[p] = "next"
      BY <1>5, <2>2, SubmitAssumption DEF ReadBalance, Succeed, Goto, TypeInv, TypeOK
    <3> QED BY <2>0, <2>2, <3>1, SubmitAssumption
            DEF KeyInv, NewWriter, Busy, Writing, SubmitterOnly, Stored
  <2> QED BY <2>1, <2>2 DEF Procs
<1>6. CASE ProcessReversal(p)
  <2>1. TxOK(tx[p]) /\ Busy(p)
    BY <1>6, BusyKey DEF ProcessReversal, Busy
  <2>2. /\ rows' = rows /\ answer' = answer /\ due' = due
        /\ tx'[p].request = tx[p].request
        /\ \E l \in {"reschedule", "saveEvent", "lock"} : Goto(p, l)
    BY <1>6, <2>1 DEF ProcessReversal, book, MarkPendingReference, MarkRejected,
                      ResolveReference, TxOK, Transaction, TypeInv, TypeOK
  <2> QED BY <2>1, <2>2, WayKey DEF Writing, SubmitterOnly
<1>7. CASE ProcessMovement(p) \/ Reschedule(p)
  <2>1. /\ rows' = rows /\ answer' = answer /\ due' = due /\ tx' = tx /\ Busy(p)
        /\ \E l \in {"next", "lock"} : Goto(p, l)
    BY <1>7 DEF ProcessMovement, Reschedule, book, Busy
  <2> QED BY <2>1, WayKey DEF Writing, SubmitterOnly
<1>8. CASE ProcessLoss(p)
  <2>1. CASE Goto(p, "saveEvent") /\ tx' = [tx EXCEPT ![p] = MarkProcessed(@)]
             /\ UNCHANGED <<book, schedule, locks, memory, due, answer>>
    <3>1. TxOK(tx[p]) /\ Busy(p)
      BY <1>8, BusyKey DEF ProcessLoss, Busy
    <3>2. /\ rows' = rows /\ answer' = answer /\ due' = due
          /\ tx'[p].request = tx[p].request
      BY <2>1, <3>1 DEF book, MarkProcessed, TxOK, Transaction, TypeInv, TypeOK
    <3> QED BY <2>1, <3>1, <3>2, WayKey DEF Writing, SubmitterOnly
  <2> QED BY <1>1, <1>8, <2>1 DEF ProcessLoss
<1>9. CASE LockWallet(p)
  <2>1. CASE Goto(p, "decide") /\ UNCHANGED <<book, tx, due, answer>>
    <3>1. rows' = rows /\ Busy(p)
      BY <1>9, <2>1 DEF book, LockWallet, Busy
    <3> QED BY <2>1, <3>1, WayKey DEF Writing, SubmitterOnly
  <2> QED BY <1>1, <1>9, <2>1 DEF LockWallet
<1>10. CASE Decide(p)
  <2>1. CASE /\ Goto(p, "save") /\ UNCHANGED <<book, due, answer>>
             /\ \/ tx' = [tx EXCEPT ![p] = MarkProcessed(tx[p])]
                \/ \E code : tx' = [tx EXCEPT ![p] = MarkRejected(tx[p], code)]
    <3>1. TxOK(tx[p]) /\ Busy(p)
      BY <1>10, BusyKey DEF Decide, Busy
    <3>2. rows' = rows /\ tx'[p].request = tx[p].request
      BY <2>1, <3>1 DEF book, MarkProcessed, MarkRejected, TxOK, Transaction, TypeInv, TypeOK
    <3> QED BY <2>1, <3>1, <3>2, WayKey DEF Writing, SubmitterOnly
  <2> QED BY <1>1, <1>10, <2>1 DEF Decide
<1>11. CASE SaveMovement(p) \/ SaveEvent(p)
  <2>1. PICK label, next : /\ SaveWager(p, label, next)
                           /\ \/ label = "save" /\ next = "commit"
                              \/ /\ label = "saveEvent"
                                 /\ next = IF p \in Submitters THEN "share" ELSE "commitEvent"
    BY <1>11 DEF SaveMovement, SaveEvent
  <2>2. /\ rows' = rows /\ tx' = tx /\ answer' = answer /\ due' = due
        /\ Busy(p) /\ Key(p) \in Keys
    BY <2>1, BusyKey DEF SaveWager, book, Busy
  <2>3. CASE p \in Submitters /\ Goto(p, "winner")
    BY <2>2, <2>3, WayKey, SubmitAssumption DEF Writing
  <2>4. CASE /\ p \in Resolvers \/ rows[Key(p)] = NoTx
             /\ rowLock' = [rowLock EXCEPT ![Key(p)] = p] /\ Goto(p, next)
    <3>1. pc'[p] = next /\ rowLock'[Key(p)] = p
      BY <2>2, <2>4 DEF Goto, TypeInv, TypeOK
    <3>2. p \in Submitters => ~Wrote(p)'
      BY <2>1, <2>2, <3>1 DEF KeyInv, Wrote, Busy
    <3>3. p \in Submitters => KeyInv(p)'
      BY <2>1, <2>2, <2>4, <3>1, <3>2, SubmitAssumption DEF KeyInv, Busy, Key
    <3>4. p \in Resolvers => KeyInv(p)'
      BY <2>1, <2>2, <2>4, <3>1, SubmitAssumption
         DEF KeyInv, Busy, Key, Stored, Writing, SubmitterOnly
    <3> QED BY <3>2, <3>3, <3>4 DEF NewWriter, Procs
  <2> QED BY <2>1, <2>3, <2>4 DEF SaveWager
<1>12. CASE ShareWallet(p)
  <2>1. CASE Goto(p, "commitEvent") /\ UNCHANGED <<book, rowLock, tx, due, answer>>
    <3>1. /\ pc'[p] = "commitEvent" /\ rows' = rows /\ pc[p] = "share"
          /\ p \in Submitters /\ Key(p)' = Key(p)
      BY <1>12, <2>1 DEF book, ShareWallet, Goto, KeyInv, SubmitterOnly, TypeInv, TypeOK,
                         Procs, Key
    <3> QED BY <2>1, <3>1, SubmitAssumption DEF KeyInv, NewWriter, Wrote, Writing
  <2> QED BY <1>1, <1>12, <2>1 DEF ShareWallet
<1>13. CASE Commits(p) /\ (CommitMovement(p) \/ CommitEvent(p) \/ LoseCommitReply(p))
  <2>1. /\ Busy(p) /\ TxOK(tx[p]) /\ Key(p) \in Keys
        /\ rows'[Key(p)] = tx[p] /\ tx[p] # NoTx /\ tx' = tx
    BY <1>13, CommitRow, BusyKey DEF Commits
  <2>2. Stored(tx[p].request)'
    BY <2>1 DEF Stored, Key
  <2>3. CASE p \in Submitters
    <3>1. pc'[p] = "done" \/ (pc'[p] = "balance" /\ answer' = answer)
      <4>1. Goto(p, "done") \/ (Goto(p, "balance") /\ answer' = answer)
        <5>1. CASE CommitMovement(p)
          BY <2>3, <5>1 DEF CommitMovement, Return, Succeed
        <5>2. CASE CommitEvent(p)
          BY <5>2 DEF CommitEvent
        <5>3. CASE LoseCommitReply(p)
          BY <2>3, <5>3 DEF LoseCommitReply
        <5> QED BY <1>13, <5>1, <5>2, <5>3
      <4> QED BY <4>1 DEF Goto, TypeInv, TypeOK
    <3>2. rows[Key(p)] = NoTx
      BY <1>13, <2>3, CommitRow
    <3>3. pc[p] # "done"
      BY <2>1 DEF Busy
    <3> QED BY <2>1, <2>2, <2>3, <3>1, <3>2, <3>3, SubmitAssumption
            DEF KeyInv, NewWriter, Writing
  <2>4. CASE p \in Resolvers
    <3>1. /\ pc'[p] \in {"balance", "next", "idle"}
          /\ due'[p] = due[p] \/ due'[p] = {}
      BY <1>13, <2>1, <2>4, SubmitAssumption
         DEF CommitMovement, CommitEvent, LoseCommitReply, Return, Succeed, Goto,
             TypeInv, TypeOK
    <3>2. \A req : Stored(req) => Stored(req)'
      BY <1>13, RowsStand
    <3> QED BY <2>1, <2>2, <2>4, <3>1, <3>2, SubmitAssumption
            DEF KeyInv, NewWriter, Writing, SubmitterOnly
  <2> QED BY <2>3, <2>4 DEF Procs
<1>14. CASE FindDue(p)
  <2>1. /\ p \in Resolvers /\ pc'[p] = "next" /\ rows' = rows
        /\ \A item \in due'[p] : \E k \in Keys :
             item.tx = rows[k] /\ rows[k].status = "PENDING_REFERENCE"
    BY <1>14 DEF FindDue, Goto, book, TypeInv, TypeOK
  <2>2. \A k \in Keys : rows[k].status = "PENDING_REFERENCE" => rows[k] # NoTx
    BY DEF NoTx
  <2>3. \A item \in due'[p] : Stored(item.tx.request)'
    BY <2>1, <2>2 DEF Stored, TypeInv, WellFormed, RowsOK
  <2> QED BY <2>1, <2>3, SubmitAssumption
          DEF KeyInv, NewWriter, Busy, Writing, SubmitterOnly
<1>15. CASE ResolveOne(p)
  <2>0. pc[p] = "next" /\ answer' = answer /\ pc'[p] \in {"idle", "saveEvent", "process"}
    BY <1>15 DEF ResolveOne, Goto, TypeInv, TypeOK
  <2>1. rows' = rows /\ due'[p] \subseteq due[p]
    BY <1>15 DEF ResolveOne, book, TypeInv, TypeOK
  <2>2. CASE pc'[p] = "idle"
    BY <2>0, <2>1, <2>2, SubmitAssumption
       DEF KeyInv, NewWriter, Busy, Wrote, Writing, SubmitterOnly, Stored
  <2>3. CASE \E item \in due[p] :
               /\ pc'[p] \in {"saveEvent", "process"}
               /\ tx'[p] = item.tx \/ tx'[p] = MarkRejected(item.tx, "REFERENCE_NOT_FOUND")
    <3>1. PICK item \in due[p] :
               /\ pc'[p] \in {"saveEvent", "process"}
               /\ tx'[p] = item.tx \/ tx'[p] = MarkRejected(item.tx, "REFERENCE_NOT_FOUND")
      BY <2>3
    <3>2. TxOK(item.tx)
      BY DEF TypeInv, WellFormed
    <3>3. tx'[p].request = item.tx.request
      BY <3>1, <3>2 DEF MarkRejected, TxOK, Transaction
    <3> QED BY <2>0, <2>1, <3>1, <3>3, SubmitAssumption
            DEF KeyInv, NewWriter, Busy, Wrote, Writing, SubmitterOnly, Stored
  <2> QED BY <1>15, <2>2, <2>3 DEF ResolveOne, Goto, TypeInv, TypeOK
<1>16. CASE DeadlockVictim(p) \/ Fail(p)
  BY <1>1, <1>16 DEF DeadlockVictim, Fail
<1>17. CASE CommitMovement(p) \/ CommitEvent(p) \/ LoseCommitReply(p)
  <2>1. Return(p, "duplicate_ledger_entry") \/ Commits(p)
    BY <1>17 DEF CommitMovement, CommitEvent, LoseCommitReply, Commits
  <2> QED BY <1>1, <1>13, <1>17, <2>1
<1> QED BY <1>2, <1>3, <1>4, <1>5, <1>6, <1>7, <1>8, <1>9, <1>10, <1>11, <1>12, <1>14,
           <1>15, <1>16, <1>17 DEF Acts, Step

\* A submitter writes a key that has no row, the others that have written have
\* one.
LEMMA WriterStep ==
  ASSUME KeysInv, NEW p \in Procs, Alone(p), rows' = rows \/ Commits(p),
         NewWriter(p)
  PROVE  OneWriter'
<1> SUFFICES ASSUME NEW q \in Submitters, NEW s \in Submitters, q # s,
                    Wrote(q)', Wrote(s)', Key(q)' = Key(s)'
             PROVE  FALSE
  BY DEF OneWriter
<1>1. \A u \in Submitters : u # p /\ Wrote(u)' => Wrote(u) /\ Key(u)' = Key(u)
  BY DEF Alone, Wrote, Key, Procs
<1>2. \A u \in Submitters : Wrote(u) => rows[Key(u)] # NoTx
  BY DEF KeysInv, KeyInv, Stored, Key, Procs
<1>3. p \in Submitters /\ Wrote(p)' =>
        Key(p)' = Key(p) /\ (Wrote(p) \/ rows[Key(p)] = NoTx)
  BY DEF NewWriter, Key
<1> QED BY <1>1, <1>2, <1>3 DEF KeysInv, OneWriter

\* At first there are no rows, and nobody has written or been answered.
LEMMA KeysInit == Init => KeysInv
<1> SUFFICES ASSUME Init PROVE KeysInv
  OBVIOUS
<1>1. \A p \in Procs : KeyInv(p)
  BY SubmitAssumption DEF Init, KeyInv, Writing, SubmitterOnly, Busy, Wrote, Procs
<1>2. OneWriter
  BY DEF Init, OneWriter, Wrote, Procs
<1> QED BY <1>1, <1>2, LedgerInit DEF KeysInv

\* Every step leaves a key to the one that has its lock.
LEMMA KeysNext == ASSUME KeysInv, [Next]_vars PROVE KeysInv'
<1>0. LedgerInv' /\ TypeInv
  BY LedgerNext DEF KeysInv, LedgerInv
<1>1. ASSUME NEW p \in Procs, Acts(p) PROVE KeysInv'
  <2>1. Alone(p) /\ (rows' = rows \/ Commits(p))
    BY <1>0, <1>1, ActsAlone
  <2>2. KeyInv(p)' /\ NewWriter(p)
    BY <1>0, <1>1, ActsKey DEF KeysInv
  <2>3. \A q \in Procs : q # p => KeyInv(q)'
    BY <1>0, <2>1, KeyFrame DEF KeysInv
  <2>4. OneWriter'
    BY <2>1, <2>2, WriterStep
  <2> QED BY <1>0, <2>2, <2>3, <2>4 DEF KeysInv
<1>2. ASSUME UNCHANGED <<rows, rowLock, pc, tx, due, answer>> PROVE KeysInv'
  BY <1>0, <1>2 DEF KeysInv, KeyInv, OneWriter, Wrote, Stored, Busy, Key
<1>3. CASE UNCHANGED vars
  BY <1>2, <1>3 DEF vars, book, locks
<1>4. ASSUME NEW k \in Keys, RetryDue(k) \/ Expire(k) PROVE KeysInv'
  BY <1>2, <1>4 DEF RetryDue, Expire, book, locks
<1> QED BY <1>1, <1>3, <1>4 DEF Next, Acts

\* Among the concurrent submissions of one key, however many resolvers and
\* other submitters interfere, at most one is answered as the one that
\* processed it.
THEOREM OneFresh == Spec => []OneFreshAnswer
<1>1. KeysInv => OneFreshAnswer
  BY DEF KeysInv, OneWriter, OneFreshAnswer, Wrote
<1> QED BY <1>1, KeysInit, KeysNext, PTL DEF Spec

-----------------------------------------------------------------------------
\* Entries and answers, for any number of resolvers: what remains of
\* LedgerTellsRows and AnswersHold where a settled row can be rewritten.

\* The entry of that key has recorded that balance.
Recorded(k, balance) ==
  \E w \in Wallets : \E i \in DOMAIN ledger[w] :
    ledger[w][i].key = k /\ ledger[w][i].after = balance


\* What commits leave true of rows and ledger: a movement has its entry, and an
\* entry has a row of its wallet and amount.
EntriesHaveRows ==
  /\ \A k \in Keys : rows[k] # NoTx /\ Moves(rows[k]) => HasLedgerEntry(k)
  /\ \A w \in Wallets : \A i \in DOMAIN ledger[w] :
       LET e == ledger[w][i] IN
       e.key # NoKey =>
         /\ rows[e.key] # NoTx
         /\ rows[e.key].request.wallet = w
         /\ rows[e.key].request.amount = e.amount

\* What p was told is said of its own request, and the balance it was told of a
\* movement is the one the ledger has recorded for it.
Told(p) ==
  /\ answer[p].outcome \in {"fresh", "replay"} =>
       /\ Stored(tx[p].request)
       /\ answer[p].status = "PROCESSED" /\ tx[p].request.kind # "LOSS" =>
            Recorded(Key(p), answer[p].balance)
  /\ answer[p].outcome = "ErrIdempotencyConflict" =>
       /\ Key(p) \in Keys /\ rows[Key(p)] # NoTx
       /\ rows[Key(p)].request # tx[p].request

\* What Submit has answered, of every caller.
AnswersRecorded == \A p \in Submitters : Told(p)

\* What p knows of its row before it answers.
Replaying(p) ==
  /\ pc[p] \in {"replay", "current", "balance"} => Stored(tx[p].request)
  /\ pc[p] = "replay" /\ Moves(tx[p]) => HasLedgerEntry(Key(p))
  /\ pc[p] \in {"current", "balance"} => ~Moves(tx[p])

\* The entry p is about to write is of the amount requested.
Sized(p) ==
  pc[p] \in {"save", "commit"} /\ Moves(tx[p]) => entry[p].amount = tx[p].request.amount

EntriesInv ==
  /\ KeysInv /\ EntriesHaveRows
  /\ \A p \in Procs : Sized(p)
  /\ \A p \in Submitters : Replaying(p) /\ Told(p)

\* The entries of the others are left alone, and the book but by commits.
LEMMA ActsBook ==
  ASSUME TypeInv, NEW p \in Procs, Acts(p)
  PROVE  /\ \A q \in Procs : q # p => entry'[q] = entry[q]
         /\ book' = book \/ Commits(p)
<1>1. CASE \E o : Return(p, o)
  BY <1>1 DEF Return, memory
<1>2. CASE \E req \in Requests : Submit(p, req)
  BY <1>2 DEF Submit, memory
<1>3. CASE LookUp(p) \/ Replay(p) \/ ReadBalance(p) \/ ProcessMovement(p)
  BY <1>3 DEF LookUp, Replay, ReadBalance, ProcessMovement, memory
<1>4. CASE ProcessReversal(p) \/ FindDue(p) \/ ResolveOne(p) \/ Reschedule(p)
  BY <1>4 DEF ProcessReversal, FindDue, ResolveOne, Reschedule, memory
<1>5. CASE ProcessLoss(p) \/ LockWallet(p) \/ ShareWallet(p)
  BY <1>1, <1>5 DEF ProcessLoss, LockWallet, ShareWallet, memory
<1>6. CASE Decide(p)
  <2>1. CASE /\ UNCHANGED book
             /\ entry' = entry \/ \E e : entry' = [entry EXCEPT ![p] = e]
    BY <2>1 DEF TypeInv, TypeOK
  <2> QED BY <1>1, <1>6, <2>1 DEF Decide, memory
<1>7. CASE SaveMovement(p) \/ SaveEvent(p)
  BY <1>7 DEF SaveMovement, SaveEvent, SaveWager, memory
<1>8. CASE CommitMovement(p) \/ CommitEvent(p) \/ LoseCommitReply(p)
  BY <1>1, <1>8 DEF CommitMovement, CommitEvent, LoseCommitReply, Commits, memory
<1>9. CASE DeadlockVictim(p) \/ Fail(p)
  BY <1>1, <1>9 DEF DeadlockVictim, Fail
<1> QED BY <1>2, <1>3, <1>4, <1>5, <1>6, <1>7, <1>8, <1>9 DEF Acts, Step

\* What a commit does to the ledger: it appends p's entry, or nothing.
LEMMA CommitEntry ==
  ASSUME LedgerInv, NEW p \in Procs, Commits(p)
  PROVE  /\ \A w \in Wallets : \A i \in DOMAIN ledger[w] :
              i \in DOMAIN ledger'[w] /\ ledger'[w][i] = ledger[w][i]
         /\ \A w \in Wallets : \A i \in DOMAIN ledger'[w] :
              \/ i \in DOMAIN ledger[w] /\ ledger'[w][i] = ledger[w][i]
              \/ Moves(tx[p]) /\ w = WalletOf(p) /\ ledger'[w][i] = entry[p]
         /\ Moves(tx[p]) =>
              \E i \in DOMAIN ledger'[WalletOf(p)] : ledger'[WalletOf(p)][i] = entry[p]
<1> DEFINE v == WalletOf(p)
<1>0. TypeInv /\ Mine(p)
  BY DEF LedgerInv, LockInv
<1>1. CASE ~Moves(tx[p])
  BY <1>1 DEF Commits, Persist
<1>2. CASE Moves(tx[p])
  <2>0. pc[p] = "commit"
    BY <1>0, <1>2 DEF Commits, Mine, Aside
  <2>1. /\ v \in Wallets /\ ledger[v] \in Seq(LedgerEntry)
        /\ ledger' = [ledger EXCEPT ![v] = Append(ledger[v], entry[p])]
    BY <1>0, <1>2, <2>0 DEF Commits, Persist, Mine, Inside, TypeInv, TypeOK
  <2>2. /\ \A w \in Wallets : w # v => ledger'[w] = ledger[w]
        /\ ledger'[v] = Append(ledger[v], entry[p])
    BY <2>1, <1>0 DEF TypeInv, TypeOK
  <2> HIDE DEF v
  <2>3. /\ \A i \in DOMAIN ledger[v] :
             i \in DOMAIN ledger'[v] /\ ledger'[v][i] = ledger[v][i]
        /\ \A i \in DOMAIN ledger'[v] :
             \/ i \in DOMAIN ledger[v] /\ ledger'[v][i] = ledger[v][i]
             \/ ledger'[v][i] = entry[p]
        /\ \E i \in DOMAIN ledger'[v] : ledger'[v][i] = entry[p]
    BY <2>1, <2>2
  <2> QED BY <1>2, <2>1, <2>2, <2>3 DEF v
<1> QED BY <1>1, <1>2

\* Rows stay and keep their requests, entries stay.
LEMMA BookStays ==
  ASSUME LedgerInv, NEW p \in Procs, KeyInv(p), book' = book \/ Commits(p)
  PROVE  /\ \A req : Stored(req) => Stored(req)'
         /\ \A k \in Keys : rows[k] # NoTx =>
              rows'[k] # NoTx /\ rows'[k].request = rows[k].request
         /\ \A k : HasLedgerEntry(k) => HasLedgerEntry(k)'
         /\ \A k, b : Recorded(k, b) => Recorded(k, b)'
<1>1. rows' = rows \/ Commits(p)
  BY DEF book
<1>2. \A req : Stored(req) => Stored(req)'
  BY <1>1, RowsStand DEF LedgerInv
<1>3. \A k \in Keys : rows[k] # NoTx => Stored(rows[k].request) /\ rows[k].request.key = k
  BY DEF LedgerInv, TypeInv, WellFormed, RowsOK, Stored
<1>4. \A k \in Keys : rows[k] # NoTx =>
        rows'[k] # NoTx /\ rows'[k].request = rows[k].request
  BY <1>2, <1>3 DEF Stored
<1>5. \A w \in Wallets : \A i \in DOMAIN ledger[w] :
        i \in DOMAIN ledger'[w] /\ ledger'[w][i] = ledger[w][i]
  BY CommitEntry DEF book
<1> QED BY <1>2, <1>4, <1>5 DEF HasLedgerEntry, Recorded

\* The entry of a commit is the one of its row; the other rows keep theirs.
LEMMA EntriesStep ==
  ASSUME LedgerInv, EntriesHaveRows, NEW p \in Procs, KeyInv(p), Sized(p),
         book' = book \/ Commits(p)
  PROVE  EntriesHaveRows'
<1>1. CASE book' = book
  BY <1>1 DEF EntriesHaveRows, HasLedgerEntry, book
<1>2. CASE Commits(p)
  <2>1. /\ TypeInv /\ Mine(p) /\ Key(p) \in Keys /\ tx[p] # NoTx
        /\ rows' = [rows EXCEPT ![Key(p)] = tx[p]] /\ rows'[Key(p)] = tx[p]
    BY <1>2, CommitRow, BusyKey DEF LedgerInv, LockInv
  <2>2. \A k \in Keys : k # Key(p) => rows'[k] = rows[k]
    BY <2>1 DEF TypeInv, TypeOK
  <2>3. Moves(tx[p]) =>
          /\ pc[p] = "commit" /\ entry[p].key = Key(p) /\ WalletOf(p) \in Wallets
          /\ entry[p].amount = tx[p].request.amount
    BY <1>2, <2>1 DEF Mine, Inside, Aside, Commits, Sized
  <2>4. \A k \in Keys : rows'[k] # NoTx /\ Moves(rows[k])' => HasLedgerEntry(k)'
    <3> SUFFICES ASSUME NEW k \in Keys, rows'[k] # NoTx, Moves(rows[k])'
                 PROVE  HasLedgerEntry(k)'
      OBVIOUS
    <3>1. CASE k = Key(p)
      <4>1. Moves(tx[p])
        BY <2>1, <3>1 DEF Moves
      <4>2. \E i \in DOMAIN ledger'[WalletOf(p)] : ledger'[WalletOf(p)][i] = entry[p]
        BY <1>2, <4>1, CommitEntry
      <4> QED BY <2>3, <3>1, <4>1, <4>2 DEF HasLedgerEntry
    <3>2. CASE k # Key(p)
      <4>1. rows[k] # NoTx /\ Moves(rows[k])
        BY <2>2, <3>2 DEF Moves
      <4> QED BY <1>2, <4>1, BookStays DEF EntriesHaveRows
    <3> QED BY <3>1, <3>2
  <2>5. ASSUME NEW w \in Wallets, NEW i \in DOMAIN ledger'[w], NEW e, e = ledger'[w][i],
               e.key # NoKey
        PROVE  /\ rows'[e.key] # NoTx
               /\ rows'[e.key].request.wallet = w
               /\ rows'[e.key].request.amount = e.amount
    <3>1. CASE i \in DOMAIN ledger[w] /\ e = ledger[w][i]
      <4>1. ledger[w][i] \in LedgerEntry
        BY <2>1, <3>1 DEF TypeInv, TypeOK
      <4>2. e.key \in Keys
        BY <2>5, <3>1, <4>1 DEF LedgerEntry
      <4>3. /\ rows[e.key] # NoTx
            /\ rows[e.key].request.wallet = w
            /\ rows[e.key].request.amount = e.amount
        BY <2>5, <3>1 DEF EntriesHaveRows
      <4> QED BY <1>2, <4>2, <4>3, BookStays
    <3>2. CASE Moves(tx[p]) /\ w = WalletOf(p) /\ e = entry[p]
      BY <2>1, <2>3, <3>2 DEF WalletOf
    <3> QED BY <1>2, <2>5, <3>1, <3>2, CommitEntry
  <2> QED BY <2>4, <2>5 DEF EntriesHaveRows
<1> QED BY <1>1, <1>2

\* Only Decide builds an entry, together with what it is the entry of.
LEMMA SizedStep ==
  ASSUME TypeInv, NEW p \in Procs, Sized(p), Acts(p)
  PROVE  Sized(p)'
<1>1. ASSUME NEW l, Goto(p, l), l \notin {"save", "commit"} PROVE Sized(p)'
  BY <1>1 DEF Sized, Goto, TypeInv, TypeOK
<1>2. CASE \E o : Return(p, o)
  BY <1>1, <1>2 DEF Return
<1>3. CASE \E req \in Requests : Submit(p, req)
  BY <1>1, <1>3 DEF Submit
<1>4. CASE LookUp(p) \/ Replay(p) \/ ReadBalance(p) \/ ProcessMovement(p)
  BY <1>1, <1>4 DEF LookUp, Replay, ReadBalance, ProcessMovement, Succeed
<1>5. CASE ProcessReversal(p) \/ FindDue(p) \/ ResolveOne(p) \/ Reschedule(p)
  BY <1>1, <1>5 DEF ProcessReversal, FindDue, ResolveOne, Reschedule
<1>6. CASE ProcessLoss(p) \/ LockWallet(p) \/ ShareWallet(p)
  BY <1>1, <1>2, <1>6 DEF ProcessLoss, LockWallet, ShareWallet
<1>7. CASE Decide(p)
  <2>1. TxOK(tx[p])
    BY <1>7 DEF TypeInv, WellFormed, Busy, Decide
  <2>2. CASE \E code \in FailureCodes : tx' = [tx EXCEPT ![p] = MarkRejected(tx[p], code)]
    BY <2>1, <2>2 DEF Sized, Moves, MarkRejected, TypeInv, TypeOK
  <2>3. CASE /\ tx' = [tx EXCEPT ![p] = MarkProcessed(tx[p])]
             /\ \E d, b, a : entry' = [entry EXCEPT ![p] =
                  [key |-> Key(p), direction |-> d, amount |-> tx[p].request.amount,
                   before |-> b, after |-> a]]
    <3>1. tx'[p].request = tx[p].request
      BY <2>1, <2>3 DEF MarkProcessed, TxOK, Transaction, TypeInv, TypeOK
    <3>2. entry'[p].amount = tx[p].request.amount
      BY <2>3 DEF TypeInv, TypeOK
    <3> QED BY <3>1, <3>2 DEF Sized
  <2> QED BY <1>2, <1>7, <2>2, <2>3 DEF Decide, InsufficientCode, FailureCodes
<1>8. CASE SaveMovement(p) \/ SaveEvent(p)
  <2>1. tx' = tx /\ entry' = entry
    BY <1>8 DEF SaveMovement, SaveEvent, SaveWager, memory
  <2>2. CASE SaveMovement(p)
    BY <2>1, <2>2 DEF Sized, SaveMovement, SaveWager
  <2>3. CASE SaveEvent(p)
    BY <1>1, <2>3 DEF SaveEvent, SaveWager
  <2> QED BY <1>8, <2>2, <2>3
<1>9. CASE CommitMovement(p) \/ CommitEvent(p) \/ LoseCommitReply(p)
  BY <1>1, <1>2, <1>9 DEF CommitMovement, CommitEvent, LoseCommitReply, Succeed
<1>10. CASE DeadlockVictim(p) \/ Fail(p)
  BY <1>2, <1>10 DEF DeadlockVictim, Fail
<1> QED BY <1>3, <1>4, <1>5, <1>6, <1>7, <1>8, <1>9, <1>10 DEF Acts, Step

\* What another was told, or is about to be told, stays true.
LEMMA TellingFrame ==
  ASSUME LedgerInv, NEW p \in Procs, KeyInv(p), Alone(p), book' = book \/ Commits(p),
         NEW q \in Submitters, q # p, Replaying(q), Told(q)
  PROVE  Replaying(q)' /\ Told(q)'
<1>1. /\ pc'[q] = pc[q] /\ tx'[q] = tx[q] /\ answer'[q] = answer[q] /\ Key(q)' = Key(q)
  BY DEF Alone, Key, Procs
<1>2. Moves(tx[q])' = Moves(tx[q])
  BY <1>1 DEF Moves
<1>3. Replaying(q)'
  BY <1>1, <1>2, BookStays DEF Replaying
<1>4. Told(q)'
  BY <1>1, BookStays DEF Told
<1> QED BY <1>3, <1>4

\* Nobody is told anything by a step that ends with an error, or goes on.
LEMMA SaysNothing ==
  ASSUME NEW p \in Submitters,
         pc'[p] \notin {"replay", "current", "balance"},
         \/ answer'[p] = answer[p] /\ answer[p].outcome = "none"
         \/ answer'[p].outcome \notin {"fresh", "replay", "ErrIdempotencyConflict"}
  PROVE  Replaying(p)' /\ Told(p)'
BY DEF Replaying, Told

\* The steps that answer: reading the row, the entry or the balance, and the
\* commit of a movement.
LEMMA TellingStep ==
  ASSUME LedgerInv, EntriesHaveRows, NEW p \in Submitters, KeyInv(p), Replaying(p), Acts(p)
  PROVE  Replaying(p)' /\ Told(p)'
<1>0. /\ TypeInv /\ p \in Procs /\ p \notin Resolvers /\ Mine(p)
      /\ pc[p] # "done" => answer[p].outcome = "none"
  BY SubmitAssumption DEF LedgerInv, LockInv, Procs, KeyInv
<1>1. ASSUME NEW o, Return(p, o), o \notin {"fresh", "replay", "ErrIdempotencyConflict"}
      PROVE  Replaying(p)' /\ Told(p)'
  <2>1. pc'[p] = "done" /\ answer'[p].outcome = o
    BY <1>0, <1>1 DEF Return, Goto, Reply, TypeInv, TypeOK
  <2> QED BY <1>1, <2>1, SaysNothing
<1>2. CASE \E req \in Requests : Submit(p, req)
  <2>1. \/ pc'[p] = "lookup" /\ answer' = answer /\ pc[p] = "idle"
        \/ pc'[p] = "done" /\ answer'[p].outcome = "validation"
    BY <1>0, <1>2 DEF Submit, Goto, Reply, TypeInv, TypeOK
  <2> QED BY <1>0, <2>1, SaysNothing
<1>3. CASE LookUp(p)
  <2>1. /\ rows' = rows /\ ledger' = ledger /\ Busy(p) /\ Key(p) \in Keys /\ pc[p] # "done"
    BY <1>0, <1>3, BusyKey DEF LookUp, Busy, book
  <2>2. CASE pc'[p] = "process" /\ answer' = answer
    BY <1>0, <2>1, <2>2, SaysNothing
  <2>3. CASE /\ rows[Key(p)] # NoTx /\ rows[Key(p)].request # tx[p].request
             /\ tx' = tx /\ pc'[p] = "done"
             /\ answer'[p].outcome = "ErrIdempotencyConflict"
    BY <2>1, <2>3 DEF Replaying, Told, Key
  <2>4. CASE /\ rows[Key(p)] # NoTx /\ tx'[p] = rows[Key(p)]
             /\ pc'[p] = "replay" /\ answer' = answer
    <3>1. rows[Key(p)].request.key = Key(p) /\ Key(p)' = Key(p)
      BY <1>0, <2>1, <2>4 DEF TypeInv, WellFormed, RowsOK, Key
    <3>2. Moves(tx[p])' => HasLedgerEntry(Key(p))'
      BY <2>1, <2>4, <3>1 DEF EntriesHaveRows, Moves, HasLedgerEntry
    <3> QED BY <1>0, <2>1, <2>4, <3>1, <3>2 DEF Replaying, Told, Stored
  <2>5. \/ pc'[p] = "process" /\ answer' = answer
        \/ /\ rows[Key(p)] # NoTx /\ rows[Key(p)].request # tx[p].request
           /\ tx' = tx /\ pc'[p] = "done"
           /\ answer'[p].outcome = "ErrIdempotencyConflict"
        \/ /\ rows[Key(p)] # NoTx /\ tx'[p] = rows[Key(p)]
           /\ pc'[p] = "replay" /\ answer' = answer
    BY <1>0, <1>3 DEF LookUp, SamePayload, Goto, Reply, TypeInv, TypeOK
  <2> QED BY <2>2, <2>3, <2>4, <2>5
<1>4. CASE Replay(p)
  <2>1. /\ rows' = rows /\ ledger' = ledger /\ tx' = tx /\ pc[p] = "replay"
        /\ Key(p)' = Key(p) /\ Stored(tx[p].request)
        /\ Moves(tx[p]) => HasLedgerEntry(Key(p))
    BY <1>4 DEF Replay, book, Key, Replaying
  <2>2. CASE \E w \in Wallets : \E i \in DOMAIN ledger[w] :
               /\ ledger[w][i].key = Key(p)
               /\ Succeed(p, "replay", ledger[w][i].after)
    <3>0. PICK w \in Wallets : \E i \in DOMAIN ledger[w] :
               /\ ledger[w][i].key = Key(p)
               /\ Succeed(p, "replay", ledger[w][i].after)
      BY <2>2
    <3>1. PICK i \in DOMAIN ledger[w] :
               /\ ledger[w][i].key = Key(p)
               /\ Succeed(p, "replay", ledger[w][i].after)
      BY <3>0
    <3>2. /\ pc'[p] = "done" /\ answer'[p].outcome = "replay"
          /\ answer'[p].balance = ledger[w][i].after
      BY <1>0, <3>1 DEF Succeed, Goto, Reply, TypeInv, TypeOK
    <3>3. Recorded(Key(p), answer[p].balance)'
      BY <2>1, <3>1, <3>2 DEF Recorded
    <3> QED BY <2>1, <3>2, <3>3 DEF Replaying, Told, Stored
  <2>3. CASE ~HasLedgerEntry(Key(p)) /\ Goto(p, "current") /\ answer' = answer
    <3>1. pc'[p] = "current" /\ ~Moves(tx[p])
      BY <1>0, <2>1, <2>3 DEF Goto, TypeInv, TypeOK
    <3> QED BY <1>0, <2>1, <2>3, <3>1 DEF Replaying, Told, Stored, Moves
  <2> QED BY <1>4, <2>2, <2>3 DEF Replay
<1>5. CASE ReadBalance(p)
  <2>1. /\ rows' = rows /\ tx' = tx /\ Key(p)' = Key(p) /\ Stored(tx[p].request)
        /\ ~Moves(tx[p])
    BY <1>5 DEF ReadBalance, book, Key, Replaying
  <2>2. /\ pc'[p] = "done" /\ answer'[p].outcome \in {"fresh", "replay"}
        /\ answer'[p].status = tx[p].status
    BY <1>0, <1>5 DEF ReadBalance, Succeed, Goto, Reply, TypeInv, TypeOK
  <2> QED BY <2>1, <2>2 DEF Replaying, Told, Stored, Moves
<1>6. CASE Commits(p) /\ (CommitMovement(p) \/ CommitEvent(p) \/ LoseCommitReply(p))
  <2>1. /\ rows'[Key(p)] = tx[p] /\ tx' = tx /\ Key(p)' = Key(p) /\ Key(p) \in Keys
        /\ tx[p] # NoTx /\ tx[p].request.key = Key(p) /\ pc[p] # "done"
    BY <1>0, <1>6, CommitRow, BusyKey DEF Key, Commits
  <2>2. CASE LoseCommitReply(p)
    <3>1. pc'[p] = "done" /\ answer'[p].outcome = "unavailable"
      BY <1>0, <2>2 DEF LoseCommitReply, Goto, Reply, TypeInv, TypeOK
    <3> QED BY <3>1, SaysNothing
  <2>3. CASE CommitEvent(p)
    <3>1. pc'[p] = "balance" /\ answer' = answer /\ ~Moves(tx[p])
      BY <1>0, <2>3 DEF CommitEvent, Goto, TypeInv, TypeOK, Mine, Aside
    <3> QED BY <1>0, <2>1, <3>1 DEF Replaying, Told, Stored, Moves
  <2>4. CASE CommitMovement(p) /\ Succeed(p, "fresh", loaded[p].balance)
    <3>1. /\ pc'[p] = "done" /\ answer'[p].outcome = "fresh"
          /\ answer'[p].status = tx[p].status /\ answer'[p].balance = loaded[p].balance
      BY <1>0, <2>4 DEF Succeed, Goto, Reply, TypeInv, TypeOK
    <3>2. Moves(tx[p]) => Recorded(Key(p), answer[p].balance)'
      <4> SUFFICES ASSUME Moves(tx[p]) PROVE Recorded(Key(p), answer[p].balance)'
        OBVIOUS
      <4>1. /\ WalletOf(p) \in Wallets /\ entry[p].key = Key(p)
            /\ entry[p].after = loaded[p].balance
        BY <1>0, <2>4 DEF Mine, Inside, CommitMovement
      <4>2. \E i \in DOMAIN ledger'[WalletOf(p)] : ledger'[WalletOf(p)][i] = entry[p]
        BY <1>0, <1>6, CommitEntry
      <4> QED BY <2>1, <3>1, <4>1, <4>2 DEF Recorded
    <3> QED BY <2>1, <3>1, <3>2 DEF Replaying, Told, Stored, Moves
  <2>5. CASE Return(p, "duplicate_ledger_entry")
    BY <1>1, <2>5
  <2> QED BY <1>6, <2>2, <2>3, <2>4, <2>5 DEF CommitMovement
<1>7. CASE /\ pc[p] # "done" /\ answer' = answer
           /\ \E l : Goto(p, l) /\ l \notin {"replay", "current", "balance"}
  <2>1. pc'[p] \notin {"replay", "current", "balance"}
    BY <1>0, <1>7 DEF Goto, TypeInv, TypeOK
  <2> QED BY <1>0, <1>7, <2>1, SaysNothing
<1>8. CASE ProcessReversal(p) \/ ProcessMovement(p) \/ FindDue(p) \/ ResolveOne(p) \/ Reschedule(p)
  BY <1>7, <1>8 DEF ProcessReversal, ProcessMovement, FindDue, ResolveOne, Reschedule
<1>9. CASE ProcessLoss(p) \/ LockWallet(p) \/ ShareWallet(p) \/ Decide(p)
  BY <1>1, <1>7, <1>9 DEF ProcessLoss, LockWallet, ShareWallet, Decide
<1>10. CASE SaveMovement(p) \/ SaveEvent(p)
  BY <1>7, <1>10 DEF SaveMovement, SaveEvent, SaveWager
<1>11. CASE CommitMovement(p) \/ CommitEvent(p) \/ LoseCommitReply(p)
  <2>1. Return(p, "duplicate_ledger_entry") \/ Commits(p)
    BY <1>11 DEF CommitMovement, CommitEvent, LoseCommitReply, Commits
  <2> QED BY <1>1, <1>6, <1>11, <2>1
<1>12. CASE DeadlockVictim(p) \/ Fail(p)
  BY <1>1, <1>12 DEF DeadlockVictim, Fail
<1> QED BY <1>2, <1>3, <1>4, <1>5, <1>8, <1>9, <1>10, <1>11, <1>12 DEF Acts, Step

\* At first the only entries are those of the openings, and nobody has been
\* told anything.
LEMMA EntriesInit == Init => EntriesInv
<1> SUFFICES ASSUME Init PROVE EntriesInv
  OBVIOUS
<1>1. EntriesHaveRows
  BY DEF Init, EntriesHaveRows
<1>2. \A p \in Procs : Sized(p)
  BY DEF Init, Sized
<1>3. \A p \in Submitters : Replaying(p) /\ Told(p)
  BY DEF Init, Replaying, Told, Procs
<1> QED BY <1>1, <1>2, <1>3, KeysInit DEF EntriesInv

\* Every step keeps entries, rows and answers together.
LEMMA EntriesNext == ASSUME EntriesInv, [Next]_vars PROVE EntriesInv'
<1>0. KeysInv' /\ LedgerInv /\ TypeInv /\ \A p \in Procs : KeyInv(p)
  BY KeysNext DEF EntriesInv, KeysInv, LedgerInv
<1>1. ASSUME NEW p \in Procs, Acts(p) PROVE EntriesInv'
  <2>1. /\ Alone(p) /\ (book' = book \/ Commits(p))
        /\ \A q \in Procs : q # p => entry'[q] = entry[q]
    BY <1>0, <1>1, ActsAlone, ActsBook
  <2>2. EntriesHaveRows'
    BY <1>0, <2>1, EntriesStep DEF EntriesInv
  <2>3. ASSUME NEW q \in Procs PROVE Sized(q)'
    <3>1. CASE q = p
      BY <1>0, <1>1, <3>1, SizedStep DEF EntriesInv
    <3>2. CASE q # p
      BY <2>1, <3>2 DEF EntriesInv, Alone, Sized, Moves
    <3> QED BY <3>1, <3>2
  <2>4. \A q \in Submitters : Replaying(q)' /\ Told(q)'
    BY <1>0, <1>1, <2>1, TellingFrame, TellingStep DEF EntriesInv
  <2> QED BY <1>0, <2>2, <2>3, <2>4 DEF EntriesInv
<1>2. ASSUME UNCHANGED <<book, pc, tx, entry, answer>> PROVE EntriesInv'
  <2>1. EntriesHaveRows'
    BY <1>2 DEF EntriesInv, EntriesHaveRows, HasLedgerEntry, book
  <2>2. \A q \in Procs : Sized(q)'
    BY <1>2 DEF EntriesInv, Sized
  <2>3. \A q \in Submitters : Replaying(q)' /\ Told(q)'
    BY <1>2 DEF EntriesInv, Replaying, Told, Stored, Recorded, HasLedgerEntry, Key, book
  <2> QED BY <1>0, <2>1, <2>2, <2>3 DEF EntriesInv
<1>3. CASE UNCHANGED vars
  BY <1>2, <1>3 DEF vars, memory
<1>4. ASSUME NEW k \in Keys, RetryDue(k) \/ Expire(k) PROVE EntriesInv'
  BY <1>2, <1>4 DEF RetryDue, Expire, memory
<1> QED BY <1>1, <1>3, <1>4 DEF Next, Acts

\* However many resolvers rewrite rows, a PROCESSED movement has its ledger
\* entry, and no entry is without a row of its wallet and amount.
THEOREM EntriesHaveTheirRows == Spec => []EntriesHaveRows
<1>1. EntriesInv => EntriesHaveRows
  BY DEF EntriesInv
<1> QED BY <1>1, EntriesInit, EntriesNext, PTL DEF Spec

\* However many resolvers rewrite rows, a caller was told of its own request,
\* and the balance it was told of a movement is in the ledger.
THEOREM AnswersAreRecorded == Spec => []AnswersRecorded
<1>1. EntriesInv => AnswersRecorded
  BY DEF EntriesInv, AnswersRecorded
<1> QED BY <1>1, EntriesInit, EntriesNext, PTL DEF Spec

=============================================================================
