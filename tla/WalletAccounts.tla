--------------------------- MODULE WalletAccounts ---------------------------
(***************************************************************************)
(* What is done to wallets besides wagering: WalletCreator opens them,     *)
(* WalletReconciler compares balance and ledger, WalletLedgerLister pages  *)
(* through the ledger; and movements, which are WagerSubmit's business,    *)
(* go on next to them.  Of a movement only its lock, its stamp and its     *)
(* commit matter here.                                                     *)
(*                                                                         *)
(* Every call is a process of its own.  A wallet is named after the call   *)
(* that made its id, a ledger entry after the call that wrote it.  The     *)
(* clocks of all instances agree.                                          *)
(***************************************************************************)
EXTENDS Integers, Sequences, FiniteSets, FiniteSetsExt, SequencesExt

CONSTANTS
  Creators,     \* calls of Create
  Movers,       \* movements
  Reconcilers,  \* calls of Reconcile
  Readers,      \* clients paging through a ledger
  Owners,       \* players with a currency
  Initial,      \* initial balances that may be asked for
  Deltas,       \* movements of a balance, debits below zero
  PageLimit,    \* limit of List
  Nobody        \* the holder of a free lock

Processes == Creators \cup Movers \cup Reconcilers \cup Readers

ASSUME AccountsAssumption ==
  /\ Initial \subseteq Int /\ Deltas \subseteq Int \ {0}
  /\ PageLimit \in Nat \ {0} /\ Nobody \notin Processes
  /\ Creators \cap Movers = {} /\ Creators \cap Reconcilers = {} /\ Creators \cap Readers = {}
  /\ Movers \cap Reconcilers = {} /\ Movers \cap Readers = {} /\ Reconcilers \cap Readers = {}

VARIABLES
  wallets,    \* the wallets table, by the call that made the id
  openings,   \* wallets with an OPENING transaction
  announced,  \* wallets whose opening is in the outbox
  ledger,     \* wallet_ledger_entries
  ownerLock,  \* who has an uncommitted wallet of each owner
  holder,     \* who holds FOR UPDATE on each wallet
  now,        \* the last reading of the clock
  pc,         \* next statement of each call
  job,        \* what each call works on
  answer,     \* what Create has answered
  result,     \* what Reconcile has answered
  seen        \* the entries a client has been given, page after page

tables == <<wallets, openings, announced, ledger>>
locks == <<ownerLock, holder>>
outcomes == <<answer, result, seen>>
vars == <<tables, locks, now, pc, job, outcomes>>

NoRow == [version |-> 0]
NoJob == [none |-> TRUE]
NoResult == [consistent |-> TRUE]

Exists(w) == wallets[w] # NoRow
Taken(o) == \E w \in Creators : Exists(w) /\ wallets[w].owner = o

Goto(p, label) == pc' = [pc EXCEPT ![p] = label]
Answer(c, a) == answer' = [answer EXCEPT ![c] = a]

\* NewLedgerEntry: time.Now.
LedgerEntry(p, w, delta, at) == [by |-> p, wallet |-> w, delta |-> delta, at |-> at]

Entries(w) == {e \in ledger : e.wallet = w}

-----------------------------------------------------------------------------
\* WalletCreator.

\* The lookup outside any transaction, and the validation of the input.
LookUp(c) ==
  /\ pc[c] = "look"
  /\ \E o \in Owners, i \in Initial :
       /\ job' = [job EXCEPT ![c] = [owner |-> o, initial |-> i, at |-> now + 1]]
       /\ \/ /\ Taken(o)
             /\ Answer(c, "exists") /\ Goto(c, "done")
             /\ UNCHANGED now
          \/ /\ ~Taken(o) /\ i < 0
             /\ Answer(c, "invalid") /\ Goto(c, "done")
             /\ UNCHANGED now
          \/ /\ ~Taken(o) /\ i >= 0
             /\ Goto(c, "insert")
             /\ now' = now + 1
             /\ UNCHANGED answer
  /\ UNCHANGED <<tables, locks, result, seen>>

NewWallet(c) == [version |-> 1, owner |-> job[c].owner, balance |-> job[c].initial]

\* Variation: the lookup is taken for the guarantee.
InsertUnchecked(c) ==
  /\ pc[c] = "insert"
  /\ wallets' = [wallets EXCEPT ![c] = NewWallet(c)]
  /\ IF job[c].initial = 0
     THEN Answer(c, "created") /\ Goto(c, "done")
     ELSE Goto(c, "commit") /\ UNCHANGED answer
  /\ UNCHANGED <<openings, announced, ledger, locks, now, job, result, seen>>

\* Variation: an uncommitted wallet of the owner counts as one.
InsertImpatient(c) ==
  /\ pc[c] = "insert"
  /\ IF Taken(job[c].owner) \/ ownerLock[job[c].owner] # Nobody
     THEN Answer(c, "exists") /\ Goto(c, "done") /\ UNCHANGED <<wallets, ownerLock>>
     ELSE /\ ownerLock' = [ownerLock EXCEPT ![job[c].owner] = c]
          /\ Goto(c, "commit")
          /\ UNCHANGED <<wallets, answer>>
  /\ UNCHANGED <<openings, announced, ledger, holder, now, job, result, seen>>

\* Save: a transaction of its own for a wallet without balance, else the first
\* statement of one.  wallets_player_currency_unique makes it wait for another
\* uncommitted wallet of the owner, and refuses a second.
Insert(c) ==
  LET o == job[c].owner IN
  /\ pc[c] = "insert" /\ ownerLock[o] = Nobody
  /\ \/ /\ Taken(o)
        /\ Answer(c, "exists") /\ Goto(c, "done")
        /\ UNCHANGED <<wallets, ownerLock>>
     \/ /\ ~Taken(o) /\ job[c].initial = 0
        /\ wallets' = [wallets EXCEPT ![c] = NewWallet(c)]
        /\ Answer(c, "created") /\ Goto(c, "done")
        /\ UNCHANGED ownerLock
     \/ /\ ~Taken(o) /\ job[c].initial > 0
        /\ ownerLock' = [ownerLock EXCEPT ![o] = c]
        /\ Goto(c, "commit")
        /\ UNCHANGED <<wallets, answer>>
  /\ UNCHANGED <<openings, announced, ledger, holder, now, job, result, seen>>

\* Variation: the opening is written without the wallet's balance in the ledger.
OpenWithoutEntry(c) ==
  /\ wallets' = [wallets EXCEPT ![c] = NewWallet(c)]
  /\ openings' = openings \cup {c}
  /\ announced' = announced \cup {c}
  /\ ownerLock' = [ownerLock EXCEPT ![job[c].owner] = Nobody]
  /\ UNCHANGED ledger

\* Wallet, OPENING transaction, ledger entry and both events, committed.
Open(c) ==
  /\ wallets' = [wallets EXCEPT ![c] = NewWallet(c)]
  /\ openings' = openings \cup {c}
  /\ announced' = announced \cup {c}
  /\ ledger' = ledger \cup {LedgerEntry(c, c, job[c].initial, job[c].at)}
  /\ ownerLock' = [ownerLock EXCEPT ![job[c].owner] = Nobody]

Commit(c) ==
  /\ pc[c] = "commit"
  /\ Open(c)
  /\ Answer(c, "created") /\ Goto(c, "done")
  /\ UNCHANGED <<holder, now, job, result, seen>>

\* The commit takes effect, and its reply does not arrive.
LoseCommitReply(c) ==
  /\ pc[c] = "commit"
  /\ Open(c)
  /\ Answer(c, "failed") /\ Goto(c, "done")
  /\ UNCHANGED <<holder, now, job, result, seen>>

\* A statement fails, or the process dies: rollback.
FailCreation(c) ==
  /\ pc[c] \in {"look", "insert", "commit"}
  /\ ownerLock' = [o \in Owners |-> IF ownerLock[o] = c THEN Nobody ELSE ownerLock[o]]
  /\ Answer(c, "failed") /\ Goto(c, "done")
  /\ UNCHANGED <<tables, holder, now, job, result, seen>>

-----------------------------------------------------------------------------
\* Movements.

FreeWallet(w) == holder' = [holder EXCEPT ![w] = Nobody]

\* Variation: the entry is stamped before the wallet is locked.
LockStamped(m) ==
  \/ /\ pc[m] = "lock" /\ job[m] = NoJob
     /\ \E w \in Creators : Exists(w) /\ job' = [job EXCEPT ![m] = [wallet |-> w, at |-> now + 1]]
     /\ now' = now + 1
     /\ UNCHANGED <<tables, locks, pc, outcomes>>
  \/ /\ pc[m] = "lock" /\ job[m] # NoJob
     /\ holder[job[m].wallet] = Nobody
     /\ holder' = [holder EXCEPT ![job[m].wallet] = m]
     /\ \E d \in Deltas :
          /\ wallets[job[m].wallet].balance + d >= 0
          /\ job' = [job EXCEPT ![m] = [wallet |-> @.wallet, delta |-> d, at |-> @.at,
                                        balance |-> wallets[@.wallet].balance]]
     /\ Goto(m, "move")
     /\ UNCHANGED <<tables, ownerLock, now, outcomes>>

\* Variation: a debit is not held against the balance.
LockOverdrawing(m) ==
  /\ pc[m] = "lock"
  /\ \E w \in Creators, d \in Deltas :
       /\ Exists(w) /\ holder[w] = Nobody
       /\ holder' = [holder EXCEPT ![w] = m]
       /\ job' = [job EXCEPT ![m] = [wallet |-> w, delta |-> d, at |-> now + 1,
                                     balance |-> wallets[w].balance]]
  /\ now' = now + 1
  /\ Goto(m, "move")
  /\ UNCHANGED <<tables, ownerLock, outcomes>>

\* FindByID ... FOR UPDATE, then Credit or Debit and NewLedgerEntry on what it
\* returned.  A debit that the balance does not cover moves nothing.
Lock(m) ==
  /\ pc[m] = "lock"
  /\ \E w \in Creators, d \in Deltas :
       /\ Exists(w) /\ holder[w] = Nobody /\ wallets[w].balance + d >= 0
       /\ holder' = [holder EXCEPT ![w] = m]
       /\ job' = [job EXCEPT ![m] = [wallet |-> w, delta |-> d, at |-> now + 1,
                                     balance |-> wallets[w].balance]]
  /\ now' = now + 1
  /\ Goto(m, "move")
  /\ UNCHANGED <<tables, ownerLock, outcomes>>

\* Save, SaveLedgerEntry, COMMIT.
Move(m) ==
  LET w == job[m].wallet IN
  /\ pc[m] = "move"
  /\ wallets' = [wallets EXCEPT ![w].balance = job[m].balance + job[m].delta,
                                ![w].version = @ + 1]
  /\ ledger' = ledger \cup {LedgerEntry(m, w, job[m].delta, job[m].at)}
  /\ FreeWallet(w)
  /\ Goto(m, "done")
  /\ UNCHANGED <<openings, announced, ownerLock, now, job, outcomes>>

FailMovement(m) ==
  /\ pc[m] = "move"
  /\ FreeWallet(job[m].wallet)
  /\ Goto(m, "done")
  /\ UNCHANGED <<tables, ownerLock, now, job, outcomes>>

-----------------------------------------------------------------------------
\* WalletReconciler.

\* Variation: the balance is read without a lock.
ReadUnlocked(r) ==
  /\ pc[r] = "read"
  /\ \E w \in Creators :
       /\ Exists(w)
       /\ job' = [job EXCEPT ![r] = [wallet |-> w, stored |-> wallets[w].balance]]
  /\ Goto(r, "sum")
  /\ UNCHANGED <<tables, locks, now, outcomes>>

\* FindByID ... FOR UPDATE.
ReadWallet(r) ==
  /\ pc[r] = "read"
  /\ \E w \in Creators :
       /\ Exists(w) /\ holder[w] = Nobody
       /\ holder' = [holder EXCEPT ![w] = r]
       /\ job' = [job EXCEPT ![r] = [wallet |-> w, stored |-> wallets[w].balance]]
  /\ Goto(r, "sum")
  /\ UNCHANGED <<tables, ownerLock, now, outcomes>>

NotFound(r) ==
  /\ pc[r] = "read" /\ \E w \in Creators : ~Exists(w)
  /\ Goto(r, "done")
  /\ UNCHANGED <<tables, locks, now, job, outcomes>>

Calculated(w) == MapThenSumSet(LAMBDA e : e.delta, Entries(w))

\* AllLedgerEntries, the sum, and the end of the transaction.
SumEntries(r) ==
  LET w == job[r].wallet IN
  /\ pc[r] = "sum"
  /\ result' = [result EXCEPT ![r] = [consistent |-> job[r].stored = Calculated(w)]]
  /\ FreeWallet(w)
  /\ Goto(r, "done")
  /\ UNCHANGED <<tables, ownerLock, now, job, answer, seen>>

FailReconciliation(r) ==
  /\ pc[r] = "sum"
  /\ FreeWallet(job[r].wallet)
  /\ Goto(r, "done")
  /\ UNCHANGED <<tables, ownerLock, now, job, outcomes>>

-----------------------------------------------------------------------------
\* WalletLedgerLister.

ByCreation(e, f) == e.at < f.at

\* (created_at, id) > cursor
After(cursor, w) == {e \in Entries(w) : e.at > cursor}

Cursor(x) == IF seen[x] = <<>> THEN 0 ELSE Last(seen[x]).at

\* ORDER BY created_at, id: no two entries of a wallet have one stamp.
InOrder(entries) ==
  CHOOSE page \in [1..Cardinality(entries) -> entries] :
    \A i, j \in DOMAIN page : i < j => ByCreation(page[i], page[j])

\* The oldest entries after the cursor, up to LIMIT.
Page(x) ==
  LET rest == InOrder(After(Cursor(x), job[x].wallet))
  IN IF Len(rest) <= PageLimit THEN rest ELSE SubSeq(rest, 1, PageLimit)

PickWallet(x) ==
  /\ pc[x] = "pick"
  /\ \E w \in Creators : job' = [job EXCEPT ![x] = [wallet |-> w]]
  /\ Goto(x, "page")
  /\ UNCHANGED <<tables, locks, now, outcomes>>

\* A page from the last entry seen.  The client may come back at any time.
List(x) ==
  /\ pc[x] = "page"
  /\ seen' = [seen EXCEPT ![x] = @ \o Page(x)]
  /\ UNCHANGED <<tables, locks, now, pc, job, answer, result>>

-----------------------------------------------------------------------------
Init ==
  /\ wallets = [c \in Creators |-> NoRow]
  /\ openings = {} /\ announced = {} /\ ledger = {}
  /\ ownerLock = [o \in Owners |-> Nobody]
  /\ holder = [c \in Creators |-> Nobody]
  /\ now = 0
  /\ pc = [p \in Processes |->
            CASE p \in Creators -> "look" [] p \in Movers -> "lock"
              [] p \in Reconcilers -> "read" [] OTHER -> "pick"]
  /\ job = [p \in Processes |-> NoJob]
  /\ answer = [c \in Creators |-> "none"]
  /\ result = [r \in Reconcilers |-> NoResult]
  /\ seen = [x \in Readers |-> <<>>]

Create(c) == LookUp(c) \/ Insert(c) \/ Commit(c)

Next ==
  \/ \E c \in Creators : Create(c) \/ LoseCommitReply(c) \/ FailCreation(c)
  \/ \E m \in Movers : Lock(m) \/ Move(m) \/ FailMovement(m)
  \/ \E r \in Reconcilers : ReadWallet(r) \/ NotFound(r) \/ SumEntries(r) \/ FailReconciliation(r)
  \/ \E x \in Readers : PickWallet(x) \/ List(x)

Spec == Init /\ [][Next]_vars

-----------------------------------------------------------------------------
TypeOK ==
  /\ DOMAIN wallets = Creators /\ \A w \in Creators : Exists(w) =>
       wallets[w].owner \in Owners /\ wallets[w].balance \in Nat /\ wallets[w].version \in Nat \ {0}
  /\ openings \subseteq Creators /\ announced \subseteq Creators
  /\ \A e \in ledger : e.by \in Creators \cup Movers /\ e.wallet \in Creators /\ e.at \in 1..now
  /\ ownerLock \in [Owners -> Creators \cup {Nobody}]
  /\ holder \in [Creators -> Movers \cup Reconcilers \cup {Nobody}]
  /\ pc \in [Processes ->
       {"look", "insert", "commit", "lock", "move", "read", "sum", "pick", "page", "done"}]
  /\ answer \in [Creators -> {"none", "created", "exists", "invalid", "failed"}]

\* One wallet per player and currency, however many creations find none at once.
OneWalletPerOwner ==
  \A v, w \in Creators :
    Exists(v) /\ Exists(w) /\ wallets[v].owner = wallets[w].owner => v = w

\* What Create has answered is so: "created" has made this wallet, "exists" has
\* met another that is committed, not one that may still be rolled back.
AnswersAreTrue ==
  /\ \A c \in Creators : answer[c] = "created" => Exists(c)
  /\ \A c \in Creators : answer[c] = "exists" => 
       ~Exists(c) /\ \E w \in Creators : Exists(w) /\ wallets[w].owner = job[c].owner
  /\ \A c \in Creators : answer[c] = "invalid" => ~Exists(c)

\* Whatever fails, a wallet, its opening credit and its events appear together:
\* the balance is what the ledger adds up to.
BalanceIsItsLedger ==
  \A w \in Creators :
    /\ Exists(w) => wallets[w].balance = Calculated(w)
    /\ w \in openings <=> \E e \in ledger : e.by = w
    /\ w \in openings => Exists(w) /\ w \in announced

\* Reconcile finds no divergence, whatever movements commit around it.
ReconciliationsAgree ==
  \A r \in Reconcilers : result[r].consistent

\* Pages leave no gap: no entry appears behind a cursor that has passed it, and
\* none comes twice.
PagesLeaveNoGap ==
  \A x \in Readers : seen[x] # <<>> =>
    /\ \A i, j \in DOMAIN seen[x] : i < j => seen[x][i].at < seen[x][j].at
    /\ {seen[x][i] : i \in DOMAIN seen[x]} =
         {e \in Entries(job[x].wallet) : e.at <= Last(seen[x]).at}

\* db.go, package comment: "Reads made outside WithinTx (WalletGetter,
\* WalletReconciler, WalletLedgerLister) never open a transaction, so they never
\* take that lock".
ReadsTakeNoLock == \A w \in Creators : holder[w] \notin Reconcilers \cup Readers

=============================================================================
