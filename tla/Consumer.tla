------------------------------ MODULE Consumer ------------------------------
(***************************************************************************)
(* sqs.Consumer in several instances of the service: the FIFO queue it     *)
(* receives from, the inbox, and Submit inside the consumer's own          *)
(* transaction, next to whatever HTTP and the resolver do to the same      *)
(* wagers.                                                                 *)
(*                                                                         *)
(* What Submit decides is the business of WagerSubmit.  Here only its      *)
(* place in the outer transaction counts: which row it finds or writes,    *)
(* which locks it takes and keeps until the consumer commits, and that one *)
(* failed statement ends the whole transaction.                            *)
(***************************************************************************)
EXTENDS Naturals, Sequences, FiniteSets

CONSTANTS
  Instances,    \* consumer loops, one per instance of the service
  Ids,          \* envelope messageIds
  Keys,         \* providerId:externalTransactionId
  Wallets,      \* wallets that exist; each is a MessageGroupId as well
  Payloads,     \* the rest of a submission
  NoWallet,     \* a wallet id no wallet has
  NoKey,        \* a submission without a reference
  Nobody,       \* the holder of a free lock
  Queued,       \* the messages, in the order in which they were sent
  Rivals,       \* what HTTP may submit in the meantime
  BatchSize,    \* MaxNumberOfMessages
  MaxReceives,  \* maxReceiveCount of the redrive policy
  Faults        \* bound: the kinds of fault that may happen

\* A submission.  Both hashes, the sha256 of a message's text and PayloadHash of
\* a transaction, cover all of it and stand for it here.
BodyOf ==
  [key : Keys, wallet : Wallets \cup {NoWallet}, payload : Payloads,
   reference : Keys \cup {NoKey}]

ASSUME ConsumerAssumption ==
  /\ Queued \in Seq([id : Ids, group : Wallets, valid : BOOLEAN, body : BodyOf])
  /\ Rivals \subseteq BodyOf
  /\ NoWallet \notin Wallets /\ NoKey \notin Keys /\ Nobody \notin Instances
  /\ BatchSize \in Nat \ {0} /\ MaxReceives \in Nat \ {0}
  /\ Faults \subseteq {"statement", "commit", "delete", "crash", "cancel", "timeout"}

Messages == DOMAIN Queued

VARIABLES
  place,      \* where each message is: "visible", "inflight", "deleted", "dead"
  receives,   \* ApproximateReceiveCount of each message
  inbox,      \* the inbox table
  rows,       \* wager_transactions by key
  inboxLock,  \* who has an uncommitted inbox row for each id
  keyLock,    \* who has an uncommitted wager row for each key
  holder,     \* who holds FOR UPDATE on each wallet
  sharers,    \* who holds KEY SHARE on each wallet
  pc,         \* next statement of each instance
  batch,      \* messages it has received and not yet handled
  draft,      \* the wager row its transaction has written
  turnedAway  \* deliveries of each message refused without any fault

queue == <<place, receives>>
tables == <<inbox, rows>>
locks == <<inboxLock, keyLock, holder, sharers>>
vars == <<queue, tables, locks, pc, batch, draft, turnedAway>>

NoEntry == [completed |-> FALSE]
NoRow == [status |-> "ABSENT"]

Statuses == {"PENDING_REFERENCE", "PROCESSED", "REJECTED"}
RowOrNone == {NoRow} \cup [status : Statuses, body : BodyOf]

Labels ==
  {"poll", "read", "claim", "submit", "lock", "insert", "share", "balance", "complete", "delete"}

Row(b, status) == [status |-> status, body |-> b]
Entry(b) == [completed |-> TRUE, hash |-> b]

Message(c) == Queued[Head(batch[c]).message]
Body(c) == Message(c).body
Id(c) == Message(c).id
Key(c) == Body(c).key
Wallet(c) == Body(c).wallet

Free(lock, c) == lock \in {c, Nobody}

\* From the first save of the inbox row to the commit.
InTx(c) == pc[c] \in {"submit", "lock", "insert", "share", "balance", "complete"}

Goto(c, label) == pc' = [pc EXCEPT ![c] = label]

\* Variation: the end of a batch is not noticed.
NextMessageForever(c) ==
  /\ batch' = [batch EXCEPT ![c] = Tail(@)]
  /\ Goto(c, "read")

\* The message is done with, whatever has become of it: Run takes the next.
NextMessage(c) ==
  /\ batch' = [batch EXCEPT ![c] = Tail(@)]
  /\ Goto(c, IF Len(batch[c]) = 1 THEN "poll" ELSE "read")

Freed(lock, c) == [x \in DOMAIN lock |-> IF lock[x] = c THEN Nobody ELSE lock[x]]

\* The transaction ends and its locks with it.
Release(c) ==
  /\ inboxLock' = Freed(inboxLock, c)
  /\ keyLock' = Freed(keyLock, c)
  /\ holder' = Freed(holder, c)
  /\ sharers' = [w \in Wallets |-> sharers[w] \ {c}]
  /\ draft' = [draft EXCEPT ![c] = NoRow]

\* Variation: the transaction of a failed message is left open.
AbandonWithoutRollback(c) ==
  /\ NextMessage(c)
  /\ UNCHANGED <<queue, tables, locks, draft>>

\* Variation: a failed message is deleted like any other.
AbandonDeleting(c) ==
  /\ Release(c)
  /\ NextMessage(c)
  /\ place' = [place EXCEPT ![Head(batch[c]).message] = "deleted"]
  /\ UNCHANGED <<receives, tables>>

\* handle returns an error: rollback, and the message stays in the queue.
Abandon(c) ==
  /\ Release(c)
  /\ NextMessage(c)
  /\ UNCHANGED <<queue, tables>>

TurnAway(c) ==
  /\ Abandon(c)
  /\ turnedAway' = [turnedAway EXCEPT ![Head(batch[c]).message] = @ + 1]

-----------------------------------------------------------------------------
\* The queue.

InGroup(m, n) == Queued[m].group = Queued[n].group

\* A message can be received when no message of its group is in flight and
\* every earlier one is gone, or comes in the same batch.
Receivable(m, B) ==
  /\ place[m] = "visible"
  /\ \A n \in Messages : InGroup(m, n) =>
       /\ place[n] # "inflight"
       /\ n < m => place[n] \in {"deleted", "dead"} \/ n \in B

\* Run: a batch of messages is received, each under a new receipt.
Receive(c) ==
  /\ pc[c] = "poll"
  /\ \E n \in 1..BatchSize : \E s \in [1..n -> Messages] :
       LET B == {s[i] : i \in 1..n} IN
       /\ \A i, j \in 1..n : i < j => s[i] < s[j]
       /\ \A m \in B : Receivable(m, B) /\ receives[m] < MaxReceives
       /\ place' = [m \in Messages |-> IF m \in B THEN "inflight" ELSE place[m]]
       /\ receives' = [m \in Messages |-> IF m \in B THEN receives[m] + 1 ELSE receives[m]]
       /\ batch' = [batch EXCEPT ![c] =
            [i \in 1..n |-> [message |-> s[i], receipt |-> receives[s[i]] + 1]]]
  /\ Goto(c, "read")
  /\ UNCHANGED <<tables, locks, draft, turnedAway>>

HasReceipt(c, m) ==
  \E i \in DOMAIN batch[c] :
    batch[c][i] = [message |-> m, receipt |-> receives[m]]

\* The visibility timeout.  Its 30 s outlast a batch and every transaction in
\* progress, unless that is the fault.
Expire(m) ==
  /\ place[m] = "inflight"
  /\ \/ "timeout" \in Faults
     \/ \A c \in Instances : ~HasReceipt(c, m) /\ ~InTx(c)
  /\ place' = [place EXCEPT ![m] = "visible"]
  /\ UNCHANGED <<receives, tables, locks, pc, batch, draft, turnedAway>>

\* The redrive policy.
Redrive(m) ==
  /\ Receivable(m, {}) /\ receives[m] = MaxReceives
  /\ place' = [place EXCEPT ![m] = "dead"]
  /\ UNCHANGED <<receives, tables, locks, pc, batch, draft, turnedAway>>

-----------------------------------------------------------------------------
\* handle and, within its transaction, Submit.

\* Validation of the envelope, then the inbox, read outside any transaction.
Read(c) ==
  /\ pc[c] = "read"
  /\ LET entry == inbox[Id(c)] IN
     \/ ~Message(c).valid /\ TurnAway(c)
     \/ /\ Message(c).valid /\ entry # NoEntry /\ entry.hash # Body(c)
        /\ TurnAway(c)
     \/ /\ Message(c).valid /\ entry = Entry(Body(c))
        /\ Goto(c, "delete")
        /\ UNCHANGED <<queue, tables, locks, batch, draft, turnedAway>>
     \/ /\ Message(c).valid /\ entry = NoEntry
        /\ Goto(c, "claim")
        /\ UNCHANGED <<queue, tables, locks, batch, draft, turnedAway>>

\* Variation: the inbox row is saved, completed, before the transaction begins.
ClaimBefore(c) ==
  /\ pc[c] = "claim"
  /\ Free(inboxLock[Id(c)], c)
  /\ inbox' = [inbox EXCEPT ![Id(c)] = IF @ = NoEntry THEN Entry(Body(c)) ELSE @]
  /\ Goto(c, "submit")
  /\ UNCHANGED <<queue, rows, locks, batch, draft, turnedAway>>

\* The upsert of the inbox row waits for another transaction's row of the same
\* id, and then overwrites its completed_at; hash is compared nowhere.
Claim(c) ==
  /\ pc[c] = "claim"
  /\ Free(inboxLock[Id(c)], c)
  /\ inboxLock' = [inboxLock EXCEPT ![Id(c)] = c]
  /\ Goto(c, "submit")
  /\ UNCHANGED <<queue, tables, keyLock, holder, sharers, batch, draft, turnedAway>>

\* Variation: a key that is already recorded is an error.
ReplayRefused(c) == TurnAway(c)

\* A replay: a row without a ledger entry (a LOSS is PROCESSED without one) is
\* answered with the wallet's balance, and in a transaction FindByID locks it.
Replay(c) ==
  /\ \/ rows[Key(c)].status = "PROCESSED" /\ Goto(c, "complete")
     \/ Goto(c, "balance")
  /\ UNCHANGED <<queue, tables, locks, batch, draft, turnedAway>>

\* What becomes of a reversal is read off its reference before any lock.
StatusByReference(b) ==
  IF b.reference = NoKey THEN {"PROCESSED", "REJECTED"}
  ELSE CASE rows[b.reference].status = "ABSENT" -> {"PENDING_REFERENCE"}
         [] rows[b.reference].status = "PROCESSED" -> {"PROCESSED", "REJECTED"}
         [] OTHER -> {"REJECTED"}

\* Only a row decided under the wallet's lock may be PROCESSED.
Submit(c) ==
  /\ pc[c] = "submit"
  /\ IF rows[Key(c)] # NoRow
     THEN IF rows[Key(c)].body = Body(c) THEN Replay(c) ELSE TurnAway(c)
     ELSE /\ \E status \in StatusByReference(Body(c)) :
               draft' = [draft EXCEPT ![c] = Row(Body(c), status)]
          /\ Goto(c, IF "PROCESSED" \in StatusByReference(Body(c)) THEN "lock" ELSE "insert")
          /\ UNCHANGED <<queue, tables, locks, batch, turnedAway>>

\* FindByID ... FOR UPDATE.
LockWallet(c) ==
  /\ pc[c] = "lock"
  /\ IF Wallet(c) \in Wallets
     THEN /\ Free(holder[Wallet(c)], c) /\ sharers[Wallet(c)] \subseteq {c}
          /\ holder' = [holder EXCEPT ![Wallet(c)] = c]
          /\ Goto(c, "insert")
          /\ UNCHANGED <<queue, tables, inboxLock, keyLock, sharers, batch, draft, turnedAway>>
     ELSE TurnAway(c)

\* Variation: the insertion overwrites the row of its key.
InsertOverwriting(c) ==
  /\ pc[c] = "insert"
  /\ Free(keyLock[Key(c)], c)
  /\ keyLock' = [keyLock EXCEPT ![Key(c)] = c]
  /\ Goto(c, "share")
  /\ UNCHANGED <<queue, tables, inboxLock, holder, sharers, batch, draft, turnedAway>>

\* The insertion of the wager row.  Whoever meets a committed row of the key
\* has lost: the unique constraint aborts the transaction, the lookup of the
\* winner fails in it, and the message is left in the queue.
Insert(c) ==
  /\ pc[c] = "insert"
  /\ Free(keyLock[Key(c)], c)
  /\ IF rows[Key(c)] # NoRow
     THEN TurnAway(c)
     ELSE /\ keyLock' = [keyLock EXCEPT ![Key(c)] = c]
          /\ Goto(c, "share")
          /\ UNCHANGED <<queue, tables, inboxLock, holder, sharers, batch, draft, turnedAway>>

\* Its foreign key takes KEY SHARE on the wallet.
ShareWallet(c) ==
  /\ pc[c] = "share"
  /\ IF Wallet(c) \in Wallets
     THEN /\ Free(holder[Wallet(c)], c)
          /\ sharers' = [sharers EXCEPT ![Wallet(c)] = @ \cup {c}]
          /\ Goto(c, IF holder[Wallet(c)] = c THEN "complete" ELSE "balance")
          /\ UNCHANGED <<queue, tables, inboxLock, keyLock, holder, batch, draft, turnedAway>>
     ELSE TurnAway(c)

\* The balance of the answer.  The consumer's transaction goes on, so this is
\* FOR UPDATE too: an upgrade of KEY SHARE for whoever has not locked before.
ReadBalance(c) ==
  /\ pc[c] = "balance"
  /\ Free(holder[Wallet(c)], c) /\ sharers[Wallet(c)] \subseteq {c}
  /\ holder' = [holder EXCEPT ![Wallet(c)] = c]
  /\ Goto(c, "complete")
  /\ UNCHANGED <<queue, tables, inboxLock, keyLock, sharers, batch, draft, turnedAway>>

\* MarkCompleted, the second save of the inbox row, and COMMIT.  An inbox row
\* that was there before keeps its hash.
Commit(c) ==
  /\ inbox' = [inbox EXCEPT ![Id(c)] = IF @ = NoEntry THEN Entry(Body(c)) ELSE @]
  /\ rows' = [rows EXCEPT ![Key(c)] = IF draft[c] = NoRow THEN @ ELSE draft[c]]
  /\ Release(c)

Complete(c) ==
  /\ pc[c] = "complete"
  /\ Commit(c)
  /\ Goto(c, "delete")
  /\ UNCHANGED <<queue, batch, turnedAway>>

\* processMessage, after handle has returned without error.  A receipt older
\* than the last one deletes nothing.
Delete(c) ==
  LET m == Head(batch[c]).message IN
  /\ pc[c] = "delete"
  /\ place' = IF place[m] = "inflight" /\ Head(batch[c]).receipt = receives[m]
              THEN [place EXCEPT ![m] = "deleted"] ELSE place
  /\ NextMessage(c)
  /\ UNCHANGED <<receives, tables, locks, draft, turnedAway>>

-----------------------------------------------------------------------------
\* Faults.

Handling(c) == pc[c] \notin {"poll", "delete"}

\* A statement fails.
Fail(c) ==
  /\ "statement" \in Faults /\ Handling(c)
  /\ Abandon(c)
  /\ UNCHANGED turnedAway

\* The commit takes effect, and its reply does not arrive.
LoseCommitReply(c) ==
  /\ "commit" \in Faults /\ pc[c] = "complete"
  /\ Commit(c)
  /\ NextMessage(c)
  /\ UNCHANGED <<queue, turnedAway>>

LoseDelete(c) ==
  /\ "delete" \in Faults /\ pc[c] = "delete"
  /\ NextMessage(c)
  /\ UNCHANGED <<queue, tables, locks, draft, turnedAway>>

\* The loop ends in the middle of a batch, and is started again.
EndLoop(c) ==
  /\ pc[c] # "poll"
  /\ Release(c)
  /\ batch' = [batch EXCEPT ![c] = <<>>]
  /\ Goto(c, "poll")
  /\ UNCHANGED <<queue, tables, turnedAway>>

Crash(c) == "crash" \in Faults /\ EndLoop(c)

\* A graceful stop: handle works with the context of the loop, so the statement
\* in flight fails, and so does every statement for the rest of the batch.
Cancel(c) == "cancel" \in Faults /\ EndLoop(c)

WaitsFor(c, d) ==
  /\ c # d
  /\ \/ pc[c] = "claim" /\ inboxLock[Id(c)] = d
     \/ pc[c] = "insert" /\ keyLock[Key(c)] = d
     \/ pc[c] \in {"lock", "share", "balance"} /\ Wallet(c) \in Wallets /\ holder[Wallet(c)] = d
     \/ pc[c] \in {"lock", "balance"} /\ Wallet(c) \in Wallets /\ d \in sharers[Wallet(c)]

Stuck(S) == S # {} /\ \A c \in S : \E d \in S : WaitsFor(c, d)

\* Postgres aborts one of a cycle of waiting transactions.
DeadlockVictim(c) ==
  /\ \E S \in SUBSET Instances :
       c \in S /\ Stuck(S) /\ \A R \in SUBSET S : Stuck(R) => R = S
  /\ Abandon(c)
  /\ UNCHANGED turnedAway

-----------------------------------------------------------------------------
\* The other ways to the same tables, each of them one short transaction.

WalletIsFree(w) == holder[w] = Nobody /\ sharers[w] = {}

SubmitByHTTP(b) ==
  /\ b.wallet \in Wallets /\ WalletIsFree(b.wallet)
  /\ rows[b.key] = NoRow /\ keyLock[b.key] = Nobody
  /\ \E status \in StatusByReference(b) :
       rows' = [rows EXCEPT ![b.key] = Row(b, status)]
  /\ UNCHANGED <<queue, inbox, locks, pc, batch, draft, turnedAway>>

\* PendingReferenceResolver ends a parked wager.
Resolve(k) ==
  /\ rows[k].status = "PENDING_REFERENCE"
  /\ \E status \in {"PROCESSED", "REJECTED"} :
       rows' = [rows EXCEPT ![k].status = status]
  /\ UNCHANGED <<queue, inbox, locks, pc, batch, draft, turnedAway>>

-----------------------------------------------------------------------------
Init ==
  /\ place = [m \in Messages |-> "visible"]
  /\ receives = [m \in Messages |-> 0]
  /\ inbox = [i \in Ids |-> NoEntry]
  /\ rows = [k \in Keys |-> NoRow]
  /\ inboxLock = [i \in Ids |-> Nobody]
  /\ keyLock = [k \in Keys |-> Nobody]
  /\ holder = [w \in Wallets |-> Nobody]
  /\ sharers = [w \in Wallets |-> {}]
  /\ pc = [c \in Instances |-> "poll"]
  /\ batch = [c \in Instances |-> <<>>]
  /\ draft = [c \in Instances |-> NoRow]
  /\ turnedAway = [m \in Messages |-> 0]

Handle(c) ==
  \/ Read(c) \/ Claim(c) \/ Submit(c) \/ LockWallet(c) \/ Insert(c)
  \/ ShareWallet(c) \/ ReadBalance(c) \/ Complete(c) \/ Delete(c)

Next ==
  \/ \E c \in Instances :
       \/ Receive(c) \/ Handle(c) \/ DeadlockVictim(c)
       \/ Fail(c) \/ LoseCommitReply(c) \/ LoseDelete(c) \/ Crash(c) \/ Cancel(c)
  \/ \E m \in Messages : Expire(m) \/ Redrive(m)
  \/ \E b \in Rivals : SubmitByHTTP(b)
  \/ \E k \in Keys : Resolve(k)

Spec == Init /\ [][Next]_vars

\* A running loop polls and goes on, Postgres breaks deadlocks, and the queue
\* counts time.  Faults, HTTP and the resolver owe nothing.
Fairness ==
  /\ \A c \in Instances :
       WF_vars(Receive(c)) /\ WF_vars(Handle(c)) /\ WF_vars(DeadlockVictim(c))
  /\ \A m \in Messages : WF_vars(Expire(m)) /\ WF_vars(Redrive(m))

FairSpec == Spec /\ Fairness

-----------------------------------------------------------------------------
TypeOK ==
  /\ place \in [Messages -> {"visible", "inflight", "deleted", "dead"}]
  /\ receives \in [Messages -> 0..MaxReceives]
  /\ inbox \in [Ids -> {NoEntry} \cup {Entry(b) : b \in BodyOf}]
  /\ rows \in [Keys -> RowOrNone]
  /\ inboxLock \in [Ids -> Instances \cup {Nobody}]
  /\ keyLock \in [Keys -> Instances \cup {Nobody}]
  /\ holder \in [Wallets -> Instances \cup {Nobody}]
  /\ sharers \in [Wallets -> SUBSET Instances]
  /\ pc \in [Instances -> Labels]
  /\ batch \in [Instances -> Seq([message : Messages, receipt : 1..MaxReceives])]
  /\ draft \in [Instances -> RowOrNone]
  /\ turnedAway \in [Messages -> Nat]
  /\ \A c \in Instances : pc[c] = "poll" <=> batch[c] = <<>>

\* "No message is ever deleted before Submit's underlying transaction commits"
\* (processMessage): whatever was redelivered, lost or cut short, a message
\* that has left the queue for good has its wager recorded, with its own
\* content, and its inbox row.
Recorded(b) == rows[b.key] # NoRow /\ rows[b.key].body = b

DeletedIsDurable ==
  \A m \in Messages : place[m] = "deleted" =>
    Recorded(Queued[m].body) /\ inbox[Queued[m].id] # NoEntry

\* Inbox and domain are written together or not at all: an inbox row is that of
\* some message whose wager is recorded, and it is completed.  The case handle
\* foresees, a row that a crash has left open, does not occur.
InboxTellsRows ==
  \A i \in Ids : inbox[i] # NoEntry =>
    /\ inbox[i].completed
    /\ Recorded(inbox[i].hash)
    /\ \E m \in Messages : Queued[m].id = i /\ Queued[m].body = inbox[i].hash

\* A message that nothing contradicts.
Sound(m) ==
  LET msg == Queued[m] IN
  /\ msg.valid /\ msg.body.wallet \in Wallets
  /\ \A n \in Messages :
       Queued[n].id = msg.id \/ Queued[n].body.key = msg.body.key => Queued[n].body = msg.body
  /\ \A b \in Rivals : b.key = msg.body.key => b = msg.body

\* A sound message is refused at most once with nothing having failed, namely
\* when its insertion loses a race: the aborted transaction cannot look up the
\* winner, and the next delivery is a replay.
RefusedOnce == \A m \in Messages : Sound(m) => turnedAway[m] <= 1

\* What is recorded under a key is never replaced, although every delivery
\* decides on an unlocked lookup.
ContentStands ==
  [][\A k \in Keys : rows[k] # NoRow => rows'[k] # NoRow /\ rows'[k].body = rows[k].body]_vars

\* Every message leaves the queue: no transaction left open, deadlock or
\* hopeless message holds up its group, or an instance, for ever.
EveryMessageLeaves ==
  \A m \in Messages : <>(place[m] \in {"deleted", "dead"})

\* If nothing fails but races and deadlocks, a sound message is handled and
\* does not end in the dead-letter queue.
SoundMessagesAreHandled ==
  \A m \in Messages : Sound(m) => <>(place[m] = "deleted")

\* README.md: "mensagens da mesma carteira mantem ordem entre si".
GroupsKeepOrder ==
  \A m, n \in Messages : m < n /\ InGroup(m, n) =>
    (inbox[Queued[n].id] # NoEntry => inbox[Queued[m].id] # NoEntry)

\* consumer.go, Run: "a message already being processed always finishes first
\* rather than being abandoned mid-write".
StartedMessagesFinish ==
  [][\A c \in Instances :
       InTx(c) /\ batch'[c] # batch[c] => inbox'[Id(c)] # NoEntry]_vars

\* consumer.go, handle: a messageId with another content than first seen is an
\* error, so all deleted messages of one id have one content.
OneContentPerId ==
  \A m, n \in Messages :
    Queued[m].id = Queued[n].id /\ place[m] = "deleted" /\ place[n] = "deleted" =>
      Queued[m].body = Queued[n].body

=============================================================================
