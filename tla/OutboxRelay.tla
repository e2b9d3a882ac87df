---------------------------- MODULE OutboxRelay -----------------------------
(***************************************************************************)
(* OutboxWorker.RunOnce in several instances of the service, the outbox    *)
(* table it claims entries from, and the FIFO queue it publishes to.       *)
(*                                                                         *)
(* Entries are numbered in the order of created_at.  The whole of RunOnce  *)
(* is one Postgres transaction: the claim takes the row's lock, the        *)
(* publication happens while it is held, and what SaveAll wrote appears    *)
(* with the commit, which frees the row.                                   *)
(***************************************************************************)
EXTENDS Naturals, Sequences, FiniteSets

CONSTANTS
  NumEntries,   \* entries the service records in one behaviour
  Aggregates,   \* wallets and wager transactions
  AggregateOf,  \* aggregate_id of each entry, the MessageGroupId
  Workers,      \* outbox loops, one per instance of the service
  NoWorker,     \* nobody holds the row
  MaxFailures,  \* bound: failed calls and crashes in one behaviour
  MaxRefusals   \* bound: publications that return an error

Entries == 1..NumEntries

ASSUME OutboxAssumption ==
  /\ NumEntries \in Nat
  /\ AggregateOf \in [Entries -> Aggregates]
  /\ NoWorker \notin Workers
  /\ MaxFailures \in Nat
  /\ MaxRefusals \in Nat

VARIABLES
  rows,      \* outbox: status and retry_count of each entry
  backoff,   \* entries whose next_send_at lies ahead
  lock,      \* who holds FOR UPDATE on each row
  stream,    \* wallet-events.fifo: the messages a subscriber gets, in order
  window,    \* event ids SQS still remembers from the last five minutes
  pc,        \* next step of each worker
  claimed,   \* the entry each worker holds
  loaded,    \* that entry in memory: status and retry count
  failures,  \* failed calls and crashes so far
  refusals   \* failed publications so far

table == <<rows, backoff, lock>>
queue == <<stream, window>>
memory == <<claimed, loaded>>
vars == <<table, queue, pc, memory, failures, refusals>>

Row == [status: {"ABSENT", "PENDING", "PUBLISHED"}, retries: Nat]

Labels == {"wait", "claim", "publish", "save"}

Sent == {stream[i] : i \in 1..Len(stream)}

Recorded == {e \in Entries : rows[e].status # "ABSENT"}

Goto(w, label) == pc' = [pc EXCEPT ![w] = label]

-----------------------------------------------------------------------------
\* A business transaction commits with the events it has created.  Two events
\* of one aggregate are created by transactions that follow one another (the
\* wallet's lock, or the wager's row), so they commit in the order of creation.
Record(batch) ==
  /\ batch # {} /\ batch \cap Recorded = {}
  /\ \A e \in batch : \A f \in 1..(e - 1) :
       AggregateOf[f] = AggregateOf[e] => f \in Recorded \cup batch
  /\ rows' = [e \in Entries |->
       IF e \in batch THEN [status |-> "PENDING", retries |-> 0] ELSE rows[e]]
  /\ UNCHANGED <<backoff, lock, queue, pc, memory, failures, refusals>>

\* The ticker of registerOutboxWorker.
Tick(w) ==
  /\ pc[w] = "wait"
  /\ Goto(w, "claim")
  /\ UNCHANGED <<table, queue, memory, failures, refusals>>

Due == {e \in Entries : rows[e].status = "PENDING" /\ e \notin backoff}

\* Variation: the query without FOR UPDATE SKIP LOCKED.
ClaimUnlocked(w) ==
  /\ pc[w] = "claim"
  /\ \/ Due = {} /\ Goto(w, "wait") /\ UNCHANGED <<lock, memory>>
     \/ \E e \in Due :
          /\ \A f \in Due : e <= f
          /\ claimed' = [claimed EXCEPT ![w] = e]
          /\ loaded' = [loaded EXCEPT ![w] = rows[e]]
          /\ Goto(w, "publish")
          /\ UNCHANGED lock
  /\ UNCHANGED <<rows, backoff, queue, failures, refusals>>

\* Variation: the query without ORDER BY.
ClaimAny(w) ==
  LET free == {e \in Due : lock[e] = NoWorker} IN
  /\ pc[w] = "claim"
  /\ \/ free = {} /\ Goto(w, "wait") /\ UNCHANGED <<lock, memory>>
     \/ \E e \in free :
          /\ lock' = [lock EXCEPT ![e] = w]
          /\ claimed' = [claimed EXCEPT ![w] = e]
          /\ loaded' = [loaded EXCEPT ![w] = rows[e]]
          /\ Goto(w, "publish")
  /\ UNCHANGED <<rows, backoff, queue, failures, refusals>>

\* Variation: finding no entry is not told apart from finding one.
ClaimNothing(w) ==
  /\ pc[w] = "claim"
  /\ {e \in Due : lock[e] = NoWorker} = {}
  /\ Goto(w, "publish")
  /\ UNCHANGED <<table, queue, memory, failures, refusals>>

\* FindDueForUpdate: the oldest due entry nobody holds; with none, RunOnce
\* reports that it processed nothing and the loop waits for the next tick.
Claim(w) ==
  LET free == {e \in Due : lock[e] = NoWorker} IN
  /\ pc[w] = "claim"
  /\ \/ free = {} /\ Goto(w, "wait") /\ UNCHANGED <<lock, memory>>
     \/ \E e \in free :
          /\ \A f \in free : e <= f
          /\ lock' = [lock EXCEPT ![e] = w]
          /\ claimed' = [claimed EXCEPT ![w] = e]
          /\ loaded' = [loaded EXCEPT ![w] = rows[e]]
          /\ Goto(w, "publish")
  /\ UNCHANGED <<rows, backoff, queue, failures, refusals>>

MarkPublished(entry) == [entry EXCEPT !.status = "PUBLISHED"]
ScheduleRetry(entry) == [entry EXCEPT !.retries = @ + 1]

\* SendMessage with the event's id as MessageDeduplicationId: a repetition
\* within the window is accepted and dropped.
Accept(e) ==
  /\ stream' = IF e \in window THEN stream ELSE Append(stream, e)
  /\ window' = window \cup {e}

\* Publish answers without error.
PublishAccepted(w) ==
  /\ pc[w] = "publish"
  /\ Accept(claimed[w])
  /\ loaded' = [loaded EXCEPT ![w] = MarkPublished(@)]
  /\ Goto(w, "save")
  /\ UNCHANGED <<table, claimed, failures, refusals>>

\* Variation: an error of Publish is not looked at.
PublishRefusedIgnored(w) ==
  /\ pc[w] = "publish"
  /\ refusals < MaxRefusals /\ refusals' = refusals + 1
  /\ UNCHANGED queue
  /\ loaded' = [loaded EXCEPT ![w] = MarkPublished(@)]
  /\ Goto(w, "save")
  /\ UNCHANGED <<table, claimed, failures>>

\* Publish answers with an error.  SQS may have accepted the
\* message all the same, and only its reply was lost.
PublishRefused(w) ==
  /\ pc[w] = "publish"
  /\ refusals < MaxRefusals /\ refusals' = refusals + 1
  /\ Accept(claimed[w]) \/ UNCHANGED queue
  /\ loaded' = [loaded EXCEPT ![w] = ScheduleRetry(@)]
  /\ Goto(w, "save")
  /\ UNCHANGED <<table, claimed, failures>>

\* SaveAll and commit: status, retry_count and next_send_at of the one row.
Persist(w) ==
  LET e == claimed[w] IN
  /\ rows' = [rows EXCEPT ![e] = loaded[w]]
  /\ backoff' = IF loaded[w].status = "PENDING" THEN backoff \cup {e} ELSE backoff
  /\ lock' = [lock EXCEPT ![e] = NoWorker]

\* RunOnce processed an entry: the loop calls it again before it waits.
Save(w) ==
  /\ pc[w] = "save"
  /\ Persist(w)
  /\ Goto(w, "claim")
  /\ UNCHANGED <<queue, memory, failures, refusals>>

\* Variation: a claim outlives the worker that made it.
FailKeepingClaim(w) ==
  /\ pc[w] \in {"claim", "publish", "save"}
  /\ failures < MaxFailures /\ failures' = failures + 1
  /\ Goto(w, "wait")
  /\ UNCHANGED <<table, queue, memory, refusals>>

\* A statement fails, the context of the loop is cancelled, or the process
\* dies: Postgres rolls back and frees the row, and the loop (of this process
\* or of the next one) waits for its tick.
Fail(w) ==
  /\ pc[w] \in {"claim", "publish", "save"}
  /\ failures < MaxFailures /\ failures' = failures + 1
  /\ lock' = [e \in Entries |-> IF lock[e] = w THEN NoWorker ELSE lock[e]]
  /\ Goto(w, "wait")
  /\ UNCHANGED <<rows, backoff, queue, memory, refusals>>

\* The commit takes effect, and its reply does not arrive.
LoseCommitReply(w) ==
  /\ pc[w] = "save"
  /\ failures < MaxFailures /\ failures' = failures + 1
  /\ Persist(w)
  /\ Goto(w, "wait")
  /\ UNCHANGED <<queue, memory, refusals>>

\* Time: a backoff elapses, and SQS forgets a deduplication id.
Elapse(e) ==
  /\ e \in backoff
  /\ backoff' = backoff \ {e}
  /\ UNCHANGED <<rows, lock, queue, pc, memory, failures, refusals>>

Forget(e) ==
  /\ e \in window
  /\ window' = window \ {e}
  /\ UNCHANGED <<table, stream, pc, memory, failures, refusals>>

Init ==
  /\ rows = [e \in Entries |-> [status |-> "ABSENT", retries |-> 0]]
  /\ backoff = {}
  /\ lock = [e \in Entries |-> NoWorker]
  /\ stream = <<>> /\ window = {}
  /\ pc = [w \in Workers |-> "wait"]
  /\ claimed = [w \in Workers |-> 0]
  /\ loaded = [w \in Workers |-> [status |-> "ABSENT", retries |-> 0]]
  /\ failures = 0 /\ refusals = 0

RunOnce(w) ==
  \/ Claim(w) \/ PublishAccepted(w) \/ PublishRefused(w) \/ Save(w)

Next ==
  \/ \E batch \in SUBSET Entries : Record(batch)
  \/ \E w \in Workers :
       Tick(w) \/ RunOnce(w) \/ Fail(w) \/ LoseCommitReply(w)
  \/ \E e \in Entries : Elapse(e) \/ Forget(e)

Spec == Init /\ [][Next]_vars

\* Tickers tick, a call that is made returns, and backoffs elapse.  Nothing
\* has to be recorded and nothing has to fail; SQS forgets when it likes.
Fairness ==
  /\ \A w \in Workers : WF_vars(Tick(w)) /\ WF_vars(RunOnce(w))
  /\ \A e \in Entries : WF_vars(Elapse(e))

FairSpec == Spec /\ Fairness

-----------------------------------------------------------------------------
TypeOK ==
  /\ rows \in [Entries -> Row]
  /\ backoff \subseteq Entries
  /\ lock \in [Entries -> Workers \cup {NoWorker}]
  /\ stream \in Seq(Entries) /\ window \subseteq Entries
  /\ pc \in [Workers -> Labels]
  /\ claimed \in [Workers -> {0} \cup Entries]
  /\ loaded \in [Workers -> Row]
  /\ failures \in Nat /\ refusals \in Nat

\* An entry marked PUBLISHED has reached the queue: no path through a refused
\* publication, a crash or a retry settles an event that was never sent.
PublishedWasSent ==
  \A e \in Entries : rows[e].status = "PUBLISHED" => e \in Sent

\* Whoever receives an event twice can name the fault that caused it: beyond
\* the first copy of each event there are no more copies than failed calls,
\* crashes and refused publications.  Two instances that find one entry due
\* do not both publish it (FOR UPDATE SKIP LOCKED).
CopiesAreAccounted ==
  Len(stream) <= Cardinality(Sent) + failures + refusals

\* The stream holds no event of an aggregate whose earlier events it lacks:
\* what publisher.go says of MessageGroupId, "events about the same
\* wallet/transaction are delivered in order relative to each other".
NothingOvertakes ==
  \A f \in Sent : \A e \in 1..(f - 1) :
    AggregateOf[e] = AggregateOf[f] => e \in Sent

\* What is true of that order instead: an event is overtaken within its
\* aggregate only while a worker holds it, after a refusal, or after a crash.
OnlyTheHeldAreOvertaken ==
  \A f \in Sent : \A e \in 1..(f - 1) :
    AggregateOf[e] = AggregateOf[f] /\ e \notin Sent =>
      lock[e] # NoWorker \/ rows[e].retries > 0 \/ failures > 0

\* Workers, locks, backoffs, crashes and repetitions add nothing to the
\* abstract at-least-once relay: an event is sent only while it is recorded
\* and not settled, and settled only when it has been sent.
Abstract == INSTANCE EventRelay WITH
  Events <- Entries,
  recorded <- Recorded,
  settled <- {e \in Entries : rows[e].status = "PUBLISHED"}

ImplementsRelay == Abstract!Spec

\* Every recorded event is published in the end, although its worker may die
\* after the claim, its publication may be refused and its commit may fail:
\* abandoned work is found again.
EveryEventIsPublished ==
  \A e \in Entries :
    rows[e].status = "PENDING" ~> rows[e].status = "PUBLISHED"

=============================================================================
