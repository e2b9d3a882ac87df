-------------------------- MODULE OutboxRelayProofs -------------------------
(***************************************************************************)
(* For every number of entries, workers and faults: OutboxRelay is type    *)
(* correct, what it marks as published has been sent, it implements        *)
(* EventRelay, it keeps the order within an aggregate but for failures and *)
(* for what is held, and every further copy of an event has its fault.     *)
(*                                                                         *)
(* The argument is about who may change a row.  A worker past its claim    *)
(* holds the lock of a row that is still PENDING (HoldsClaim), so nobody   *)
(* else settles it in the meantime; and it carries PUBLISHED in memory     *)
(* only after the queue has taken the event (MemoryIsTrue).                *)
(*                                                                         *)
(* Order (OrderInv) follows from the claim of the oldest entry: what it    *)
(* passes over is sent, locked or in backoff (ClaimsInOrder), and remains  *)
(* so or has failed (PassableStays).  Copies (HistoryInv) are counted with *)
(* those still to come, of entries sent and not settled (Repeating).       *)
(***************************************************************************)
EXTENDS OutboxRelay, FiniteSetTheorems, TLAPS

Busy(w) == pc[w] \in {"publish", "save"}

HoldsClaim ==
  \A w \in Workers : Busy(w) =>
    /\ claimed[w] \in Entries
    /\ lock[claimed[w]] = w
    /\ rows[claimed[w]].status = "PENDING"

MemoryIsTrue ==
  \A w \in Workers :
    /\ pc[w] = "publish" => loaded[w].status = "PENDING"
    /\ pc[w] = "save" =>
         \/ loaded[w].status = "PENDING"
         \/ loaded[w].status = "PUBLISHED" /\ claimed[w] \in Sent

WindowWasSent == window \subseteq Sent

IInv == TypeOK /\ HoldsClaim /\ MemoryIsTrue /\ WindowWasSent /\ PublishedWasSent

-----------------------------------------------------------------------------
\* What the queue has taken it keeps, and it takes what is sent to it.
LEMMA AppendSends ==
  ASSUME NEW s \in Seq(Entries), NEW e \in Entries
  PROVE  /\ Append(s, e) \in Seq(Entries)
         /\ {Append(s, e)[i] : i \in 1..Len(Append(s, e))}
              = {s[i] : i \in 1..Len(s)} \cup {e}
<1>1. /\ Append(s, e) \in Seq(Entries)
      /\ Len(Append(s, e)) = Len(s) + 1 /\ Len(s) \in Nat
      /\ \A i \in 1..Len(s) : Append(s, e)[i] = s[i]
      /\ Append(s, e)[Len(s) + 1] = e
  OBVIOUS
<1>2. 1..(Len(s) + 1) = (1..Len(s)) \cup {Len(s) + 1}
  BY <1>1
<1> QED
  BY <1>1, <1>2

\* What SQS accepts has been sent, whether its deduplication window drops it or not.
LEMMA AcceptSends ==
  ASSUME TypeOK, WindowWasSent, NEW e \in Entries, Accept(e)
  PROVE  /\ stream' \in Seq(Entries) /\ window' \subseteq Entries
         /\ Sent' = Sent \cup {e}
         /\ WindowWasSent'
<1>1. stream \in Seq(Entries) /\ window \subseteq Entries
  BY DEF TypeOK
<1>2. CASE e \in window
  BY <1>1, <1>2 DEF Accept, Sent, WindowWasSent
<1>3. CASE e \notin window
  BY <1>1, <1>3, AppendSends DEF Accept, Sent, WindowWasSent
<1> QED
  BY <1>2, <1>3

\* The invariant holds of an outbox of pending entries that nobody has claimed.
LEMMA InitIInv == Init => IInv
  BY OutboxAssumption
  DEF Init, IInv, TypeOK, Row, Labels, HoldsClaim, Busy, MemoryIsTrue, WindowWasSent,
      PublishedWasSent, Sent

\* Nothing of a worker's claim changes while its own step is not taken and
\* its row is left alone.
LEMMA RecordIInv ==
  ASSUME IInv, NEW batch \in SUBSET Entries, Record(batch)
  PROVE  IInv'
<1> USE DEF IInv
<1>1. \A e \in Entries : rows[e].status # "ABSENT" => rows'[e] = rows[e]
  BY DEF Record, Recorded, TypeOK
<1>2. TypeOK'
  BY DEF Record, TypeOK, Row, table, queue, memory
<1>3. HoldsClaim' /\ MemoryIsTrue'
  BY <1>1 DEF Record, HoldsClaim, MemoryIsTrue, Busy, Sent, queue, memory
<1>4. WindowWasSent' /\ PublishedWasSent'
  BY DEF Record, WindowWasSent, PublishedWasSent, Sent, queue, TypeOK
<1> QED
  BY <1>2, <1>3, <1>4

\* The ticker only starts RunOnce.
LEMMA TickIInv ==
  ASSUME IInv, NEW w \in Workers, Tick(w)
  PROVE  IInv'
  BY DEF IInv, Tick, Goto, TypeOK, Labels, HoldsClaim, Busy, MemoryIsTrue, WindowWasSent,
         PublishedWasSent, Sent, table, queue, memory

\* A claim locks an entry that nobody else holds.
LEMMA ClaimIInv ==
  ASSUME IInv, NEW w \in Workers, Claim(w)
  PROVE  IInv'
<1> USE DEF IInv
<1>1. CASE UNCHANGED <<lock, memory>> /\ Goto(w, "wait")
  BY <1>1 DEF Claim, Goto, TypeOK, Labels, HoldsClaim, Busy, MemoryIsTrue, WindowWasSent,
              PublishedWasSent, Sent, queue, memory
<1>2. ASSUME NEW e \in Due, lock[e] = NoWorker,
             lock' = [lock EXCEPT ![e] = w],
             claimed' = [claimed EXCEPT ![w] = e],
             loaded' = [loaded EXCEPT ![w] = rows[e]],
             Goto(w, "publish")
      PROVE  IInv'
  <2>1. e \in Entries /\ rows[e].status = "PENDING"
    BY DEF Due
  <2>2. TypeOK'
    BY <1>2, <2>1 DEF Claim, Goto, TypeOK, Labels, queue
  <2>3. HoldsClaim'
    BY <1>2, <2>1, OutboxAssumption DEF Claim, Goto, TypeOK, HoldsClaim, Busy
  <2>4. MemoryIsTrue'
    BY <1>2, <2>1 DEF Claim, Goto, TypeOK, MemoryIsTrue, Sent, queue
  <2>5. WindowWasSent' /\ PublishedWasSent'
    BY DEF Claim, WindowWasSent, PublishedWasSent, Sent, queue
  <2> QED
    BY <2>2, <2>3, <2>4, <2>5
<1> QED
  BY <1>1, <1>2 DEF Claim

\* Publishing touches the queue and the worker's own memory.
LEMMA PublishIInv ==
  ASSUME IInv, NEW w \in Workers, PublishAccepted(w) \/ PublishRefused(w)
  PROVE  IInv'
<1> USE DEF IInv
<1> DEFINE e == claimed[w]
<1>1. e \in Entries /\ pc[w] = "publish"
  BY DEF PublishAccepted, PublishRefused, HoldsClaim, Busy
<1>2. /\ stream' \in Seq(Entries) /\ window' \subseteq Entries
      /\ Sent \subseteq Sent' /\ WindowWasSent'
  <2>1. CASE Accept(e)
    BY <1>1, <2>1, AcceptSends
  <2>2. CASE UNCHANGED queue
    BY <2>2 DEF TypeOK, Sent, WindowWasSent, queue
  <2> QED
    BY <2>1, <2>2 DEF PublishAccepted, PublishRefused
<1>3. TypeOK'
  <2>1. MarkPublished(loaded[w]) \in Row /\ ScheduleRetry(loaded[w]) \in Row
    BY DEF TypeOK, Row, MarkPublished, ScheduleRetry
  <2>2. loaded' \in [Workers -> Row]
    BY <2>1 DEF PublishAccepted, PublishRefused, TypeOK
  <2>3. pc' \in [Workers -> Labels]
    BY DEF PublishAccepted, PublishRefused, Goto, TypeOK, Labels
  <2>4. refusals' \in Nat
    BY DEF PublishAccepted, PublishRefused, TypeOK
  <2> QED
    BY <1>2, <2>2, <2>3, <2>4 DEF PublishAccepted, PublishRefused, TypeOK, table
<1>4. HoldsClaim'
  BY <1>1 DEF PublishAccepted, PublishRefused, Goto, TypeOK, HoldsClaim, Busy, table
<1>5. MemoryIsTrue'
  <2>1. CASE PublishAccepted(w)
    <3>1. claimed' = claimed /\ e \in Sent'
      BY <1>1, <2>1, AcceptSends DEF PublishAccepted
    <3> QED
      BY <1>2, <2>1, <3>1 DEF PublishAccepted, Goto, MarkPublished, TypeOK, Row, MemoryIsTrue
  <2>2. CASE PublishRefused(w)
    BY <1>1, <1>2, <2>2 DEF PublishRefused, Goto, ScheduleRetry, TypeOK, Row, MemoryIsTrue
  <2> QED
    BY <2>1, <2>2
<1>6. PublishedWasSent'
  BY <1>2 DEF PublishAccepted, PublishRefused, PublishedWasSent, table
<1> QED
  BY <1>2, <1>3, <1>4, <1>5, <1>6

\* Only the holder of a row writes it.
LEMMA PersistIInv ==
  ASSUME IInv, NEW w \in Workers, Save(w) \/ LoseCommitReply(w)
  PROVE  IInv'
<1> USE DEF IInv
<1> DEFINE e == claimed[w]
<1>1. /\ pc[w] = "save" /\ e \in Entries /\ lock[e] = w
      /\ pc'[w] \in {"claim", "wait"} /\ \A v \in Workers \ {w} : pc'[v] = pc[v]
      /\ rows' = [rows EXCEPT ![e] = loaded[w]]
      /\ lock' = [lock EXCEPT ![e] = NoWorker]
      /\ UNCHANGED <<queue, memory>>
  BY DEF Save, LoseCommitReply, Persist, Goto, TypeOK, HoldsClaim, Busy
<1>2. TypeOK'
  <2>1. rows' \in [Entries -> Row] /\ lock' \in [Entries -> Workers \cup {NoWorker}]
    BY <1>1 DEF TypeOK
  <2>2. backoff' \subseteq Entries
    BY <1>1 DEF Save, LoseCommitReply, Persist, TypeOK
  <2>3. pc' \in [Workers -> Labels] /\ failures' \in Nat /\ refusals' \in Nat
    BY DEF Save, LoseCommitReply, Goto, TypeOK, Labels
  <2> QED
    BY <1>1, <2>1, <2>2, <2>3 DEF TypeOK, queue, memory
<1>3. \A v \in Workers : Busy(v)' =>
        v # w /\ Busy(v) /\ claimed[v] # e /\ claimed[v] \in Entries
  BY <1>1 DEF Busy, HoldsClaim
<1>4. HoldsClaim'
  BY <1>1, <1>3 DEF HoldsClaim, TypeOK, memory
<1>5. MemoryIsTrue'
  BY <1>1 DEF MemoryIsTrue, Sent, queue, memory
<1>6. WindowWasSent' /\ PublishedWasSent'
  BY <1>1 DEF WindowWasSent, PublishedWasSent, MemoryIsTrue, TypeOK, Sent, queue
<1> QED
  BY <1>2, <1>4, <1>5, <1>6

\* A crash or a failed statement gives the lock back and leaves the entry as it was.
LEMMA FailIInv ==
  ASSUME IInv, NEW w \in Workers, Fail(w)
  PROVE  IInv'
<1> USE DEF IInv
<1>1. TypeOK'
  BY DEF Fail, Goto, TypeOK, Labels, queue, memory
<1>2. HoldsClaim'
  BY DEF Fail, Goto, TypeOK, HoldsClaim, Busy, memory
<1>3. MemoryIsTrue' /\ WindowWasSent' /\ PublishedWasSent'
  BY DEF Fail, Goto, TypeOK, MemoryIsTrue, WindowWasSent, PublishedWasSent, Sent, queue, memory
<1> QED
  BY <1>1, <1>2, <1>3

\* A backoff that elapses and a window that forgets touch no claim.
LEMMA TimeIInv ==
  ASSUME IInv, NEW e \in Entries, Elapse(e) \/ Forget(e)
  PROVE  IInv'
<1> USE DEF IInv
<1>1. TypeOK'
  BY DEF Elapse, Forget, TypeOK, table, queue, memory
<1>2. HoldsClaim' /\ MemoryIsTrue' /\ WindowWasSent' /\ PublishedWasSent'
  BY DEF Elapse, Forget, HoldsClaim, Busy, MemoryIsTrue, WindowWasSent, PublishedWasSent,
         Sent, table, queue, memory
<1> QED
  BY <1>1, <1>2

\* Each step of the relay keeps the invariant.
LEMMA NextIInv == IInv /\ [Next]_vars => IInv'
<1> SUFFICES ASSUME IInv, [Next]_vars PROVE IInv'
  OBVIOUS
<1>1. CASE UNCHANGED vars
  BY <1>1 DEF IInv, vars, table, queue, memory, TypeOK, HoldsClaim, Busy, MemoryIsTrue,
              WindowWasSent, PublishedWasSent, Sent
<1>2. CASE Next
  BY <1>2, RecordIInv, TickIInv, ClaimIInv, PublishIInv, PersistIInv, FailIInv, TimeIInv
     DEF Next, RunOnce
<1> QED
  BY <1>1, <1>2

\* The relay is type correct, whatever is recorded, refused or lost.
THEOREM TypeCorrect == Spec => []TypeOK
  BY InitIInv, NextIInv, PTL DEF Spec, IInv

\* No entry is settled by OutboxWorker before the queue has taken its event.
THEOREM PublishedSafe == Spec => []PublishedWasSent
  BY InitIInv, NextIInv, PTL DEF Spec, IInv

-----------------------------------------------------------------------------
Settled == {e \in Entries : rows[e].status = "PUBLISHED"}

\* At the start nothing has been sent or settled on either level.
LEMMA InitImplements == Init => Abstract!Init
  BY DEF Init, Abstract!Init, Recorded

\* Record, publication and commit are the relay's three steps; every other
\* step is invisible to it.
LEMMA NextImplements == IInv /\ [Next]_vars => [Abstract!Next]_(Abstract!vars)
<1> SUFFICES ASSUME IInv, [Next]_vars
             PROVE  Abstract!Next \/ UNCHANGED <<Recorded, Settled, stream>>
  BY DEF Abstract!vars, Settled
<1> USE DEF IInv
<1>1. CASE UNCHANGED vars
  BY <1>1 DEF vars, table, queue, Recorded, Settled
<1>2. ASSUME NEW batch \in SUBSET Entries, Record(batch)
      PROVE  Abstract!Next
  <2>1. Recorded' = Recorded \cup batch /\ Settled' = Settled /\ stream' = stream
    BY <1>2 DEF Record, Recorded, Settled, TypeOK, queue
  <2>2. batch \in SUBSET (Entries \ Recorded)
    BY <1>2 DEF Record
  <2> QED
    BY <2>1, <2>2 DEF Abstract!Next, Abstract!Record, Settled
<1>3. ASSUME NEW w \in Workers, PublishAccepted(w) \/ PublishRefused(w)
      PROVE  Abstract!Next \/ UNCHANGED <<Recorded, Settled, stream>>
  <2>1. UNCHANGED <<Recorded, Settled>>
    BY <1>3 DEF PublishAccepted, PublishRefused, table, Recorded, Settled
  <2>2. CASE stream' = stream
    BY <2>1, <2>2
  <2>3. CASE stream' = Append(stream, claimed[w])
    <3>1. claimed[w] \in Entries /\ claimed[w] \in Recorded \ Settled
      BY <1>3 DEF PublishAccepted, PublishRefused, HoldsClaim, Busy, Recorded, Settled
    <3>2. Abstract!Send(claimed[w])
      BY <2>1, <2>3, <3>1 DEF Abstract!Send, Settled
    <3> QED
      BY <3>1, <3>2 DEF Abstract!Next
  <2> QED
    BY <1>3, <2>2, <2>3 DEF PublishAccepted, PublishRefused, Accept, queue
<1>4. ASSUME NEW w \in Workers, Save(w) \/ LoseCommitReply(w)
      PROVE  Abstract!Next \/ UNCHANGED <<Recorded, Settled, stream>>
  <2>0. PICK f \in Entries : f = claimed[w]
    BY <1>4 DEF Save, LoseCommitReply, HoldsClaim, Busy
  <2>1. /\ rows[f].status = "PENDING" /\ pc[w] = "save"
        /\ rows' = [rows EXCEPT ![f] = loaded[w]] /\ stream' = stream
    BY <1>4, <2>0 DEF Save, LoseCommitReply, Persist, HoldsClaim, Busy, queue
  <2>2. CASE loaded[w].status = "PENDING"
    BY <2>1, <2>2 DEF TypeOK, Recorded, Settled
  <2>3. CASE loaded[w].status = "PUBLISHED" /\ f \in Sent
    <3>1. Recorded' = Recorded /\ Settled' = Settled \cup {f} /\ f \notin Settled
      BY <2>1, <2>3 DEF TypeOK, Recorded, Settled
    <3>2. Abstract!Settle(f)
      BY <2>1, <2>3, <3>1 DEF Abstract!Settle, Abstract!Sent, Sent, Settled
    <3> QED
      BY <2>1, <3>2 DEF Abstract!Next
  <2> QED
    BY <2>0, <2>1, <2>2, <2>3 DEF MemoryIsTrue
<1>5. ASSUME \/ \E w \in Workers : Tick(w) \/ Claim(w) \/ Fail(w)
             \/ \E e \in Entries : Elapse(e) \/ Forget(e)
      PROVE  UNCHANGED <<Recorded, Settled, stream>>
  BY <1>5 DEF Tick, Claim, Fail, Elapse, Forget, table, queue, Recorded, Settled
<1> QED
  BY <1>1, <1>2, <1>3, <1>4, <1>5 DEF Next, RunOnce

\* The outbox keeps the promise of EventRelay: events are sent at least once,
\* only while they are recorded and unsettled, and settled after being sent.
THEOREM RelayImplemented == Spec => ImplementsRelay
<1>1. Spec => []IInv
  BY InitIInv, NextIInv, PTL DEF Spec
<1> QED
  BY <1>1, InitImplements, NextImplements, PTL DEF Spec, ImplementsRelay, Abstract!Spec

-----------------------------------------------------------------------------
\* Order and copies.

\* What has been sent was recorded, and after the earlier events of its
\* aggregate.
SentWasRecorded == Sent \subseteq Recorded

RecordedInOrder ==
  \A f \in Recorded : \A e \in 1..(f - 1) :
    AggregateOf[e] = AggregateOf[f] => e \in Recorded

\* Only a refusal sends an entry into backoff, and it has been counted.
BackoffWasRetried == \A e \in backoff : e \in Recorded /\ rows[e].retries > 0

\* The copy a worker holds has not fewer retries than its row, and one that it
\* saves as PENDING has been refused.
RetriesAreCounted ==
  \A w \in Workers :
    /\ Busy(w) => loaded[w].retries >= rows[claimed[w]].retries
    /\ pc[w] = "save" /\ loaded[w].status = "PENDING" => loaded[w].retries > 0

\* An event that later ones may overtake, as OnlyTheHeldAreOvertaken says.
Passable(e) ==
  e \in Sent \/ lock[e] # NoWorker \/ rows[e].retries > 0 \/ failures > 0

\* A claim takes the oldest: the earlier events of its aggregate are sent or
\* may be overtaken.
ClaimsInOrder ==
  \A w \in Workers : Busy(w) =>
    \A e \in 1..(claimed[w] - 1) :
      AggregateOf[e] = AggregateOf[claimed[w]] => Passable(e)

\* Worker w is about to settle e.
Settling(w, e) ==
  pc[w] = "save" /\ claimed[w] = e /\ loaded[w].status = "PUBLISHED"

\* Entries that have been sent and will be sent again.
Repeating ==
  {e \in Sent : /\ rows[e].status = "PENDING"
                /\ \A w \in Workers : ~Settling(w, e)}

\* CopiesAreAccounted, the copies to come included.
RepeatsAreAccounted ==
  Len(stream) + Cardinality(Repeating) <= Cardinality(Sent) + failures + refusals

OrderInv ==
  /\ IInv /\ SentWasRecorded /\ RecordedInOrder /\ BackoffWasRetried
  /\ RetriesAreCounted /\ ClaimsInOrder /\ OnlyTheHeldAreOvertaken

HistoryInv == OrderInv /\ RepeatsAreAccounted

\* Nothing has been recorded, claimed or sent at first.
LEMMA InitOrder == Init => OrderInv
  BY InitIInv
  DEF Init, OrderInv, SentWasRecorded, RecordedInOrder, BackoffWasRetried,
      RetriesAreCounted, ClaimsInOrder, OnlyTheHeldAreOvertaken, Busy, Sent, Recorded

\* What the steps of the relay do to the stream, seen from the whole.
LEMMA SentGrows ==
  ASSUME OrderInv, Next
  PROVE  \/ Sent' = Sent
         \/ \E w \in Workers :
              /\ PublishAccepted(w) \/ PublishRefused(w)
              /\ Sent' = Sent \cup {claimed[w]}
<1>1. CASE stream' = stream
  BY <1>1 DEF Sent
<1>2. ASSUME NEW w \in Workers, PublishAccepted(w) \/ PublishRefused(w), Accept(claimed[w])
      PROVE  Sent' = Sent \cup {claimed[w]}
  <2>1. claimed[w] \in Entries
    BY <1>2 DEF OrderInv, IInv, HoldsClaim, Busy, PublishAccepted, PublishRefused
  <2> QED BY <1>2, <2>1, AcceptSends DEF OrderInv, IInv
<1>3. \/ stream' = stream
      \/ \E w \in Workers :
           (PublishAccepted(w) \/ PublishRefused(w)) /\ Accept(claimed[w])
  BY DEF Next, RunOnce, Record, Tick, Claim, PublishAccepted, PublishRefused, Save, Fail,
         LoseCommitReply, Elapse, Forget, queue
<1> QED BY <1>1, <1>2, <1>3

\* Rows that are recorded change only when their holder saves them.
LEMMA RowsChange ==
  ASSUME OrderInv, Next
  PROVE  /\ Recorded \subseteq Recorded'
         /\ \A e \in Recorded :
              \/ rows'[e] = rows[e]
              \/ \E w \in Workers :
                   /\ Save(w) \/ LoseCommitReply(w)
                   /\ pc[w] = "save" /\ claimed[w] = e /\ rows'[e] = loaded[w]
<1> USE DEF OrderInv, IInv
<1>1. ASSUME NEW batch \in SUBSET Entries, Record(batch)
      PROVE  \A e \in Recorded : rows'[e] = rows[e]
  BY <1>1 DEF Record, Recorded
<1>2. ASSUME NEW w \in Workers, Save(w) \/ LoseCommitReply(w)
      PROVE  /\ pc[w] = "save" /\ claimed[w] \in Entries
             /\ rows' = [rows EXCEPT ![claimed[w]] = loaded[w]]
             /\ loaded[w].status # "ABSENT"
  BY <1>2 DEF Save, LoseCommitReply, Persist, HoldsClaim, Busy, MemoryIsTrue
<1>3. \/ rows' = rows
      \/ \E batch \in SUBSET Entries : Record(batch)
      \/ \E w \in Workers : Save(w) \/ LoseCommitReply(w)
  BY DEF Next, RunOnce, Tick, Claim, PublishAccepted, PublishRefused, Fail, Elapse, Forget,
         table
<1>4. \A e \in Recorded :
        \/ rows'[e] = rows[e]
        \/ \E w \in Workers :
             /\ Save(w) \/ LoseCommitReply(w)
             /\ pc[w] = "save" /\ claimed[w] = e /\ rows'[e] = loaded[w]
  BY <1>1, <1>2, <1>3 DEF Recorded, TypeOK
<1>5. \A e \in Recorded : rows'[e].status # "ABSENT"
  BY <1>2, <1>4 DEF Recorded
<1> QED BY <1>4, <1>5 DEF Recorded

\* An event that may be overtaken remains so: its row is freed with a refusal
\* on it, with its event sent, or by a failure.
LEMMA PassableStays ==
  ASSUME OrderInv, Next, NEW e \in Recorded, Passable(e)
  PROVE  Passable(e)'
<1> USE DEF OrderInv, IInv
<1>1. e \in Entries /\ failures \in Nat /\ failures' \in Nat /\ failures' >= failures
  BY DEF Recorded, TypeOK, Next, RunOnce, Record, Tick, Claim, PublishAccepted,
         PublishRefused, Save, Fail, LoseCommitReply, Elapse, Forget
<1>2. e \in Sent => e \in Sent'
  BY SentGrows
<1>3. ASSUME NEW w \in Workers, Save(w) \/ LoseCommitReply(w), claimed[w] = e
      PROVE  Passable(e)'
  <2>1. pc[w] = "save" /\ rows'[e] = loaded[w]
    BY <1>1, <1>3 DEF Save, LoseCommitReply, Persist, TypeOK
  <2>2. CASE loaded[w].status = "PENDING"
    BY <2>1, <2>2 DEF RetriesAreCounted, Passable
  <2>3. CASE e \in Sent
    BY <1>2, <2>3 DEF Passable
  <2> QED BY <1>3, <2>1, <2>2, <2>3 DEF MemoryIsTrue
<1>4. CASE rows'[e] = rows[e] /\ lock[e] # NoWorker /\ lock'[e] = NoWorker
  <2>1. \/ \E w \in Workers : Save(w) \/ LoseCommitReply(w)
        \/ failures' > 0
    BY <1>1, <1>4
    DEF Next, RunOnce, Record, Tick, Claim, PublishAccepted, PublishRefused, Fail,
        Elapse, Forget, table, TypeOK
  <2>2. ASSUME NEW w \in Workers, Save(w) \/ LoseCommitReply(w) PROVE claimed[w] = e
    BY <1>1, <1>4, <2>2 DEF Save, LoseCommitReply, Persist, TypeOK
  <2> QED BY <1>3, <2>1, <2>2 DEF Passable
<1>5. CASE rows'[e] = rows[e] /\ (lock[e] # NoWorker => lock'[e] # NoWorker)
  BY <1>1, <1>2, <1>5 DEF Passable
<1> QED BY <1>3, <1>4, <1>5, RowsChange

\* Each step keeps the order of what is recorded, and the counts of refusals.
LEMMA NextCounts ==
  ASSUME OrderInv, Next
  PROVE  SentWasRecorded' /\ RecordedInOrder' /\ BackoffWasRetried' /\ RetriesAreCounted'
<1> USE DEF OrderInv, IInv
<1>1. SentWasRecorded'
  <2>1. \A w \in Workers : PublishAccepted(w) \/ PublishRefused(w) => claimed[w] \in Recorded
    BY DEF PublishAccepted, PublishRefused, HoldsClaim, Busy, Recorded
  <2> QED BY <2>1, SentGrows, RowsChange DEF SentWasRecorded
<1>2. RecordedInOrder'
  <2>1. ASSUME NEW batch \in SUBSET Entries, Record(batch) PROVE RecordedInOrder'
    <3>1. Recorded' = Recorded \cup batch
      BY <2>1 DEF Record, Recorded
    <3> QED BY <2>1, <3>1 DEF Record, RecordedInOrder
  <2>2. CASE Recorded' = Recorded
    BY <2>2 DEF RecordedInOrder
  <2>3. \/ \E batch \in SUBSET Entries : Record(batch)
        \/ Recorded' = Recorded
    <3>1. ASSUME NEW w \in Workers, Save(w) \/ LoseCommitReply(w)
          PROVE  Recorded' = Recorded
      <4>1. /\ rows' = [rows EXCEPT ![claimed[w]] = loaded[w]]
            /\ claimed[w] \in Recorded /\ loaded[w].status # "ABSENT"
        BY <3>1 DEF Save, LoseCommitReply, Persist, HoldsClaim, Busy, MemoryIsTrue, Recorded
      <4> QED BY <4>1 DEF Recorded, TypeOK
    <3>2. \/ rows' = rows
          \/ \E batch \in SUBSET Entries : Record(batch)
          \/ \E w \in Workers : Save(w) \/ LoseCommitReply(w)
      BY DEF Next, RunOnce, Tick, Claim, PublishAccepted, PublishRefused, Fail, Elapse,
             Forget, table
    <3> QED BY <3>1, <3>2 DEF Recorded
  <2> QED BY <2>1, <2>2, <2>3
<1>3. BackoffWasRetried'
  <2>1. ASSUME NEW w \in Workers, Save(w) \/ LoseCommitReply(w) PROVE BackoffWasRetried'
    <3>1. PICK e \in Entries :
            /\ pc[w] = "save" /\ e = claimed[w]
            /\ rows' = [rows EXCEPT ![e] = loaded[w]]
            /\ backoff' = IF loaded[w].status = "PENDING" THEN backoff \cup {e} ELSE backoff
            /\ rows[e].retries \in Nat /\ loaded[w].retries \in Nat
            /\ loaded[w].retries >= rows[e].retries
      BY <2>1 DEF Save, LoseCommitReply, Persist, HoldsClaim, Busy, RetriesAreCounted,
                  TypeOK, Row
    <3>2. loaded[w].status = "PENDING" => loaded[w].retries > 0
      BY <3>1 DEF RetriesAreCounted
    <3>3. \A f \in backoff : f \in Recorded' /\ f \in Entries /\ rows[f].retries > 0
      BY RowsChange DEF BackoffWasRetried, TypeOK
    <3>4. e \in Recorded'
      BY <2>1, <3>1, RowsChange DEF Save, LoseCommitReply, HoldsClaim, Busy, Recorded
    <3>5. \A f \in Entries : rows'[f] = IF f = e THEN loaded[w] ELSE rows[f]
      BY <3>1 DEF TypeOK
    <3> QED BY <3>1, <3>2, <3>3, <3>4, <3>5 DEF BackoffWasRetried
  <2>2. ASSUME NEW batch \in SUBSET Entries, Record(batch) PROVE BackoffWasRetried'
    BY <2>2 DEF Record, BackoffWasRetried, Recorded
  <2>3. CASE rows' = rows /\ backoff' \subseteq backoff
    BY <2>3 DEF BackoffWasRetried, Recorded
  <2> QED BY <2>1, <2>2, <2>3
          DEF Next, RunOnce, Tick, Claim, PublishAccepted, PublishRefused, Fail, Elapse,
              Forget, table
<1>4. RetriesAreCounted'
  <2>1. ASSUME NEW w \in Workers, NEW v \in Workers, Save(w) \/ LoseCommitReply(w), Busy(v)'
        PROVE  v # w /\ Busy(v) /\ rows'[claimed[v]] = rows[claimed[v]] /\ pc'[v] = pc[v]
    <3>1. /\ pc[w] = "save" /\ pc'[w] \in {"claim", "wait"}
          /\ \A u \in Workers \ {w} : pc'[u] = pc[u]
          /\ rows' = [rows EXCEPT ![claimed[w]] = loaded[w]]
      BY <2>1 DEF Save, LoseCommitReply, Persist, Goto, TypeOK
    <3>2. v # w /\ Busy(v) /\ pc'[v] = pc[v]
      BY <2>1, <3>1 DEF Busy
    <3>3. claimed[v] # claimed[w] /\ claimed[v] \in Entries
      BY <3>1, <3>2 DEF HoldsClaim, Busy
    <3> QED BY <3>1, <3>2, <3>3 DEF TypeOK
  <2>2. ASSUME NEW w \in Workers, Save(w) \/ LoseCommitReply(w) PROVE RetriesAreCounted'
    <3>1. loaded' = loaded /\ claimed' = claimed
      BY <2>2 DEF Save, LoseCommitReply, memory
    <3>2. \A v \in Workers : Busy(v)' =>
            Busy(v) /\ rows'[claimed[v]] = rows[claimed[v]] /\ pc'[v] = pc[v]
      BY <2>1, <2>2
    <3> QED BY <3>1, <3>2 DEF RetriesAreCounted, Busy
  <2>3. ASSUME NEW batch \in SUBSET Entries, Record(batch) PROVE RetriesAreCounted'
    BY <2>3 DEF Record, Recorded, RetriesAreCounted, HoldsClaim, Busy, memory
  <2>4. ASSUME NEW w \in Workers, Claim(w) PROVE RetriesAreCounted'
    <3>1. CASE UNCHANGED memory /\ Goto(w, "wait")
      BY <2>4, <3>1 DEF Claim, Goto, TypeOK, RetriesAreCounted, Busy, memory
    <3>2. ASSUME NEW e \in Due, claimed' = [claimed EXCEPT ![w] = e],
                 loaded' = [loaded EXCEPT ![w] = rows[e]], Goto(w, "publish")
          PROVE  RetriesAreCounted'
      <4>1. e \in Entries /\ rows' = rows /\ rows[e].retries \in Nat
        BY <2>4 DEF Due, Claim, TypeOK, Row
      <4> QED BY <3>2, <4>1 DEF Goto, TypeOK, RetriesAreCounted, Busy
    <3> QED BY <2>4, <3>1, <3>2 DEF Claim
  <2>5. ASSUME NEW w \in Workers, PublishAccepted(w) \/ PublishRefused(w)
        PROVE  RetriesAreCounted'
    <3>1. /\ pc[w] = "publish" /\ pc' = [pc EXCEPT ![w] = "save"]
          /\ rows' = rows /\ claimed' = claimed
          /\ \E entry \in {MarkPublished(loaded[w]), ScheduleRetry(loaded[w])} :
               loaded' = [loaded EXCEPT ![w] = entry]
      BY <2>5 DEF PublishAccepted, PublishRefused, Goto, table
    <3>2. /\ claimed[w] \in Entries
          /\ loaded[w].retries \in Nat /\ rows[claimed[w]].retries \in Nat
      BY <3>1 DEF TypeOK, Row, HoldsClaim, Busy
    <3>3. \A entry \in {MarkPublished(loaded[w]), ScheduleRetry(loaded[w])} :
            /\ entry.retries >= loaded[w].retries
            /\ entry.retries \in Nat
            /\ entry.status = "PENDING" => entry.retries > 0
      <4>1. loaded[w] \in Row
        BY DEF TypeOK
      <4>2. /\ MarkPublished(loaded[w]).status = "PUBLISHED"
            /\ MarkPublished(loaded[w]).retries = loaded[w].retries
            /\ ScheduleRetry(loaded[w]).retries = loaded[w].retries + 1
        BY <4>1 DEF MarkPublished, ScheduleRetry, Row
      <4> QED BY <3>2, <4>2
    <3>4. loaded'[w].retries >= rows[claimed[w]].retries
      BY <3>1, <3>2, <3>3 DEF RetriesAreCounted, Busy, TypeOK
    <3> QED BY <3>1, <3>3, <3>4 DEF TypeOK, RetriesAreCounted, Busy
  <2>6. ASSUME NEW w \in Workers, Tick(w) \/ Fail(w) PROVE RetriesAreCounted'
    BY <2>6 DEF Tick, Fail, Goto, TypeOK, RetriesAreCounted, Busy, table, memory
  <2>7. ASSUME NEW e \in Entries, Elapse(e) \/ Forget(e) PROVE RetriesAreCounted'
    BY <2>7 DEF Elapse, Forget, RetriesAreCounted, Busy, table, memory
  <2> QED BY <2>2, <2>3, <2>4, <2>5, <2>6, <2>7 DEF Next, RunOnce
<1> QED BY <1>1, <1>2, <1>3, <1>4

\* Workers claim, and so publish, in order but for the events that may be
\* overtaken.
LEMMA NextOrder ==
  ASSUME OrderInv, Next
  PROVE  ClaimsInOrder' /\ OnlyTheHeldAreOvertaken'
<1> USE DEF OrderInv, IInv
<1>1. \A f \in Recorded : \A e \in 1..(f - 1) :
        AggregateOf[e] = AggregateOf[f] /\ Passable(e) => Passable(e)'
  BY PassableStays DEF RecordedInOrder
<1>2. ASSUME NEW w \in Workers, NEW e \in Due, lock[e] = NoWorker, Claim(w),
             \A f \in {g \in Due : lock[g] = NoWorker} : e <= f,
             NEW d \in 1..(e - 1), AggregateOf[d] = AggregateOf[e]
      PROVE  Passable(d)
  <2>1. e \in Entries /\ e \in Recorded /\ d \in Recorded
    BY <1>2 DEF Due, Recorded, RecordedInOrder
  <2>2. d \in Entries /\ d < e
    BY <2>1 DEF Recorded, Entries, OutboxAssumption
  <2>3. rows[d].status = "PUBLISHED" => d \in Sent
    BY <2>2 DEF PublishedWasSent
  <2>4. d \in backoff => rows[d].retries > 0
    BY DEF BackoffWasRetried
  <2>5. d \in Due => lock[d] # NoWorker
    BY <1>2, <2>2 DEF Entries
  <2> QED BY <2>1, <2>2, <2>3, <2>4, <2>5 DEF Due, Passable, TypeOK, Row, Recorded
<1>3. ASSUME NEW w \in Workers, Busy(w)'
      PROVE  \/ Busy(w) /\ claimed'[w] = claimed[w]
             \/ \E e \in Due : /\ Claim(w) /\ claimed'[w] = e /\ lock[e] = NoWorker
                               /\ \A f \in {g \in Due : lock[g] = NoWorker} : e <= f
  <2>1. ASSUME NEW v \in Workers, v # w, Tick(v) \/ RunOnce(v) \/ Fail(v) \/ LoseCommitReply(v)
        PROVE  Busy(w) /\ claimed'[w] = claimed[w]
    BY <1>3, <2>1 DEF RunOnce, Tick, Claim, PublishAccepted, PublishRefused, Save, Fail,
                      LoseCommitReply, Goto, TypeOK, Busy, memory
  <2>2. CASE Claim(w)
    BY <1>3, <2>2 DEF Claim, Goto, TypeOK, Busy, memory
  <2>3. CASE PublishAccepted(w) \/ PublishRefused(w)
    BY <2>3 DEF PublishAccepted, PublishRefused, Busy
  <2>4. CASE Tick(w) \/ Save(w) \/ Fail(w) \/ LoseCommitReply(w)
    BY <1>3, <2>4 DEF Tick, Save, Fail, LoseCommitReply, Goto, TypeOK, Busy
  <2>5. CASE UNCHANGED <<pc, memory>>
    BY <1>3, <2>5 DEF Busy, memory
  <2>6. \/ UNCHANGED <<pc, memory>>
        \/ \E v \in Workers : Tick(v) \/ RunOnce(v) \/ Fail(v) \/ LoseCommitReply(v)
    BY DEF Next, Record, Elapse, Forget
  <2> QED BY <2>1, <2>2, <2>3, <2>4, <2>5, <2>6 DEF RunOnce
<1>4. ClaimsInOrder'
  <2> SUFFICES ASSUME NEW w \in Workers, Busy(w)',
                      NEW e \in 1..(claimed'[w] - 1), AggregateOf[e] = AggregateOf[claimed'[w]]
               PROVE  Passable(e)'
    BY DEF ClaimsInOrder
  <2>1. CASE Busy(w) /\ claimed'[w] = claimed[w]
    <3>1. Passable(e) /\ claimed[w] \in Recorded
      BY <2>1 DEF ClaimsInOrder, HoldsClaim, Recorded
    <3> QED BY <1>1, <2>1, <3>1
  <2>2. ASSUME Claim(w), claimed'[w] \in Due, lock[claimed'[w]] = NoWorker,
               \A f \in {g \in Due : lock[g] = NoWorker} : claimed'[w] <= f
        PROVE  Passable(e)'
    <3>1. claimed'[w] \in Recorded
      BY <2>2 DEF Due, Recorded
    <3> QED BY <1>1, <1>2, <2>2, <3>1
  <2> QED BY <1>3, <2>1, <2>2
<1>5. OnlyTheHeldAreOvertaken'
  <2> SUFFICES ASSUME NEW f \in Sent', NEW e \in 1..(f - 1), AggregateOf[e] = AggregateOf[f]
               PROVE  Passable(e)'
    BY DEF OnlyTheHeldAreOvertaken, Passable
  <2>1. CASE f \in Sent
    <3>1. f \in Recorded /\ Passable(e)
      BY <2>1 DEF OnlyTheHeldAreOvertaken, Passable, SentWasRecorded
    <3> QED BY <1>1, <3>1
  <2>2. ASSUME NEW w \in Workers, PublishAccepted(w) \/ PublishRefused(w), f = claimed[w]
        PROVE  Passable(e)'
    <3>1. Busy(w) /\ f \in Recorded /\ Passable(e)
      BY <2>2 DEF PublishAccepted, PublishRefused, Busy, HoldsClaim, ClaimsInOrder, Recorded
    <3> QED BY <1>1, <3>1
  <2> QED BY <2>1, <2>2, SentGrows
<1> QED BY <1>4, <1>5

\* Each step of the relay keeps the order.
LEMMA NextOrderInv == OrderInv /\ [Next]_vars => OrderInv'
<1> SUFFICES ASSUME OrderInv, [Next]_vars PROVE OrderInv'
  OBVIOUS
<1>1. IInv'
  BY NextIInv DEF OrderInv
<1>2. CASE UNCHANGED vars
  BY <1>1, <1>2
  DEF vars, table, queue, memory, OrderInv, SentWasRecorded, RecordedInOrder,
      BackoffWasRetried, RetriesAreCounted, ClaimsInOrder, Passable,
      OnlyTheHeldAreOvertaken, Busy, Sent, Recorded
<1>3. CASE Next
  BY <1>1, <1>3, NextCounts, NextOrder DEF OrderInv
<1> QED BY <1>2, <1>3

\* Within an aggregate an event is overtaken only while a worker holds it,
\* after a refusal or after a failure, however many workers claim side by side.
THEOREM OvertakingIsExplained == Spec => []OnlyTheHeldAreOvertaken
<1>1. OrderInv => OnlyTheHeldAreOvertaken
  BY DEF OrderInv
<1> QED BY <1>1, InitOrder, NextOrderInv, PTL DEF Spec

\* How many entries a set has, one more or less.
LEMMA Counting ==
  ASSUME NEW A \in SUBSET Entries, NEW B \in SUBSET Entries
  PROVE  /\ Cardinality(A) \in Nat
         /\ A \subseteq B => Cardinality(A) <= Cardinality(B)
         /\ \A e \in Entries :
              /\ Cardinality(B \cup {e}) = Cardinality(B) + (IF e \in B THEN 0 ELSE 1)
              /\ A \subseteq B \cup {e} => Cardinality(A) <= Cardinality(B) + 1
              /\ e \in B /\ A \subseteq B \ {e} => Cardinality(A) + 1 <= Cardinality(B)
<1>1. IsFiniteSet(Entries)
  BY FS_Interval, OutboxAssumption DEF Entries
<1>2. \A S \in SUBSET Entries : IsFiniteSet(S) /\ Cardinality(S) \in Nat
  BY <1>1, FS_Subset, FS_CardinalityType
<1>3. \A S, T \in SUBSET Entries : S \subseteq T => Cardinality(S) <= Cardinality(T)
  BY <1>2, FS_Subset
<1>4. ASSUME NEW e \in Entries
      PROVE  /\ Cardinality(B \cup {e}) = Cardinality(B) + (IF e \in B THEN 0 ELSE 1)
             /\ A \subseteq B \cup {e} => Cardinality(A) <= Cardinality(B) + 1
             /\ e \in B /\ A \subseteq B \ {e} => Cardinality(A) + 1 <= Cardinality(B)
  <2>1. Cardinality(B \cup {e}) = IF e \in B THEN Cardinality(B) ELSE Cardinality(B) + 1
    BY <1>2, FS_AddElement
  <2>2. e \in B => Cardinality(B \ {e}) = Cardinality(B) - 1
    BY <1>2, FS_RemoveElement
  <2>3. B \cup {e} \in SUBSET Entries /\ B \ {e} \in SUBSET Entries
    OBVIOUS
  <2>4. /\ A \subseteq B \cup {e} => Cardinality(A) <= Cardinality(B \cup {e})
        /\ A \subseteq B \ {e} => Cardinality(A) <= Cardinality(B \ {e})
    BY <1>3, <2>3
  <2>5. Cardinality(A) \in Nat /\ Cardinality(B) \in Nat
    BY <1>2
  <2> QED BY <2>1, <2>2, <2>4, <2>5
<1> QED BY <1>2, <1>3, <1>4

\* Only the holder of an entry can be about to settle it.
LEMMA OneSettles ==
  ASSUME IInv, NEW w \in Workers, Busy(w), NEW v \in Workers, Settling(v, claimed[w])
  PROVE  v = w
  BY DEF IInv, HoldsClaim, Busy, Settling

\* A publication sends an entry that has to be sent anyhow, repeats one that
\* was counted, or is refused.
LEMMA PublishRepeats ==
  ASSUME HistoryInv, NEW w \in Workers, PublishAccepted(w) \/ PublishRefused(w)
  PROVE  RepeatsAreAccounted'
<1> USE DEF HistoryInv, OrderInv, IInv
<1>1. PICK e \in Entries : e = claimed[w] /\ Busy(w) /\ pc[w] = "publish"
  BY DEF PublishAccepted, PublishRefused, HoldsClaim, Busy
<1>2. /\ rows' = rows /\ claimed' = claimed /\ failures' = failures
      /\ pc' = [pc EXCEPT ![w] = "save"]
      /\ \A v \in Workers \ {w} : loaded'[v] = loaded[v]
  BY DEF PublishAccepted, PublishRefused, table, Goto, TypeOK
<1>3. rows[e].status = "PENDING" /\ \A v \in Workers : ~Settling(v, e)
  BY <1>1, OneSettles DEF HoldsClaim, Settling
<1>4. \A v \in Workers : \A f : Settling(v, f) => Settling(v, f)'
  BY <1>1, <1>2 DEF Settling, TypeOK
<1>5. e \in Sent => e \in Repeating
  BY <1>3 DEF Repeating
<1>6. /\ Sent \subseteq Entries /\ Len(stream) \in Nat
      /\ failures \in Nat /\ refusals \in Nat
      /\ Repeating \subseteq Sent
  BY DEF TypeOK, Sent, Repeating
<1>7. ASSUME Accept(e)
      PROVE  /\ Sent' = Sent \cup {e} /\ Len(stream') \in Nat
             /\ Len(stream') <= Len(stream) + 1
             /\ Repeating' \subseteq Repeating \cup {e}
  <2>1. Sent' = Sent \cup {e} /\ Len(stream') \in Nat
    BY <1>7, AcceptSends
  <2>2. Len(stream') <= Len(stream) + 1
    BY <1>6, <1>7 DEF Accept, TypeOK
  <2>3. Repeating' \subseteq Repeating \cup {e}
    BY <1>2, <1>4, <2>1 DEF Repeating
  <2> QED BY <2>1, <2>2, <2>3
<1>8. CASE PublishAccepted(w)
  <2>1. Accept(e) /\ refusals' = refusals
    BY <1>1, <1>8 DEF PublishAccepted
  <2>2. Settling(w, e)'
    BY <1>1, <1>8 DEF PublishAccepted, Settling, Goto, MarkPublished, TypeOK, Row
  <2>3. Repeating' \subseteq Repeating \ {e}
    BY <1>7, <2>1, <2>2 DEF Repeating
  <2>4. CASE e \in Sent
    <3>1. /\ Cardinality(Repeating') + 1 <= Cardinality(Repeating)
          /\ Cardinality(Repeating') \in Nat /\ Cardinality(Repeating) \in Nat
      BY <1>5, <1>6, <2>3, <2>4, Counting
    <3>2. Sent' = Sent
      BY <1>7, <2>1, <2>4
    <3>3. Cardinality(Sent) \in Nat
      BY <1>6, Counting
    <3> QED BY <1>2, <1>6, <1>7, <2>1, <3>1, <3>2, <3>3 DEF RepeatsAreAccounted
  <2>5. CASE e \notin Sent
    <3>1. /\ Cardinality(Repeating') <= Cardinality(Repeating)
          /\ Cardinality(Repeating') \in Nat /\ Cardinality(Repeating) \in Nat
      BY <1>6, <2>3, Counting
    <3>2. Cardinality(Sent') = Cardinality(Sent) + 1 /\ Cardinality(Sent) \in Nat
      BY <1>6, <1>7, <2>1, <2>5, Counting
    <3> QED BY <1>2, <1>6, <1>7, <2>1, <3>1, <3>2 DEF RepeatsAreAccounted
  <2> QED BY <2>4, <2>5
<1>9. CASE PublishRefused(w)
  <2>1. refusals' = refusals + 1 /\ (Accept(e) \/ UNCHANGED queue)
    BY <1>1, <1>9 DEF PublishRefused
  <2>2. CASE UNCHANGED queue
    <3>1. Sent' = Sent /\ stream' = stream
      BY <2>2 DEF queue, Sent
    <3>2. Repeating' \subseteq Repeating
      BY <1>2, <1>4, <3>1 DEF Repeating
    <3>3. /\ Cardinality(Repeating') <= Cardinality(Repeating)
          /\ Cardinality(Repeating') \in Nat /\ Cardinality(Repeating) \in Nat
          /\ Cardinality(Sent) \in Nat
      BY <1>6, <3>2, Counting
    <3> QED BY <1>2, <1>6, <2>1, <3>1, <3>3 DEF RepeatsAreAccounted
  <2>3. CASE Accept(e) /\ e \in Sent
    <3>1. Sent' = Sent /\ Repeating' \subseteq Repeating
      BY <1>5, <1>7, <2>3
    <3>2. /\ Cardinality(Repeating') <= Cardinality(Repeating)
          /\ Cardinality(Repeating') \in Nat /\ Cardinality(Repeating) \in Nat
          /\ Cardinality(Sent) \in Nat
      BY <1>6, <3>1, Counting
    <3> QED BY <1>2, <1>6, <1>7, <2>1, <2>3, <3>1, <3>2 DEF RepeatsAreAccounted
  <2>4. CASE Accept(e) /\ e \notin Sent
    <3>1. /\ Cardinality(Sent') = Cardinality(Sent) + 1 /\ Cardinality(Sent) \in Nat
      BY <1>6, <1>7, <2>4, Counting
    <3>2. Repeating' \in SUBSET Entries
      BY <1>6, <1>7, <2>4
    <3>3. /\ Cardinality(Repeating') <= Cardinality(Repeating) + 1
          /\ Cardinality(Repeating') \in Nat /\ Cardinality(Repeating) \in Nat
      BY <1>6, <1>7, <2>4, <3>2, Counting
    <3> QED BY <1>2, <1>6, <1>7, <2>1, <2>4, <3>1, <3>3 DEF RepeatsAreAccounted
  <2> QED BY <2>1, <2>2, <2>3, <2>4
<1> QED BY <1>8, <1>9

\* Every other step sends nothing, and only a failure makes an entry to be
\* repeated.
LEMMA OtherRepeats ==
  ASSUME HistoryInv, Next,
         \A w \in Workers : ~PublishAccepted(w) /\ ~PublishRefused(w)
  PROVE  RepeatsAreAccounted'
<1> USE DEF HistoryInv, OrderInv, IInv
<1>1. stream' = stream /\ refusals' = refusals /\ Sent' = Sent
  BY DEF Next, RunOnce, Record, Tick, Claim, Save, Fail, LoseCommitReply, Elapse, Forget,
         queue, Sent
<1>2. ASSUME NEW w \in Workers, Fail(w)
      PROVE  /\ failures' = failures + 1
             /\ Repeating' \subseteq Repeating \cup ({claimed[w]} \cap Entries)
  <2>1. /\ rows' = rows /\ claimed' = claimed /\ loaded' = loaded
        /\ \A v \in Workers \ {w} : pc'[v] = pc[v]
    BY <1>2 DEF Fail, Goto, TypeOK, memory
  <2>2. Sent \subseteq Entries
    BY DEF TypeOK, Sent
  <2> QED BY <1>1, <1>2, <2>1, <2>2 DEF Fail, Repeating, Settling
<1>3. ASSUME NEW w \in Workers, Save(w) \/ LoseCommitReply(w)
      PROVE  Repeating' \subseteq Repeating
  <2>1. /\ pc[w] = "save" /\ claimed[w] \in Entries /\ claimed' = claimed /\ loaded' = loaded
        /\ \A v \in Workers \ {w} : pc'[v] = pc[v]
        /\ rows' = [rows EXCEPT ![claimed[w]] = loaded[w]]
        /\ rows[claimed[w]].status = "PENDING" /\ Busy(w)
    BY <1>3 DEF Save, LoseCommitReply, Persist, Goto, TypeOK, HoldsClaim, Busy, memory
  <2>2. ASSUME NEW f \in Repeating' PROVE f \in Repeating
    <3>1. /\ f \in Sent /\ f \in Entries /\ rows'[f].status = "PENDING"
          /\ \A v \in Workers : ~Settling(v, f)'
      BY <1>1, <2>2 DEF Repeating, TypeOK, Sent
    <3>2. \A v \in Workers \ {w} : ~Settling(v, f)
      BY <2>1, <3>1 DEF Settling
    <3>3. rows[f].status = "PENDING" /\ ~Settling(w, f)
      BY <2>1, <3>1 DEF Settling, TypeOK
    <3> QED BY <3>1, <3>2, <3>3 DEF Repeating
  <2> QED BY <2>2
<1>4. ASSUME NEW batch \in SUBSET Entries, Record(batch)
      PROVE  Repeating' \subseteq Repeating
  <2>1. \A f \in Sent : f \in Entries /\ rows'[f] = rows[f]
    BY <1>4 DEF Record, SentWasRecorded, Recorded
  <2>2. \A v \in Workers : \A f : Settling(v, f) => Settling(v, f)'
    BY <1>4 DEF Record, Settling, memory
  <2> QED BY <1>1, <2>1, <2>2 DEF Repeating
<1>5. ASSUME \/ \E w \in Workers : Tick(w) \/ Claim(w)
             \/ \E e \in Entries : Elapse(e) \/ Forget(e)
      PROVE  Repeating' \subseteq Repeating
  <2>1. \A v \in Workers : \A f : Settling(v, f) => Settling(v, f)'
    BY <1>5 DEF Tick, Claim, Elapse, Forget, Goto, Settling, TypeOK, memory
  <2>2. rows' = rows
    BY <1>5 DEF Tick, Claim, Elapse, Forget, table
  <2> QED BY <1>1, <2>1, <2>2 DEF Repeating
<1>6. /\ Repeating \subseteq Entries /\ Repeating' \subseteq Entries /\ Sent \subseteq Entries
      /\ Len(stream) \in Nat /\ failures \in Nat /\ refusals \in Nat
  BY <1>1 DEF TypeOK, Sent, Repeating
<1>7. /\ Cardinality(Repeating) \in Nat /\ Cardinality(Repeating') \in Nat
      /\ Cardinality(Sent) \in Nat
  BY <1>6, Counting
<1>8. CASE \E w \in Workers : Fail(w)
  <2>1. PICK w \in Workers : Fail(w)
    BY <1>8
  <2>2. Cardinality(Repeating') <= Cardinality(Repeating) + 1
    <3>1. CASE claimed[w] \in Entries
      <4>1. Repeating' \subseteq Repeating \cup {claimed[w]}
        BY <1>2, <2>1
      <4> QED BY <1>6, <3>1, <4>1, Counting
    <3>2. CASE claimed[w] \notin Entries
      <4>1. Repeating' \subseteq Repeating
        BY <1>2, <2>1, <3>2
      <4> QED BY <1>6, <1>7, <4>1, Counting
    <3> QED BY <3>1, <3>2
  <2> QED BY <1>1, <1>2, <1>6, <1>7, <2>1, <2>2 DEF RepeatsAreAccounted
<1>9. CASE Repeating' \subseteq Repeating
  <2>1. Cardinality(Repeating') <= Cardinality(Repeating)
    BY <1>6, <1>9, Counting
  <2>2. failures' \in Nat /\ failures' >= failures
    BY DEF Next, RunOnce, Record, Tick, Claim, Save, Fail, LoseCommitReply, Elapse, Forget,
           TypeOK
  <2> QED BY <1>1, <1>6, <1>7, <2>1, <2>2 DEF RepeatsAreAccounted
<1> QED BY <1>3, <1>4, <1>5, <1>8, <1>9 DEF Next, RunOnce

\* Nothing has been sent at first.
LEMMA InitHistory == Init => HistoryInv
<1> SUFFICES ASSUME Init PROVE HistoryInv
  OBVIOUS
<1>1. stream = <<>> /\ Sent = {} /\ Repeating = {} /\ failures = 0 /\ refusals = 0
  BY DEF Init, Sent, Repeating
<1>2. Len(stream) + Cardinality(Repeating) <= Cardinality(Sent) + failures + refusals
  BY <1>1, FS_EmptySet
<1> QED BY <1>2, InitOrder DEF HistoryInv, RepeatsAreAccounted

\* Each step of the relay keeps the account of copies.
LEMMA NextHistory == HistoryInv /\ [Next]_vars => HistoryInv'
<1> SUFFICES ASSUME HistoryInv, [Next]_vars PROVE HistoryInv'
  OBVIOUS
<1>1. OrderInv'
  BY NextOrderInv DEF HistoryInv
<1>2. CASE UNCHANGED vars
  <2>1. Sent' = Sent /\ Repeating' = Repeating
    BY <1>2 DEF vars, table, queue, memory, Sent, Repeating, Settling
  <2> QED BY <1>1, <1>2, <2>1 DEF vars, queue, HistoryInv, RepeatsAreAccounted
<1>3. CASE Next
  BY <1>1, <1>3, PublishRepeats, OtherRepeats DEF HistoryInv
<1> QED BY <1>2, <1>3

\* Beyond the first copy of each event the queue has no more copies than there
\* were failures and refusals, however many workers find an entry due.
THEOREM CopiesAccounted == Spec => []CopiesAreAccounted
<1>1. HistoryInv => CopiesAreAccounted
  <2> SUFFICES ASSUME HistoryInv PROVE CopiesAreAccounted
    OBVIOUS
  <2>1. /\ Sent \subseteq Entries /\ Repeating \subseteq Entries
        /\ Len(stream) \in Nat /\ failures \in Nat /\ refusals \in Nat
    BY DEF HistoryInv, OrderInv, IInv, TypeOK, Sent, Repeating
  <2>2. Cardinality(Sent) \in Nat /\ Cardinality(Repeating) \in Nat
    BY <2>1, Counting
  <2> QED BY <2>1, <2>2 DEF HistoryInv, RepeatsAreAccounted, CopiesAreAccounted
<1> QED BY <1>1, InitHistory, NextHistory, PTL DEF Spec

=============================================================================
