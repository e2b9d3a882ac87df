------------------------- MODULE PendingReferences --------------------------
(***************************************************************************)
(* The schedule of PendingReferenceResolver in one instance of the         *)
(* service: the batch of each tick, the order in which it is handled, the  *)
(* backoff of an item and the two ways in which its patience ends.         *)
(*                                                                         *)
(* What handling one item does to wallets and ledger is WagerSubmit's      *)
(* subject; here it is one step.  Time is counted in units by Pass.        *)
(***************************************************************************)
EXTENDS Integers, Sequences, FiniteSets

CONSTANTS
  NumItems,     \* transactions parked in one behaviour, in order of creation
  Poisonous,    \* those whose reference, once there, makes process fail
  Limit,        \* batchLimit
  MaxAttempts,  \* PENDING_REFERENCE_MAX_ATTEMPTS
  Ttl,          \* PENDING_REFERENCE_TTL
  Base,         \* PENDING_REFERENCE_BACKOFF_BASE
  MaxShift,     \* maxShift
  MaxFailures   \* bound: failed statements in one behaviour

Items == 1..NumItems

ASSUME PendingReferencesAssumption ==
  /\ NumItems \in Nat /\ Poisonous \subseteq Items
  /\ Limit \in Nat \ {0} /\ MaxAttempts \in Nat \ {0}
  /\ Ttl \in Nat \ {0} /\ Base \in Nat \ {0}
  /\ MaxShift \in Nat /\ MaxFailures \in Nat

VARIABLES
  status,    \* of each item
  there,     \* items whose reference is processed
  attempts,  \* pending_reference_attempts
  wait,      \* time until pending_reference_next_retry_at
  age,       \* time since created_at, up to Ttl
  pc,        \* "ticker", "batch"
  batch,     \* what is left of the batch in memory
  elapsed,   \* time since the tick, which the resolver still calls now
  failures   \* failed statements so far

schedule == <<attempts, wait>>
resolver == <<pc, batch, elapsed>>
vars == <<status, there, schedule, age, resolver, failures>>

Parked == {i \in Items : status[i] = "PENDING_REFERENCE"}

\* Variation: a wait that does not grow.
ConstantDelay(n) == Base

\* Base << n, and the cap on n.
Shifted[n \in Nat] == IF n = 0 THEN Base ELSE 2 * Shifted[n - 1]
Capped(n) == IF n > MaxShift THEN MaxShift ELSE n

BackoffDelay(n) == Shifted[Capped(n)]

LongestDelay == BackoffDelay(MaxAttempts)

-----------------------------------------------------------------------------
\* A reversal whose reference is not there is saved as PENDING_REFERENCE.
Park(i) ==
  /\ status[i] = "ABSENT" /\ i \notin there
  /\ \A j \in 1..(i - 1) : status[j] # "ABSENT"
  /\ status' = [status EXCEPT ![i] = "PENDING_REFERENCE"]
  /\ UNCHANGED <<there, schedule, age, resolver, failures>>

\* The transaction that an item refers to is processed.
Arrive(i) ==
  /\ i \notin there
  /\ there' = there \cup {i}
  /\ UNCHANGED <<status, schedule, age, resolver, failures>>

Due == {i \in Parked : wait[i] = 0}

\* The first Limit items of a set in the order of their creation.
IsOldest(oldest, items) ==
  /\ \A n \in DOMAIN oldest : \A k \in 1..(n - 1) : oldest[k] < oldest[n]
  /\ \A i \in items \ {oldest[n] : n \in DOMAIN oldest} :
       \A n \in DOMAIN oldest : oldest[n] < i

BatchSize == IF Cardinality(Due) < Limit THEN Cardinality(Due) ELSE Limit

\* FindDuePendingReferences: the oldest due items, as they are at the tick.
FindDue ==
  /\ pc = "ticker"
  /\ \E oldest \in [1..BatchSize -> Due] :
       /\ IsOldest(oldest, Due)
       /\ batch' = [n \in 1..BatchSize |->
            [item |-> oldest[n], attempts |-> attempts[oldest[n]], age |-> age[oldest[n]]]]
  /\ pc' = "batch" /\ elapsed' = 0
  /\ UNCHANGED <<status, there, schedule, age, failures>>

\* Variation: one attempt more.
ExpiredLate(entry) == entry.attempts > MaxAttempts \/ entry.age >= Ttl

\* Variation: only the attempts count.
ExpiredByAttempts(entry) == entry.attempts >= MaxAttempts

Expired(entry) == entry.attempts >= MaxAttempts \/ entry.age >= Ttl

\* reject with REFERENCE_NOT_FOUND, without another look for the reference.
GiveUp(entry) ==
  /\ Expired(entry)
  /\ status' = [status EXCEPT ![entry.item] = "REFERENCE_NOT_FOUND"]
  /\ UNCHANGED schedule

\* process finds the reference and comes to a decision.
Resolve(entry) ==
  /\ ~Expired(entry) /\ entry.item \in there \ Poisonous
  /\ status' = [status EXCEPT ![entry.item] = "RESOLVED"]
  /\ UNCHANGED schedule

\* process does not find it; the next retry counts from the tick.
Reschedule(entry) ==
  LET delay == BackoffDelay(entry.attempts) IN
  /\ ~Expired(entry) /\ entry.item \notin there
  /\ attempts' = [attempts EXCEPT ![entry.item] = @ + 1]
  /\ wait' = [wait EXCEPT ![entry.item] = IF delay > elapsed THEN delay - elapsed ELSE 0]
  /\ UNCHANGED status

\* resolveOne without error: on to the next item.
ResolveOne ==
  /\ pc = "batch" /\ batch # <<>>
  /\ LET entry == Head(batch) IN GiveUp(entry) \/ Resolve(entry) \/ Reschedule(entry)
  /\ batch' = Tail(batch)
  /\ UNCHANGED <<there, age, pc, elapsed, failures>>

\* The first error ends ResolveDue: the rest of the batch is dropped, and the
\* item that failed stays as it is.
AbandonBatch ==
  /\ batch' = <<>> /\ pc' = "ticker" /\ elapsed' = 0
  /\ UNCHANGED <<status, there, schedule, age>>

\* process fails every time: a credit beyond what the wallet can hold.
FailAgain ==
  /\ pc = "batch" /\ batch # <<>>
  /\ ~Expired(Head(batch)) /\ Head(batch).item \in there \cap Poisonous
  /\ AbandonBatch
  /\ UNCHANGED failures

\* A statement fails once.
FailOnce ==
  /\ pc = "batch" /\ batch # <<>> /\ failures < MaxFailures
  /\ failures' = failures + 1
  /\ AbandonBatch

\* ResolveDue has gone through its batch; the loop waits for the next tick.
EndTick ==
  /\ pc = "batch" /\ batch = <<>>
  /\ pc' = "ticker" /\ elapsed' = 0
  /\ UNCHANGED <<status, there, schedule, age, batch, failures>>

\* Time passes, while a batch is being handled as well.
Pass ==
  /\ age' = [i \in Items |->
       IF status[i] # "ABSENT" /\ age[i] < Ttl THEN age[i] + 1 ELSE age[i]]
  /\ wait' = [i \in Items |-> IF wait[i] = 0 THEN 0 ELSE wait[i] - 1]
  /\ elapsed' = IF pc = "batch" /\ elapsed < LongestDelay THEN elapsed + 1 ELSE elapsed
  /\ UNCHANGED <<status, there, attempts, pc, batch, failures>>

-----------------------------------------------------------------------------
Init ==
  /\ status = [i \in Items |-> "ABSENT"]
  /\ there = {}
  /\ attempts = [i \in Items |-> 0]
  /\ wait = [i \in Items |-> 0]
  /\ age = [i \in Items |-> 0]
  /\ pc = "ticker" /\ batch = <<>> /\ elapsed = 0
  /\ failures = 0

ResolveDue == FindDue \/ ResolveOne \/ FailAgain \/ EndTick

Next ==
  \/ \E i \in Items : Park(i) \/ Arrive(i)
  \/ ResolveDue \/ FailOnce \/ Pass

Spec == Init /\ [][Next]_vars

\* The ticker ticks, statements return and time passes.  Nothing obliges a
\* transaction to be submitted, or a reference to arrive.
FairSpec == Spec /\ WF_vars(ResolveDue) /\ WF_vars(Pass)

-----------------------------------------------------------------------------
\* The types; no item is ever tried more often than MaxAttempts allows.
TypeOK ==
  /\ status \in [Items -> {"ABSENT", "PENDING_REFERENCE", "RESOLVED", "REFERENCE_NOT_FOUND"}]
  /\ there \subseteq Items
  /\ attempts \in [Items -> 0..MaxAttempts]
  /\ wait \in [Items -> 0..LongestDelay]
  /\ age \in [Items -> 0..Ttl]
  /\ pc \in {"ticker", "batch"}
  /\ batch \in Seq([item : Items, attempts : 0..MaxAttempts, age : 0..Ttl])
  /\ Len(batch) <= Limit
  /\ elapsed \in 0..LongestDelay
  /\ failures \in 0..MaxFailures

GivesUp(i) ==
  status[i] = "PENDING_REFERENCE" /\ status'[i] = "REFERENCE_NOT_FOUND"

\* The first n backoffs together: base, 2 base, ... up to the cap.
Series[n \in Nat] == IF n = 0 THEN 0 ELSE Series[n - 1] + Shifted[Capped(n - 1)]

\* An item is given up only after its ttl, or after the whole series of
\* backoffs has gone by, however long the batches took.
PatienceIsKept ==
  [][\A i \in Items : GivesUp(i) =>
       \/ age[i] >= Ttl
       \/ age[i] >= Series[MaxAttempts]]_vars

\* Every parked transaction ends, those included that stand behind one that
\* fails every time: its ttl gets it out of the way (resolveOne, :100).
EveryItemEnds == \A i \in Items : i \in Parked ~> i \notin Parked

\* "draining everything currently due before waiting for the next tick": at
\* the end of a tick without errors nothing is due that was due when it began
\* (no time has passed since, and the item is not new).
DrainsTheDue ==
  [][EndTick /\ elapsed = 0 => \A i \in Due : age[i] = 0]_vars

\* REFERENCE_NOT_FOUND is definitive, "no reasonable new attempt changes the
\* result": an item given up has no reference that is there.
NotFoundIsDefinitive == [][\A i \in Items : GivesUp(i) => i \notin there]_vars

=============================================================================
