----------------------------- MODULE EventRelay -----------------------------
(***************************************************************************)
(* What the transactional outbox promises, with no worker, lock or backoff *)
(* in sight: a recorded event is sent at least once, never before it is    *)
(* recorded and never again once it is settled, and it is settled only     *)
(* after it has been sent.                                                 *)
(***************************************************************************)
EXTENDS Naturals, Sequences

CONSTANT Events

VARIABLES
  recorded,  \* events whose transaction has committed
  settled,   \* events nobody will send again
  stream     \* what has been sent, in order

vars == <<recorded, settled, stream>>

Sent == {stream[i] : i \in 1..Len(stream)}

Init == recorded = {} /\ settled = {} /\ stream = <<>>

Record ==
  /\ \E batch \in SUBSET (Events \ recorded) : recorded' = recorded \cup batch
  /\ UNCHANGED <<settled, stream>>

Send(e) ==
  /\ e \in recorded \ settled
  /\ stream' = Append(stream, e)
  /\ UNCHANGED <<recorded, settled>>

Settle(e) ==
  /\ e \in Sent \ settled
  /\ settled' = settled \cup {e}
  /\ UNCHANGED <<recorded, stream>>

Next == Record \/ \E e \in Events : Send(e) \/ Settle(e)

Spec == Init /\ [][Next]_vars

=============================================================================
