----------------------------- MODULE WalletBook ----------------------------
(***************************************************************************)
(* What the wagering core promises, with no process, lock or message in    *)
(* sight: a book of decided transactions and balances in which every       *)
(* decision is one atomic step, taken once for each key, and justified by  *)
(* the book at the instant it is taken.                                    *)
(*                                                                         *)
(* Two decisions are justified by an earlier instant only, because the     *)
(* code takes them without a lock: a transaction may be parked although    *)
(* its reference has arrived meanwhile, and rejected for a reference that  *)
(* has become PROCESSED meanwhile.                                         *)
(***************************************************************************)
EXTENDS WagerDomain

CONSTANTS Wallets, WalletCurrency, Opening, Absent

VARIABLES
  decided,  \* request, status and failure code of each key, or Absent
  balance,  \* of each wallet
  moved     \* the keys that have moved money

vars == <<decided, balance, moved>>

Init ==
  /\ decided = [k \in Keys |-> Absent]
  /\ balance = Opening
  /\ moved = {}

\* Nothing is decided of the key, or this very request is parked under it.
Open(req) ==
  \/ decided[req.key] = Absent
  \/ /\ decided[req.key] # Absent
     /\ decided[req.key].status = "PENDING_REFERENCE"
     /\ decided[req.key].request = req

Record(req, status, code) ==
  decided' = [decided EXCEPT ![req.key] =
                [request |-> req, status |-> status, code |-> code]]

Referenced(req) == decided[req.reference]

DirectionOf(req) ==
  MovementDirection(req.kind,
    IF IsReversal(req.kind) THEN Referenced(req).request.kind ELSE "BET")

Reversed(key) ==
  \E k \in moved : /\ IsReversal(decided[k].request.kind)
                   /\ decided[k].request.reference = key

\* A reversal moves money only against a PROCESSED reference it matches.
Referable(req) ==
  IsReversal(req.kind) =>
    Referenced(req) # Absent /\ ValidateReference(req, Referenced(req))

\* A reversal whose reference has not been decided is parked, once.
Park(req) ==
  /\ decided[req.key] = Absent
  /\ IsReversal(req.kind)
  /\ Record(req, "PENDING_REFERENCE", "none")
  /\ UNCHANGED <<balance, moved>>

RejectReference(req) ==
  /\ Open(req)
  /\ IsReversal(req.kind) /\ Referenced(req) # Absent
  /\ Record(req, "REJECTED", "INVALID_REFERENCE")
  /\ UNCHANGED <<balance, moved>>

GiveUpReference(req) ==
  /\ Open(req) /\ decided[req.key] # Absent
  /\ Record(req, "REJECTED", "REFERENCE_NOT_FOUND")
  /\ UNCHANGED <<balance, moved>>

RejectDuplicate(req) ==
  /\ Open(req)
  /\ IsReversal(req.kind) /\ Reversed(req.reference)
  /\ Record(req, "REJECTED", "DUPLICATE_REVERSAL")
  /\ UNCHANGED <<balance, moved>>

RejectBalance(req) ==
  /\ Open(req) /\ req.wallet \in Wallets
  /\ Referable(req)
  /\ DirectionOf(req) = "DEBIT" /\ balance[req.wallet] < req.amount
  /\ Record(req, "REJECTED", InsufficientCode(req.kind))
  /\ UNCHANGED <<balance, moved>>

\* Money moves: once for this key, once for the transaction it reverses, and
\* never out of the range of a balance.
Settle(req) ==
  /\ Open(req) /\ req.wallet \in Wallets
  /\ req.kind # "LOSS" /\ WalletCurrency[req.wallet] = req.currency
  /\ Referable(req)
  /\ IsReversal(req.kind) => ~Reversed(req.reference)
  /\ balance' = [balance EXCEPT ![req.wallet] =
                   BalanceAfter(@, DirectionOf(req), req.amount)]
  /\ balance'[req.wallet] \in 0..MaxMoney
  /\ moved' = moved \cup {req.key}
  /\ Record(req, "PROCESSED", "none")

Lose(req) ==
  /\ Open(req) /\ req.wallet \in Wallets
  /\ req.kind = "LOSS" /\ WalletCurrency[req.wallet] = req.currency
  /\ Record(req, "PROCESSED", "none")
  /\ UNCHANGED <<balance, moved>>

Next ==
  \E req \in {r \in Requests : ValidRequest(r)} :
    \/ Park(req) \/ RejectReference(req) \/ GiveUpReference(req)
    \/ RejectDuplicate(req) \/ RejectBalance(req)
    \/ Settle(req) \/ Lose(req)

Spec == Init /\ [][Next]_vars

=============================================================================
