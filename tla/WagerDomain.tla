---------------------------- MODULE WagerDomain ----------------------------
(***************************************************************************)
(* The domain rules of a wager transaction and of a wallet: the pure part  *)
(* of internal/wager, internal/wallet and internal/app that every module   *)
(* of this project decides with.                                           *)
(*                                                                         *)
(* A Key stands for the pair (providerId, externalTransactionId); a        *)
(* reference is looked up with the provider of the request, so it is a Key *)
(* too.  `round` stands for the pair (playerId, roundId), which are only   *)
(* ever compared for equality.  `gameId` is left out: it only makes two    *)
(* payloads differ, as two amounts do.                                     *)
(***************************************************************************)
EXTENDS Integers

CONSTANTS
  Keys,        \* idempotency keys a provider may use
  NoKey,       \* "no reference"
  WalletIds,   \* wallet ids a request may name, existing or not
  Rounds,      \* (player, round) pairs
  Currencies,  \* ISO codes
  Requests,    \* the submissions under consideration
  MaxMoney     \* math.MaxInt64: the largest amount a Money value holds

Kinds == {"BET", "WIN", "LOSS", "REFUND", "ROLLBACK"}

Statuses == {"PENDING", "PENDING_REFERENCE", "PROCESSED", "REJECTED", "FAILED"}

IsTerminal(status) == status \in {"PROCESSED", "REJECTED", "FAILED"}

FailureCodes ==
  {"none", "INSUFFICIENT_BALANCE", "REVERSAL_EXCEEDS_BALANCE",
   "INVALID_REFERENCE", "DUPLICATE_REVERSAL", "REFERENCE_NOT_FOUND"}

Directions == {"DEBIT", "CREDIT"}

\* The content of a submission, its idempotency key included.
Request ==
  [key: Keys, kind: Kinds, wallet: WalletIds, round: Rounds,
   amount: Int, currency: Currencies, reference: Keys \cup {NoKey}]

ASSUME DomainAssumption ==
  /\ NoKey \notin Keys
  /\ Requests \subseteq Request
  /\ MaxMoney \in Nat

\* A wager.Transaction: what was asked, and what has been decided of it.
Transaction ==
  [request: Requests, status: Statuses, ref: Keys \cup {NoKey},
   code: FailureCodes]

IsReversal(kind) == kind \in {"REFUND", "ROLLBACK"}

\* The switch of NewTransaction on the kind: sign of the amount, presence of
\* the reference.
ValidRequest(req) ==
  /\ req.kind = "LOSS" => req.amount = 0
  /\ req.kind # "LOSS" => req.amount > 0
  /\ req.kind = "BET" => req.reference = NoKey
  /\ IsReversal(req.kind) => req.reference # NoKey

NewTransaction(req) ==
  [request |-> req, status |-> "PENDING", ref |-> NoKey, code |-> "none"]

\* PayloadHash leaves out the key, and only requests of equal keys are ever
\* compared, so equal hashes are equal requests.
SamePayload(req1, req2) == req1 = req2

\* REFUND reverses a BET; ROLLBACK reverses a BET, a WIN or a REFUND.
ReferenceableKind(kind, refKind) ==
  \/ kind = "REFUND"   /\ refKind = "BET"
  \/ kind = "ROLLBACK" /\ refKind \in {"BET", "WIN", "REFUND"}

\* The reference was found under the provider and external id of req, so those
\* two comparisons of the code hold by the lookup.
ValidateReference(req, found) ==
  /\ ReferenceableKind(req.kind, found.request.kind)
  /\ found.status = "PROCESSED"
  /\ found.request.wallet = req.wallet
  /\ found.request.round = req.round
  /\ found.request.amount = req.amount
  /\ found.request.currency = req.currency

\* A ROLLBACK moves the wallet against its reference; refKind is read for a
\* ROLLBACK only.
MovementDirection(kind, refKind) ==
  IF kind = "BET" \/ (kind = "ROLLBACK" /\ refKind # "BET")
    THEN "DEBIT" ELSE "CREDIT"

\* Money.Add of a balance and a positive amount of its currency.
Overflows(balance, direction, amount) ==
  direction = "CREDIT" /\ balance + amount > MaxMoney

\* Variation: off by one, the balance may reach -1.
InsufficientOffByOne(balance, direction, amount) ==
  direction = "DEBIT" /\ balance - amount < -1

\* Wallet.Debit refuses to go below zero.
Insufficient(balance, direction, amount) ==
  direction = "DEBIT" /\ balance - amount < 0

BalanceAfter(balance, direction, amount) ==
  IF direction = "DEBIT" THEN balance - amount ELSE balance + amount

InsufficientCode(kind) ==
  IF kind = "BET" THEN "INSUFFICIENT_BALANCE" ELSE "REVERSAL_EXCEEDS_BALANCE"

MarkProcessed(tx) == [tx EXCEPT !.status = "PROCESSED"]

MarkRejected(tx, failureCode) ==
  [tx EXCEPT !.status = "REJECTED", !.code = failureCode]

MarkPendingReference(tx) == [tx EXCEPT !.status = "PENDING_REFERENCE"]

ResolveReference(tx, key) == [tx EXCEPT !.ref = key]

=============================================================================
