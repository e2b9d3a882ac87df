---------------------------- MODULE MCWagerSubmit --------------------------
(***************************************************************************)
(* Instances of WagerSubmit for TLC.  Each catalogue of requests is chosen *)
(* for the races or the edges its runs are about.                          *)
(***************************************************************************)
EXTENDS WagerSubmit, TLC

CONSTANTS bet, refund, rollback, win, loss, none, w1, w2, ghost, r1, r2, brl, usd

Req(key, kind, wallet, amount, reference) ==
  [key |-> key, kind |-> kind, wallet |-> wallet, round |-> r1,
   amount |-> amount, currency |-> brl, reference |-> reference]

\* A bet, a different bet under the same key, and both kinds of reversal of it.
RaceRequests ==
  {Req(bet, "BET", w1, 1, none), Req(bet, "BET", w1, 2, none),
   Req(refund, "REFUND", w1, 1, bet), Req(rollback, "ROLLBACK", w1, 1, bet)}

\* Every kind, with the amounts, currencies, wallets and references that meet
\* each edge of NewTransaction, ValidateReference, Debit and Credit: the opening
\* balance is 2 and no balance may exceed 3.
EdgeRequests ==
  {Req(bet, "BET", w1, 3, none),
   Req(win, "WIN", w1, 1, none),
   Req(rollback, "ROLLBACK", w1, 1, win),
   Req(refund, "REFUND", w1, 1, win),
   Req(refund, "REFUND", ghost, 1, bet),
   Req(loss, "LOSS", w1, 0, none),
   [Req(loss, "LOSS", w1, 0, none) EXCEPT !.currency = usd],
   [Req(win, "WIN", w1, 2, none) EXCEPT !.currency = usd],
   Req(loss, "LOSS", ghost, 0, none),
   Req(win, "WIN", w1, 2, none),
   [Req(rollback, "ROLLBACK", w1, 1, win) EXCEPT !.round = r2],
   Req(rollback, "ROLLBACK", w1, 1, none)}

\* A bet and one parked reversal of it: what several resolvers race for.
ParkedRequests ==
  {Req(bet, "BET", w1, 1, none), Req(refund, "REFUND", w1, 1, bet)}

\* A bet and both kinds of reversal of it.
ReversalRequests ==
  {Req(bet, "BET", w1, 1, none), Req(refund, "REFUND", w1, 1, bet),
   Req(rollback, "ROLLBACK", w1, 1, bet)}

TwoEach == [w \in Wallets |-> 2]
InBRL == [w \in Wallets |-> brl]

SubmitterSymmetry == Permutations(Submitters)
ProcessSymmetry == Permutations(Submitters) \cup Permutations(Resolvers)
=============================================================================
