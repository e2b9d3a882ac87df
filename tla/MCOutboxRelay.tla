---------------------------- MODULE MCOutboxRelay ---------------------------
(***************************************************************************)
(* Instances of OutboxRelay for TLC.                                       *)
(***************************************************************************)
EXTENDS OutboxRelay, TLC

CONSTANTS wallet, wager

\* A bet whose debit and whose decision are told by two aggregates, and a
\* second movement of the same wallet.
Movements == <<wallet, wager, wallet>>

=============================================================================
