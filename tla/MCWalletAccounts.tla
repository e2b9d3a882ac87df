-------------------------- MODULE MCWalletAccounts --------------------------
(***************************************************************************)
(* Instances of WalletAccounts for TLC.                                    *)
(***************************************************************************)
EXTENDS WalletAccounts, TLC

CONSTANTS c1, c2, m1, m2, m3, r1, x1, o1

\* One movement up, one down, and initial balances of every kind.
UpAndDown == {-1, 1}
AnyInitial == {-1, 0, 1}
=============================================================================
