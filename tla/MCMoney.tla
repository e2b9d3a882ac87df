------------------------------ MODULE MCMoney -------------------------------
(***************************************************************************)
(* An instance of Money for TLC: eight bits, and every text of up to six   *)
(* characters over the point, the sign and the digits that occur at the    *)
(* limits, 1.27 and -1.28.                                                 *)
(***************************************************************************)
EXTENDS Money

Characters == {"-", ".", "0", "1", "2", "7", "8"}

AllTexts == UNION {[1..n -> Characters] : n \in 0..6}

Limits == {-128, -127, -100, -1, 0, 1, 28, 100, 126, 127}
=============================================================================
