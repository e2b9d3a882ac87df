----------------------------- MODULE MCConsumer -----------------------------
(***************************************************************************)
(* Instances of Consumer for TLC: what is in the queue and what HTTP may   *)
(* submit in the meantime.                                                 *)
(***************************************************************************)
EXTENDS Consumer, TLC

CONSTANTS i1, i2, i3, bet, refund, rollback, w1, w2, plain, other

Of(key, payload, reference) ==
  [key |-> key, wallet |-> w1, payload |-> payload, reference |-> reference]

Bet == Of(bet, plain, NoKey)
Refund == Of(refund, plain, bet)
Rollback == Of(rollback, plain, bet)

Msg(id, group, body) == [id |-> id, group |-> group, valid |-> TRUE, body |-> body]

\* Behind a malformed message, a bet and its refund: one wallet, one group.
BetAndRefund ==
  <<[Msg(i3, w1, Bet) EXCEPT !.valid = FALSE], Msg(i1, w1, Bet), Msg(i2, w1, Refund)>>

\* The same without what is before them.
BetThenRefund == Tail(BetAndRefund)

\* One id over two contents.
OneIdTwoContents ==
  <<Msg(i1, w1, Bet), Msg(i1, w2, [Bet EXCEPT !.key = refund])>>

\* Two reversals of a bet that comes later: both are parked, and a group that
\* is not the wallet lets two instances handle them at once.  The last message
\* repeats the id of the bet with another content, for a wallet that is not there.
TwoParkings ==
  <<Msg(i1, w1, Refund), Msg(i2, w2, Rollback), Msg(i3, w1, Bet),
    Msg(i3, w2, [Bet EXCEPT !.wallet = NoWallet])>>

Contradiction == {[Refund EXCEPT !.payload = other], Bet}
RefundOnly == {Refund}
=============================================================================
