------------------------------- MODULE MCBank -------------------------------
(* Two tellers with two transfers each over two accounts: enough for a read  *)
(* of one teller to go stale under two writes of the other, for transfers in *)
(* both directions, to oneself and beyond the funds.                         *)
EXTENDS Bank

MCTellers == {"ann", "ben"}
MCAmounts == {1, 3}
=============================================================================
