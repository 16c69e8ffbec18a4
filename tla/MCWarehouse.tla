---------------------------- MODULE MCWarehouse -----------------------------
(* Two pickers, two stretches of the order book of the code, cut down to     *)
(* the items that are ever reserved, 4 and 5, and one that never is, 3.      *)
EXTENDS Warehouse

MCItems == 3..5
MCPickers == 1..2
Cut(from, to) ==
  SelectSeq(SubSeq(buildOrders(320), from + 1, to + 1), LAMBDA o : o.item \in MCItems)
MCBooks == {Cut(3, 25), Cut(53, 70)}
=============================================================================
