--------------------------- MODULE MCOrderService ---------------------------
(* Orders of a few items; each parameter takes an illegal value, the       *)
(* smallest legal one and another.                                         *)
EXTENDS OrderService

MCQuantities == {0, 1, 2}
MCPrices     == {-1, 0, 3}
=============================================================================
