------------------------- MODULE MCCartAbandonment -------------------------
(* CartAbandonment with one of the two domains of the example, orders: the  *)
(* domains have watchers of their own and differ in nothing modelled here.  *)
EXTENDS CartAbandonment

MCDomain == {"orders"}
=============================================================================
