------------------------- MODULE MCQuoteAbandonment -------------------------
(* QuoteAbandonment with the two domains of the example. *)
EXTENDS QuoteAbandonment

MCDomain == {"quotes", "applicant_360"}

(* One of them: properties of a single domain need no second one. *)
MCOneDomain == {"quotes"}
=============================================================================
