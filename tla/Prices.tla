------------------------------- MODULE Prices -------------------------------
(* The prices of protocol/asset.cpp.  A price relates an amount of a base   *)
(* asset to an amount of a quote asset; which assets these are is known     *)
(* where a price is used.  Prices are never reduced: all that is computed   *)
(* with one depends only on its quotient.                                   *)
EXTENDS Integers

CONSTANT RatioDenom          \* GRAPHENE_COLLATERAL_RATIO_DENOM

ASSUME RatioDenomAssumption == RatioDenom \in Nat \ {0}

Price(b, q) == [base |-> b, quote |-> q]
Inverted(p) == Price(p.quote, p.base)

Below(p, q) == p.base * q.quote < q.base * p.quote

(* What an amount of the base asset is in the quote asset, rounded down and *)
(* up, and the same from the quote asset to the base asset.                 *)
ToQuote(n, p) == (n * p.quote) \div p.base
ToQuoteUp(n, p) == (n * p.quote + p.base - 1) \div p.base
ToBase(n, p) == ToQuote(n, Inverted(p))
ToBaseUp(n, p) == ToQuoteUp(n, Inverted(p))

(* Collateral per debt at which a margin call is due. *)
call_price(debt, collateral, mcr) == Price(collateral * RatioDenom, debt * mcr)

(* Debt per collateral at which a call order sells at worst. *)
max_short_squeeze_price(feed) ==
  Price(feed.price.base * RatioDenom, feed.price.quote * feed.mssr)
=============================================================================
