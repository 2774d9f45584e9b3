------------------------- MODULE LimiterEntryProofs -------------------------
(* Facts about one entry of the rate limiter's map, for the modules that   *)
(* reason about RateLimiter and AuthService.                               *)
EXTENDS LimiterEntry, TLAPS

(* NewRateLimiter's clamp: the rate the limiter works with is positive.    *)
LEMMA RpsPositive == Rps \in Nat \ {0}
  BY LimiterAssumption DEF Rps

(* What Allow writes back when it admits a request is an entry: the count  *)
(* never passes the rate.                                                  *)
LEMMA ChargeType ==
  ASSUME NEW e \in Entry, NEW t \in Nat, Admits(e, t)
  PROVE  Charge(e, t) \in Entry
<1> USE LimiterAssumption, RpsPositive
<1>1. CASE WindowOver(e, t)
  BY <1>1 DEF Charge, Entry
<1>2. CASE ~WindowOver(e, t)
  <2>1. e.count + 1 \in 0..Rps
    BY <1>2 DEF Admits, Entry
  <2>2. Charge(e, t) = [e EXCEPT !.count = e.count + 1]
    BY <1>2 DEF Charge
  <2> QED
    BY <2>1, <2>2 DEF Entry
<1> QED
  BY <1>1, <1>2
=============================================================================
