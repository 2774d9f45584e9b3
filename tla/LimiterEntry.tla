---------------------------- MODULE LimiterEntry ----------------------------
(***************************************************************************)
(* The per-key record of the fixed-window rate limiter of authd and the    *)
(* two decisions RateLimiter.Allow takes on it                             *)
(* (server/internal/auth/service.go).  No state: RateLimiter.tla wraps     *)
(* these operators in a state machine of their own, AuthService.tla uses   *)
(* them inside the token-exchange handler.                                 *)
(*                                                                         *)
(* Time is an integer number of ticks; Second ticks make one second.       *)
(***************************************************************************)
EXTENDS Integers

CONSTANTS RpsFlag,   \* the value of authd's --rate-limit-rps
          Second     \* time.Second, in ticks

ASSUME LimiterAssumption == /\ RpsFlag \in Int
                            /\ Second \in Nat \ {0}

(* NewRateLimiter raises anything below one to one. *)
Rps == IF RpsFlag < 1 THEN 1 ELSE RpsFlag

(* No more than Rps requests are counted in a window. *)
Entry == [count : 0..Rps, windowEnd : Int]

(* A key that is not in the map behaves like one whose window ended before *)
(* time 0: both take the first branch of Allow.                            *)
NoEntry == [count |-> 0, windowEnd |-> -1]

(* Allow compares with now.After(e.windowEnd): strictly later.             *)
WindowOver(e, t) == t > e.windowEnd

(* Mutant: e.count > r.rps, one request too many in a window.              *)
AdmitsOneMore(e, t) == WindowOver(e, t) \/ e.count <= Rps

Admits(e, t) == WindowOver(e, t) \/ e.count < Rps

(* What Allow leaves in the map when it admits a request at time t.        *)
Charge(e, t) ==
    IF WindowOver(e, t) THEN [count |-> 1, windowEnd |-> t + Second]
                        ELSE [e EXCEPT !.count = @ + 1]
=============================================================================
