----------------------------- MODULE BatchRead ------------------------------
(***************************************************************************)
(* What fetching a batch of the feed promises the page: it ends with one   *)
(* published generation of the batch, whole, and no more than lag          *)
(* generations older than the one current when the fetch began; or it      *)
(* fails.  No chunks, resolvers or retries here.                           *)
(***************************************************************************)
EXTENDS Integers

VARIABLES gen,       \* the number of generations published
          lag,       \* how far behind a reader may be served
          phase,     \* idle, reading, read or failed
          startGen,  \* the generation current when the fetch began
          result     \* the generation read; 0 if there is none

vars == <<gen, lag, phase, startGen, result>>

Init == gen = 1 /\ lag = 1 /\ phase = "idle" /\ startGen = 0 /\ result = 0

(* A generation that comes early leaves readers behind by one more.        *)
Publish ==
    /\ gen' = gen + 1
    /\ lag' \in {lag, lag + 1}
    /\ UNCHANGED <<phase, startGen, result>>

Start ==
    /\ phase = "idle"
    /\ phase' = "reading" /\ startGen' = gen
    /\ UNCHANGED <<gen, lag, result>>

Return ==
    /\ phase = "reading"
    /\ phase' = "read"
    /\ \E g \in 1..gen : g >= startGen - lag /\ result' = g
    /\ UNCHANGED <<gen, lag, startGen>>

Fail ==
    /\ phase = "reading"
    /\ phase' = "failed"
    /\ UNCHANGED <<gen, lag, startGen, result>>

Forget ==
    /\ phase \in {"read", "failed"}
    /\ phase' = "idle" /\ startGen' = 0 /\ result' = 0
    /\ UNCHANGED <<gen, lag>>

Next == Publish \/ Start \/ Return \/ Fail \/ Forget

Spec == Init /\ [][Next]_vars
=============================================================================
