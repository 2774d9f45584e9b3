----------------------------- MODULE MCTxtPath ------------------------------
(* TxtPath with one batch of two chunks as long as they get, and queries   *)
(* for one of them, for one that does not exist, and outside the domain.   *)
(* With the limit of TxtPath.cfg most of the padding that may be drawn     *)
(* does not fit and has to shrink.                                         *)
EXTENDS TxtPath, TLC

OneBatch == (0 :> <<220, 220>>)

Asking(part, zone) == [batch |-> 0, part |-> part, len |-> 41, zone |-> zone]

MCNames == {Asking(2, TRUE), Asking(3, TRUE), Asking(1, FALSE)}
=============================================================================
