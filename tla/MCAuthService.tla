--------------------------- MODULE MCAuthService ----------------------------
(* AuthService on clients and tokens that may be exchanged for one another. *)
EXTENDS AuthService, TLC

Symmetry == Permutations(Requests) \cup Permutations(Tokens)
=============================================================================
