--------------------------- MODULE MCAuthSessions ---------------------------
(* A small instance of AuthSessions for TLC. *)
EXTENDS AuthSessions, TLC

\* Tokens are random, requests run the same code.
SessionSymmetry == Permutations(Accounts) \union Permutations(Tokens) \union Permutations(Handlers)
=============================================================================
