--------------------------- MODULE MCSessionStore ---------------------------
(* Small instances of SessionStore for TLC. *)
EXTENDS SessionStore, TLC

Symm == Permutations(Calls) \cup Permutations(Sessions)

=============================================================================
