-------------------------- MODULE MCWorkerSessions --------------------------
(* Small instances of the worker's session handling. *)
EXTENDS WorkerSessions, TLC

Symm == Permutations(Sessions) \cup Permutations(Requests)
=============================================================================
