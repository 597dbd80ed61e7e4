----------------------------- MODULE MCCommandRun -----------------------------
(* Two tabs, two URLs, one element, three snapshots; the third of them only *)
(* on its own and in a batch that it ends.  A page that has moved under a   *)
(* read, and a read that has outlived its session, are not followed further.*)
EXTENDS CommandRun

CONSTANTS t1, t2, u1, u2

MCTabIds == {t1, t2}
MCUrls == {u1, u2}
Small == /\ Orderly
         /\ memory.next = MaxSnapshots =>
              /\ run["resume"].pc = "idle" \/ run["command"].pc = "idle"
              /\ run["command"].left <= 1
Symmetric == Permutations(MCTabIds) \cup Permutations(MCUrls)
=============================================================================
