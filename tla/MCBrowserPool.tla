---------------------------- MODULE MCBrowserPool ----------------------------
(* Small instances of the browser pool. *)
EXTENDS BrowserPool, TLC

CONSTANTS headed

OneMode == [s \in Sessions |-> headed]
Symm == Permutations(Sessions) \cup Permutations(Browsers)
          \cup Permutations(Contexts) \cup Permutations(Calls)
=============================================================================
