-------------------------- MODULE MCEditorRuntime --------------------------
(* Two editors, two calls, three processes, of which one may be left over. *)
EXTENDS EditorRuntime, TLC

CONSTANTS a, b, p1, p2, p3, f1, f2, r1, r2

MCEditors == {a, b}
MCPids == {p1, p2, p3}
MCFlows == {f1, f2}
MCFolders == {r1, r2}
Symmetric == Permutations(MCPids) \cup Permutations(MCFlows)
=============================================================================
