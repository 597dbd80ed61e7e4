------------------------ MODULE MCRecordingLibrary ------------------------
(* Two spellings of one name and another name, two operations at a time;   *)
(* the first name may have four contents.                                  *)
EXTENDS RecordingLibrary, TLC

CONSTANTS lower, upper, other, e0, e1, e2
MCNames == {lower, upper, other}
MCSlug == [n \in MCNames |-> IF n = upper THEN lower ELSE n]
MCEdits == [n \in MCNames |-> IF n = lower THEN {e1, e2} ELSE {e0}]
Symmetric == Permutations({e1, e2}) \cup Permutations(Slots)
===========================================================================
