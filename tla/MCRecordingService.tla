------------------------- MODULE MCRecordingService -------------------------
(* A page and a popup, one target, two addresses; of the two captures and   *)
(* the frame path that may be waited for, two at a time.                    *)
EXTENDS RecordingService, TLC

CONSTANTS u1, u2
MCUrls == {u1, u2}
FewWaits == Cardinality(framed) + Cardinality(shots) <= 2
Symmetric == Permutations(MCUrls)

=============================================================================
