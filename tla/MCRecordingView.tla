-------------------------- MODULE MCRecordingView --------------------------
(* A recording of two steps, of which the first is the entry navigation and *)
(* gets a screenshot.  Not followed further is what has a flaw, what has    *)
(* left out both steps, and what is gone when no stop is awaited.           *)
EXTENDS RecordingView

Followed == /\ flaws = {} /\ Cardinality(cut) < MaxMade
            /\ rec.status = "gone" => view.stopping

============================================================================
