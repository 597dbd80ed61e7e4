-------------------------- MODULE SessionLifecycle --------------------------
(***************************************************************************)
(* What callers of the session store may rely on, with the map, the blobs, *)
(* the locks and the sweep left out: a session is born active; its status  *)
(* moves one decision at a time, each legal for the status it was made     *)
(* against; it may be dropped at any moment; and a dropped or closed       *)
(* session comes back only as the outcome of a decision that was already   *)
(* made when it was dropped, or with a restart.                            *)
(***************************************************************************)

CONSTANT Sessions

VARIABLES life,      \* what GET /sessions would show of a session
          decided    \* the outcome of the decision under way, or "none"

Living == {"active", "paused", "dead"}
Moves == [active |-> {"paused", "dead", "gone"},
          paused |-> {"active", "dead", "gone"},
          dead   |-> {"active", "gone"}]

Init == /\ life = [s \in Sessions |-> "unborn"]
        /\ decided = [s \in Sessions |-> "none"]

BeBorn(s) == /\ life[s] = "unborn"
             /\ life' = [life EXCEPT ![s] = "active"]
             /\ UNCHANGED decided

Decide(s) == /\ life[s] \in Living /\ decided[s] = "none"
             /\ \E t \in Moves[life[s]] : decided' = [decided EXCEPT ![s] = t]
             /\ UNCHANGED life

(* The outcome takes effect, whatever became of the session meanwhile. *)
Land(s) == /\ decided[s] # "none"
           /\ life' = [life EXCEPT ![s] = decided[s]]
           /\ decided' = [decided EXCEPT ![s] = "none"]

(* The outcome could not be saved. *)
GiveUp(s) == /\ decided[s] # "none"
             /\ decided' = [decided EXCEPT ![s] = "none"]
             /\ UNCHANGED life

(* Abandoned, or swept. *)
Drop(s) == /\ life[s] \in Living
           /\ life' = [life EXCEPT ![s] = "gone"]
           /\ UNCHANGED decided

(* The process goes away with every session ... *)
Stop == /\ life' = [s \in Sessions |-> IF life[s] = "unborn" THEN "unborn" ELSE "gone"]
        /\ decided' = [s \in Sessions |-> "none"]

(* ... and comes back, before any decision, with some of them. *)
Restart == /\ decided = [s \in Sessions |-> "none"]
           /\ \A s \in Sessions : life[s] \in {"unborn", "gone"}
           /\ life' \in [Sessions -> Living \cup {"unborn", "gone"}]
           /\ \A s \in Sessions : life'[s] = "unborn" <=> life[s] = "unborn"
           /\ UNCHANGED decided

Next == \/ \E s \in Sessions : BeBorn(s) \/ Decide(s) \/ Land(s) \/ GiveUp(s) \/ Drop(s)
        \/ Stop \/ Restart

Spec == Init /\ [][Next]_<<life, decided>>

=============================================================================
