---------------------------- MODULE MCSessionPages ----------------------------
(****************************************************************************)
(* The pages of a session, recorded and read.  A page and a popup with two  *)
(* recordings one after the other; and one read of a document.  Neither     *)
(* touches the state of the other, so each is explored while the other is   *)
(* at rest.                                                                 *)
(*                                                                          *)
(* The documents: every way of nesting three elements under a body, in and  *)
(* out of shadow roots; lists of rows that look alike; a dialog over a page.*)
(* One of them may embed frames.                                            *)
(****************************************************************************)
EXTENDS RecorderPages, FrameRead, TLC

MCCandidates == <<"data-testid", "data-qa">>

(* A document without marks or texts; its second element bears the cursor.   *)
Bare(n) ==
  [els |-> 1..n, parent |-> [i \in 1..n |-> IF i = 1 THEN None ELSE 1],
   host |-> [i \in 1..n |-> None], tag |-> [i \in 1..n |-> "div"],
   attrs |-> [i \in 1..n |-> <<>>], labelledBy |-> [i \in 1..n |-> None],
   words |-> [i \in 1..n |-> None], raw |-> [i \in 1..n |-> None],
   noPointer |-> {}, tiny |-> {}, unseen |-> {}, cursor |-> {2}, shown |-> 1..n,
   boxed |-> 1..n, z |-> [i \in 1..n |-> 0]]

Nestings == { <<<<None, 1, 1, 1, 1>>, <<None, None, None, None, None>>>>,
              <<<<None, 1, 2, 3, 1>>, <<None, None, None, None, None>>>>,
              <<<<None, 1, None, 1, 1>>, <<None, None, 2, None, None>>>>,
              <<<<None, 1, None, 3, 1>>, <<None, None, 2, 2, None>>>> }

Marks == {<<>>, "data-testid" :> "a", "data-qa" :> "a", "id" :> "a", "id" :> "g1",
          ("role" :> "button") @@ ("name" :> "n")}
Texts == {<<None, None>>, <<"t", "t">>, <<"t s", "ts">>}

Mixed ==
  {[Bare(5) EXCEPT !.parent = tree[1], !.host = tree[2],
      !.tag = <<"html", "div", "div", "button", "span">>,
      !.attrs = <<<<>>, <<>>, a, b, c>>,
      !.words = <<None, None, s[1], t[1], s[1]>>,
      !.raw = <<None, None, s[2], t[2], s[2]>>, !.noPointer = blocked] :
     tree \in Nestings, a \in Marks, b \in Marks, c \in {<<>>, "data-testid" :> "a"},
     s \in Texts, t \in Texts, blocked \in {{}, {4}}}

(* Two rows with a button each, alike or not.                                *)
Listed ==
  {[Bare(6) EXCEPT !.parent = <<None, 1, 2, 1, 4, 1>>,
      !.tag = <<"html", "li", "button", row, "button", last>>,
      !.words = <<None, s, t, u, t, t>>, !.raw = <<None, s, t, u, t, t>>] :
     row \in {"li", "div"}, last \in {"button", "span"},
     s \in {None, "s"}, t \in {None, "t"}, u \in {"s", "u"}}

(* A dialog over a page, with its own elements and a field inside.           *)
Overlaid ==
  {[Bare(6) EXCEPT !.parent = <<None, 1, 1, 3, 3, 3>>,
      !.tag = <<"html", "button", "div", "h", "input", "button">>,
      !.attrs = <<<<>>, <<>>, "role" :> "dialog", <<>>, mark, mark>>,
      !.words = <<None, t, t, "h", None, t>>, !.raw = <<None, t, t, "h", None, t>>] :
     t \in {None, "t"}, mark \in Marks}

(* Two buttons alike.                                                        *)
Plain == [Bare(3) EXCEPT !.tag = <<"html", "button", "button">>]

MCDocuments == Mixed \cup Listed \cup Overlaid \cup {Plain}
MCFramed == {Plain}

Whole == [scope |-> [by |-> "none"], collapse |-> TRUE, viewportOnly |-> FALSE,
          verifiable |-> TRUE]
MCReads == {Whole, [Whole EXCEPT !.collapse = FALSE, !.verifiable = FALSE]}

MCInit == Init /\ FrameInit
MCNext ==
  \/ /\ document = Plain /\ opts = Whole /\ pc = "idle" /\ parent \in [Frames -> {None}]
     /\ Next /\ UNCHANGED frameVars
  \/ Init /\ FrameNext /\ UNCHANGED vars

(* Bounds: two messages of the worker are under way at a time, to one page or *)
(* to both; and the last recording is followed as long as it runs.           *)
FewMessages ==
  /\ Len(down[Main]) + Len(down[Popup]) <= 2
  /\ starts = MaxStarts => status = "recording"

MCSpec == MCInit /\ [][MCNext]_<<vars, frameVars>>
=============================================================================
