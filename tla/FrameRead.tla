------------------------------- MODULE FrameRead -------------------------------
(****************************************************************************)
(* One read of a page that embeds frames: takeSnapshot of snapshot-engine.ts*)
(* from its capture to its answer, with captureFramesBreadthFirst of        *)
(* frame-capture.ts between them.                                           *)
(*                                                                          *)
(* Frames come and go while the read waits for the browser: one that is     *)
(* detached takes all below it along, and does not come back.  The listing  *)
(* of a frame (ariaSnapshot) may name frames that are nested deeper.  The   *)
(* documents of all frames are alike, so that what is captured in one may   *)
(* collide with what is captured in another.                                *)
(****************************************************************************)
EXTENDS PageCapture

CONSTANTS
  CaptureOf(_, _),  \* captureInteractiveSnapshot: Capture of PageCapture
  Frames,      \* the frames that may come to be
  Top,         \* the main frame
  Documents,   \* what the page may show
  Framed,      \* those of them that may embed frames
  Reads,       \* the options of a read
  MaxDepth,    \* MAX_FRAME_DEPTH: 3
  MaxFrames    \* MAX_FRAMES_TO_PROCESS: 12

ASSUME FramesAssumption ==
  /\ Top \notin Frames /\ None \notin Frames \cup {Top}
  /\ IsFiniteSet(Frames) /\ MaxDepth \in Nat /\ MaxFrames \in Nat

ASSUME DocumentsAssumption == \A page \in Documents : DocumentOK(page)

VARIABLES
  document,  \* what the frames show
  parent,    \* frame -> the frame that embeds it, once it is there
  gone,      \* frames that were detached
  pc,        \* where the read is
  opts,      \* its options
  rows,      \* of the main frame
  queue,     \* frames to be looked into, and of the next wave
  wave,
  listed,    \* frames of the one that is being looked into, not yet visited
  visited,   \* the frame that is being visited
  budget,    \* visits left
  captured,  \* what was captured in frames: which, the way to it, its rows
  answer

shown == <<document, parent, gone>>
look == <<queue, wave, listed, visited>>
frameVars == <<shown, pc, opts, rows, look, budget, captured, answer>>

Attached == {f \in Frames : parent[f] # None} \ gone
Here(f) == f = Top \/ f \in Attached

Entry(scope, path) == [scope |-> scope, path |-> path]

FrameInit ==
  /\ document \in Documents
  /\ parent = [f \in Frames |-> None] /\ gone = {}
  /\ pc = "idle" /\ opts \in Reads
  /\ rows = <<>> /\ answer = <<>> /\ captured = <<>>
  /\ queue = <<>> /\ wave = <<>> /\ listed = <<>> /\ visited = None
  /\ budget = MaxFrames

(*--------------------------------- the page -------------------------------*)
Attach(f, p) ==
  /\ document \in Framed /\ parent[f] = None /\ Here(p)
  /\ parent' = [parent EXCEPT ![f] = p]
  /\ UNCHANGED <<document, gone, pc, opts, rows, look, budget, captured, answer>>

(* The frames of the set and all below them.                                 *)
Closed(frames) == \A f \in Attached : parent[f] \in frames => f \in frames

Detach(frames) ==
  /\ frames # {} /\ Closed(frames)
  /\ gone' = gone \cup frames
  /\ UNCHANGED <<document, parent, pc, opts, rows, look, budget, captured, answer>>

(*--------------------------------- the read -------------------------------*)
ReadTop ==
  /\ pc = "idle"
  /\ LET capture == CaptureOf(document, opts)
     IN  IF capture = None THEN pc' = "failed" /\ UNCHANGED rows
                           ELSE pc' = "read" /\ rows' = capture.elements
  /\ UNCHANGED <<shown, opts, look, budget, captured, answer>>

Scoped == opts.scope.by # "none"

(* A scoped read, and one of a page without frames, looks no further.        *)
BeginFrames ==
  /\ pc = "read"
  /\ IF Scoped \/ Attached = {} THEN pc' = "answer" /\ UNCHANGED queue
     ELSE pc' = "scan" /\ queue' = <<Entry(Top, <<>>)>>
  /\ UNCHANGED <<shown, opts, rows, wave, listed, visited, budget, captured, answer>>

Passed == queue' = Tail(queue)

(* The next frame of this wave; when there is none, the next wave.           *)
NextWave ==
  /\ pc = "scan" /\ budget > 0 /\ queue = <<>>
  /\ IF wave = <<>> THEN pc' = "answer" ELSE UNCHANGED pc
  /\ queue' = wave /\ wave' = <<>>
  /\ UNCHANGED <<shown, opts, rows, listed, visited, budget, captured, answer>>

OutOfBudget ==
  /\ pc = "scan" /\ budget = 0
  /\ pc' = "answer"
  /\ UNCHANGED <<shown, opts, rows, look, budget, captured, answer>>

(* Too deep, gone, or no listing in time.                                    *)
PassOver ==
  /\ pc = "scan" /\ budget > 0 /\ queue # <<>>
  /\ Passed
  /\ UNCHANGED <<shown, pc, opts, rows, wave, listed, visited, budget, captured, answer>>

Listings == UNION {[1..n -> Attached] : n \in 0..Cardinality(Attached)}
OneEach(listing) ==
  \A i, j \in DOMAIN listing : listing[i] = listing[j] => i = j

List(listing) ==
  /\ pc = "scan" /\ budget > 0 /\ queue # <<>>
  /\ Len(Head(queue).path) < MaxDepth /\ Here(Head(queue).scope)
  /\ OneEach(listing)
  /\ pc' = "visit" /\ listed' = listing
  /\ UNCHANGED <<shown, opts, rows, queue, wave, visited, budget, captured, answer>>

ListedAll ==
  /\ pc = "visit" /\ visited = None
  /\ listed = <<>> \/ budget = 0
  /\ pc' = "scan" /\ listed' = <<>> /\ Passed
  /\ UNCHANGED <<shown, opts, rows, wave, visited, budget, captured, answer>>

(* A slip: the owner of the host is not looked at. *)
VisitAny ==
  /\ pc = "visit" /\ visited = None /\ listed # <<>> /\ budget > 0
  /\ budget' = budget - 1 /\ listed' = Tail(listed)
  /\ visited' = IF Head(listed) \in Attached THEN Head(listed) ELSE None
  /\ UNCHANGED <<shown, pc, opts, rows, queue, wave, captured, answer>>

(* The handle of the host element, and whose document it is in: a frame that *)
(* is nested deeper is left to the frame that embeds it.                     *)
Visit ==
  /\ pc = "visit" /\ visited = None /\ listed # <<>> /\ budget > 0
  /\ budget' = budget - 1
  /\ LET f == Head(listed)
     IN  IF f \in Attached /\ parent[f] = Head(queue).scope THEN visited' = f
                                                            ELSE UNCHANGED visited
  /\ listed' = Tail(listed)
  /\ UNCHANGED <<shown, pc, opts, rows, queue, wave, captured, answer>>

(* No handle, owner, locator or content in time; or the frame went away.     *)
VisitFails ==
  /\ pc = "visit" /\ visited # None
  /\ visited' = None
  /\ UNCHANGED <<shown, pc, opts, rows, queue, wave, listed, budget, captured, answer>>

(* What the frame shows, or nothing: it may be blank to the end of the wait. *)
CaptureFrame ==
  /\ pc = "visit" /\ visited # None /\ visited \in Attached
  /\ LET path == Append(Head(queue).path, visited)
     IN  /\ \E found \in {<<>>, rows} :
              captured' = Append(captured, [frame |-> visited, path |-> path,
                                            rows |-> found])
         /\ wave' = Append(wave, Entry(visited, path))
  /\ visited' = None
  /\ UNCHANGED <<shown, pc, opts, rows, queue, listed, budget, answer>>

(* A way is given by the locators of the hosts along it.                     *)
Hop(f) == [Locator("dom_id") EXCEPT !.xpath = XPath("*", {<<"id", f>>})]
Hops(path) == [i \in DOMAIN path |-> Hop(path[i])]

RowsOf(group) ==
  [i \in DOMAIN group.rows |-> WithFramePath(group.rows[i], Hops(group.path))]

Reported ==
  /\ pc = "answer"
  /\ pc' = "done"
  /\ answer' = DisambiguateDuplicateRefs(
                 rows \o FlattenSeq([i \in DOMAIN captured |-> RowsOf(captured[i])]))
  /\ UNCHANGED <<shown, opts, rows, look, budget, captured>>

FrameNext ==
  \/ \E f \in Frames, p \in Frames \cup {Top} : Attach(f, p)
  \/ \E frames \in SUBSET Attached : Detach(frames)
  \/ ReadTop \/ BeginFrames \/ NextWave \/ OutOfBudget \/ PassOver
  \/ \E listing \in Listings : List(listing)
  \/ ListedAll \/ Visit \/ VisitFails \/ CaptureFrame \/ Reported

FrameSpec == FrameInit /\ [][FrameNext]_frameVars
-----------------------------------------------------------------------------
(* A way leads down from the main frame, host by host.                       *)
LeadsTo(path, f) ==
  /\ path # <<>> /\ path[Len(path)] = f /\ parent[path[1]] = Top
  /\ \A i \in 1..(Len(path) - 1) : parent[path[i + 1]] = path[i]

PathsLead == \A i \in DOMAIN captured : LeadsTo(captured[i].path, captured[i].frame)

(* No frame is captured by two ways, although listings overlap.              *)
NoneTwice ==
  \A i, j \in DOMAIN captured : captured[i].frame = captured[j].frame => i = j

(* Breadth first: no branch's depth is paid with a frame that lies higher.   *)
BreadthFirst ==
  \A i, j \in DOMAIN captured : i < j => Len(captured[i].path) <= Len(captured[j].path)

WithinBounds ==
  /\ Len(captured) + budget <= MaxFrames
  /\ \A i \in DOMAIN captured : Len(captured[i].path) <= MaxDepth

(* The walk through the frames.                                              *)
FramesInv == PathsLead /\ NoneTwice /\ BreadthFirst /\ WithinBounds

(* What a read reports is fit for use: locators lead back to their elements, *)
(* code generation can write each of them, and no two rows share a ref, be   *)
(* they of frames that show the same.                                        *)
FitForUse ==
  /\ \A i \in DOMAIN rows : HitsTarget(document, rows[i])
  /\ \A i \in DOMAIN answer : answer[i].locator # None => Renders(answer[i].locator)
  /\ RefsApart(answer)
==============================================================================
