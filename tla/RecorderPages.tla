---------------------------- MODULE RecorderPages ----------------------------
(***************************************************************************)
(* The recorder script that every page of a recorded session runs          *)
(* (recording-capture.evaluate.ts), and how the worker sets it up, keeps   *)
(* the pause of all pages the same and stops it (recording.service.ts,     *)
(* playwright-bridge.ts).                                                  *)
(*                                                                         *)
(* A page keeps its own flags.  What it reports travels to the worker in   *)
(* order, what the worker evaluates in it or answers travels back in       *)
(* order, and a new document loses what was on its way.                    *)
(***************************************************************************)
EXTENDS Naturals, Sequences

CONSTANTS Main, Popup,  \* the first page, and one a site opens
          \* Bounds: reports of a page and messages to it under way, recordings.
          MaxReports, MaxMessages, MaxStarts

Pages == {Main, Popup}

ASSUME PagesAssumption == Main # Popup /\ {MaxReports, MaxMessages, MaxStarts} \subseteq Nat

VARIABLES status,   \* of the session's recording: "none", "recording" or "over"
          paused,   \* the recording is paused
          starting, \* how far start() has come
          starts,   \* recordings started
          alive,    \* the session has a browser context
          bound,    \* the context has the recorder's bindings
          scripted, \* the context has the recorder's init script
          setup,    \* recordingSetupSessions has the session
          page,     \* each page: the flags of its document
          up, down, \* reports of a page, messages to it
          ending,   \* each recording: how far its stop() has come, from whose
                    \* document it was asked, of which page it takes the picture
          remade    \* the context was made after this recording's setup (history)

worker == <<status, paused, starting, starts>>
context == <<alive, bound, scripted, setup, remade>>
vars == <<worker, context, page, up, down, ending>>

Reports == {"pause", "resume", "stop"}
Messages == {"paused", "running", "stopped", "failed"}

TypeOK ==
  /\ status \in {"none", "recording", "over"} /\ paused \in BOOLEAN
  /\ starting \in {"no", "binding", "injecting"} /\ starts \in 0..MaxStarts
  /\ \A flag \in {alive, bound, scripted, setup, remade} : flag \in BOOLEAN
  /\ page \in [Pages -> [open : BOOLEAN, script : BOOLEAN, paused : BOOLEAN, stopped : BOOLEAN,
                         asks : BOOLEAN, fresh : BOOLEAN, stale : BOOLEAN]]
  /\ up \in [Pages -> Seq(Reports)] /\ down \in [Pages -> Seq(Messages)]
  /\ ending \in [1..MaxStarts -> [at : {"no", "pausing", "picturing"}, from : SUBSET Pages,
                                  of : SUBSET Pages]]

(* A document that has just loaded.  asks: its Stop button was pressed and *)
(* not answered.  fresh: no pause flag of the recording was pushed to it.  *)
(* stale: it was stopped before the recording began, or since by the stop  *)
(* of an earlier one.                                                      *)
Document(ran) == [open |-> TRUE, script |-> ran, paused |-> FALSE, stopped |-> FALSE,
                  asks |-> FALSE, fresh |-> TRUE, stale |-> FALSE]
NoStop == [at |-> "no", from |-> {}, of |-> {}]
NoPage == [Document(FALSE) EXCEPT !.open = FALSE]

Init ==
  /\ status = "none" /\ paused = FALSE /\ starting = "no" /\ starts = 0
  /\ alive = TRUE /\ bound = FALSE /\ scripted = FALSE /\ setup = FALSE /\ remade = FALSE
  /\ page = [p \in Pages |-> IF p = Main THEN Document(FALSE) ELSE NoPage]
  /\ up = [p \in Pages |-> <<>>] /\ down = [p \in Pages |-> <<>>]
  /\ ending = [n \in 1..MaxStarts |-> NoStop]

UnderWay(p) == {up[p][n] : n \in DOMAIN up[p]}
OnTheWay(p) == {down[p][n] : n \in DOMAIN down[p]}

-----------------------------------------------------------------------------
(* start() of a human's recording.                                         *)

Start ==
  /\ status = "none" /\ starting = "no" /\ starts < MaxStarts /\ starts' = starts + 1
  /\ status' = "recording" /\ paused' = FALSE /\ starting' = "binding"
  /\ page' = [p \in Pages |-> [page[p] EXCEPT !.fresh = TRUE,
                                               !.stale = @ \/ page[p].stopped \/ "stopped" \in OnTheWay(p)]]
  /\ UNCHANGED <<context, up, down, ending>>

(* setupRecording does nothing for a session it set up before, and throws  *)
(* without a context; the entry stays then.                                *)
Bind ==
  /\ starting = "binding" /\ starting' = IF alive THEN "injecting" ELSE "no"
  /\ setup' = (setup \/ alive) /\ bound' = (bound \/ (alive /\ ~setup))
  /\ remade' = (IF ~setup /\ alive THEN FALSE ELSE remade)
  /\ UNCHANGED <<status, paused, starts, alive, scripted, page, up, down, ending>>

(* A slip: the script is only added for documents to come. *)
InjectLater ==
  /\ starting = "injecting" /\ starting' = "no" /\ scripted' = (scripted \/ alive)
  /\ UNCHANGED <<status, paused, starts, alive, bound, setup, remade, page, up, down, ending>>

(* injectScript: the script runs in every later document, and now in the   *)
(* open pages, where it does nothing if it runs there already.  A message  *)
(* to a page without the script calls nothing.                             *)
Inject ==
  /\ starting = "injecting" /\ starting' = "no" /\ scripted' = (scripted \/ alive)
  /\ page' = [p \in Pages |->
       IF page[p].open /\ ~page[p].script THEN Document(TRUE) ELSE page[p]]
  /\ down' = [p \in Pages |-> IF page[p].script THEN down[p] ELSE <<>>]
  /\ UNCHANGED <<status, paused, starts, alive, bound, setup, remade, up, ending>>

-----------------------------------------------------------------------------
(* A page.                                                                 *)

Runs(p) == page[p].open /\ page[p].script /\ bound /\ Len(up[p]) < MaxReports
Send(p, m) == up' = [up EXCEPT ![p] = Append(@, m)]

(* The banner's Pause and Resume button. *)
Toggles(p) ==
  /\ Runs(p) /\ ~page[p].stopped /\ page' = [page EXCEPT ![p].paused = ~@]
  /\ Send(p, IF page[p].paused THEN "resume" ELSE "pause")
  /\ UNCHANGED <<worker, context, down, ending>>

(* Its Stop button: the page stops reporting at once. *)
PressesStop(p) ==
  /\ Runs(p) /\ ~page[p].stopped /\ page' = [page EXCEPT ![p].stopped = TRUE, ![p].asks = TRUE]
  /\ Send(p, "stop")
  /\ UNCHANGED <<worker, context, down, ending>>

(* A message reaches the page.  A stop that failed can be tried again. *)
Receives(p) ==
  /\ down[p] # <<>> /\ down' = [down EXCEPT ![p] = Tail(@)]
  /\ page' = IF ~page[p].script THEN page
             ELSE CASE Head(down[p]) = "paused" -> [page EXCEPT ![p].paused = TRUE]
                    [] Head(down[p]) = "running" -> [page EXCEPT ![p].paused = FALSE]
                    [] Head(down[p]) = "stopped" -> [page EXCEPT ![p].stopped = TRUE]
                    [] OTHER -> [page EXCEPT ![p].stopped = FALSE, ![p].asks = FALSE]
  /\ UNCHANGED <<worker, context, up, ending>>

(* A new document hears nothing of what the old one asked; a page that is  *)
(* closed is no picture.                                                   *)
Loads(p, document) ==
  /\ page' = [page EXCEPT ![p] = document] /\ down' = [down EXCEPT ![p] = <<>>]
  /\ ending' = [n \in DOMAIN ending |->
       [ending[n] EXCEPT !.from = @ \ {p}, !.of = IF document.open THEN @ ELSE @ \ {p}]]
Navigates(p) ==
  /\ page[p].open /\ Loads(p, Document(scripted)) /\ UNCHANGED <<worker, context, up>>
PopupOpens ==
  /\ page[Main].open /\ ~page[Popup].open /\ Loads(Popup, Document(scripted))
  /\ UNCHANGED <<worker, context, up>>
PopupCloses ==
  /\ page[Popup].open /\ Loads(Popup, NoPage) /\ UNCHANGED <<worker, context, up>>

-----------------------------------------------------------------------------
(* The worker.                                                             *)

Hears(p, m) == up[p] # <<>> /\ Head(up[p]) = m /\ up' = [up EXCEPT ![p] = Tail(@)]
Tell(ps, m) == /\ \A p \in ps : Len(down[p]) < MaxMessages
               /\ down' = [p \in Pages |-> IF p \in ps THEN Append(down[p], m) ELSE down[p]]
OpenPages == {p \in Pages : page[p].open}

(* A slip: a page is not told of what it reported itself. *)
HearsPausedAlone(p) ==
  /\ \/ Hears(p, "pause") /\ paused' = (paused \/ status # "none")
        /\ IF status # "none" THEN Tell(OpenPages \ {p}, "paused") ELSE UNCHANGED down
     \/ Hears(p, "resume") /\ paused' = (paused /\ status = "none")
        /\ IF status # "none" THEN Tell(OpenPages \ {p}, "running") ELSE UNCHANGED down
  /\ page' = [q \in Pages |-> [page[q] EXCEPT !.fresh = @ /\ (status = "none" \/ ~page[q].script)]]
  /\ UNCHANGED <<status, starting, starts, context, ending>>

(* One page's pause is the recording's, and broadcastPausedState pushes it *)
(* to every open page, the one it came from too.                           *)
HearsPaused(p) ==
  /\ \/ Hears(p, "pause") /\ paused' = (paused \/ status # "none")
        /\ IF status # "none" THEN Tell(OpenPages, "paused") ELSE UNCHANGED down
     \/ Hears(p, "resume") /\ paused' = (paused /\ status = "none")
        /\ IF status # "none" THEN Tell(OpenPages, "running") ELSE UNCHANGED down
  /\ page' = [q \in Pages |-> [page[q] EXCEPT !.fresh = @ /\ (status = "none" \/ ~page[q].script)]]
  /\ UNCHANGED <<status, starting, starts, context, ending>>

(* stop(): the recording is over at once, and the rest comes after waits:  *)
(* the pause of the session, a page, its screenshot.  At once if nothing   *)
(* is recording.                                                           *)
Ends(from) ==
  /\ status = "recording" /\ status' = "over"
  /\ ending' = [ending EXCEPT ![starts] = [at |-> "pausing", from |-> from, of |-> {}]]
  /\ UNCHANGED down
HearsStop(p) ==
  LET from == IF page[p].asks THEN {p} ELSE {}
  IN /\ Hears(p, "stop")
     /\ \/ Ends(from)
        \/ status # "recording" /\ Tell(from, "stopped") /\ UNCHANGED <<status, ending>>
     /\ UNCHANGED <<paused, starting, starts, context, page>>

(* The API's stop, and the end of a recording that is over. *)
Stop == Ends({}) /\ UNCHANGED <<paused, starting, starts, context, page, up>>

Ended(n, told, m) ==
  /\ Tell(told, m) /\ ending' = [ending EXCEPT ![n] = NoStop]
  /\ UNCHANGED <<worker, context, up>>

(* The pause of the session: stop() throws when that does, and the page    *)
(* can try again; or without a page, which is no failure.                  *)
Pauses(n) ==
  /\ ending[n].at = "pausing"
  /\ \/ Ended(n, ending[n].from, "failed") /\ UNCHANGED page
     \/ OpenPages = {} /\ Ended(n, {}, "stopped") /\ UNCHANGED page
     \/ /\ \E q \in OpenPages : ending' = [ending EXCEPT ![n].at = "picturing", ![n].of = {q}]
        /\ UNCHANGED <<worker, context, page, up, down>>

(* takeFinalScreenshot() ends: the page is told in the document it shows   *)
(* now, unless the screenshot failed, and stop() answers.  By then a later *)
(* recording may have begun.                                               *)
Pictured(n) ==
  /\ ending[n].at = "picturing"
  /\ \E told \in {ending[n].from, ending[n].from \cup ending[n].of} :
       /\ Ended(n, told, "stopped")
       /\ page' = [p \in Pages |-> [page[p] EXCEPT !.stale = @ \/ (p \in told /\ n < starts)]]

Discard ==
  /\ status # "none" /\ status' = "none"
  /\ UNCHANGED <<paused, starting, starts, context, page, up, down, ending>>

-----------------------------------------------------------------------------
(* The browser context.                                                    *)

NewContext(main) ==
  /\ page' = [p \in Pages |-> IF p = Main THEN main ELSE NoPage]
  /\ down' = [p \in Pages |-> <<>>] /\ bound' = FALSE /\ scripted' = FALSE /\ remade' = TRUE
  /\ ending' = [n \in DOMAIN ending |-> [ending[n] EXCEPT !.from = {}, !.of = {}]]

(* It dies: markReviewOnContextDead.  recordingSetupSessions is kept. *)
ContextDies ==
  /\ alive /\ alive' = FALSE /\ NewContext(NoPage)
  /\ status' = IF status = "recording" THEN "over" ELSE status
  /\ UNCHANGED <<paused, starting, starts, setup, up>>

Resumed ==
  /\ ~alive /\ alive' = TRUE /\ NewContext(Document(FALSE))
  /\ UNCHANGED <<worker, setup, up>>

(* ensureHealthyContext replaces it, when a paused session is resumed. *)
Recreated ==
  /\ alive /\ NewContext(Document(FALSE)) /\ setup' = FALSE
  /\ UNCHANGED <<worker, alive, up>>

-----------------------------------------------------------------------------
Next ==
  \/ \E p \in Pages : \/ Toggles(p) \/ PressesStop(p) \/ Receives(p) \/ Navigates(p)
                      \/ HearsPaused(p) \/ HearsStop(p)
  \/ PopupOpens \/ PopupCloses
  \/ Start \/ Bind \/ Inject \/ Stop \/ Discard
  \/ \E n \in DOMAIN ending : Pauses(n) \/ Pictured(n)
  \/ ContextDies \/ Resumed \/ Recreated

Spec == Init /\ [][Next]_vars

-----------------------------------------------------------------------------
(* Properties.                                                             *)

(* Once no pause is under way, every open page that was pushed a pause of  *)
(* this recording shows what the recording does, whichever banners were    *)
(* clicked in whatever order (broadcastPausedState).                       *)
PausedAgrees ==
  (/\ status # "none"
   /\ \A p \in Pages : UnderWay(p) \subseteq {"stop"} /\ OnTheWay(p) \subseteq {"stopped", "failed"})
    => \A p \in OpenPages : ~page[p].fresh => page[p].paused = paused

(* While a recording runs and its setup is done, every open page reports   *)
(* to it: the script is there, and not stopped but by a stop of this       *)
(* document that is under way, before the recording began, or by an        *)
(* earlier recording's stop() that took its screenshot since; and the      *)
(* binding is, but in a context made since (setupRecording, injectScript,  *)
(* takeFinalScreenshot).                                                   *)
RunsEverywhere ==
  (status = "recording" /\ starting = "no" /\ ~remade)
    => /\ bound
       /\ \A p \in OpenPages : /\ page[p].script
                               /\ page[p].stopped =>
                                    page[p].stale \/ (page[p].asks /\ "stop" \in UnderWay(p))
=============================================================================
