--------------------------- MODULE RecordingService ---------------------------
(***************************************************************************)
(* The step list of one browser session's recording in runtime-worker:     *)
(* how recording.service.ts and its store build it, picture it and publish *)
(* it.  What the pages' recorders do on their side is in RecorderPages:    *)
(* here a report may come from any page at any time.  What stopping,       *)
(* finalizing and discarding do is in RecordingLibrary: here they end the  *)
(* list, or remove it.                                                     *)
(*                                                                         *)
(* A handler runs to its next real wait in one step.  The waits are those  *)
(* for Playwright: setting the recorder up, the path to a nested frame,    *)
(* captures.                                                               *)
(***************************************************************************)
EXTENDS Naturals, Sequences, FiniteSets

CONSTANTS Main, Popup,  \* the page the recording starts on, one a site opens
          Targets,      \* elements that are clicked
          Urls,         \* addresses of the main page
          Starters,     \* who may start a recording: "human", "agent"
          None,
          \* Bounds: steps of a recording, frame paths and captures under way.
          MaxSteps, MaxFramed, MaxShots

Pages == {Main, Popup}

ASSUME RecordingAssumption ==
  /\ Main # Popup /\ None \notin Pages \cup Targets \cup Urls
  /\ Starters \subseteq {"human", "agent"} /\ Urls # {}
  /\ MaxSteps \in Nat \ {0} /\ MaxFramed \in Nat /\ MaxShots \in Nat

VARIABLES rec,      \* the store's entry of the session, or None
          popup,    \* the popup is open
          starting, \* start() waits for the recorder to be set up
          framed,   \* handlers that wait for the path to a nested frame
          shots,    \* captures under way: of which number, for which step
          told,     \* the last recording_step published for each number
          started,  \* the one recording that is looked at was started
          doubled,  \* targets of the double clicks heard (history)
          missed,   \* a page change was noted and no step added (history)
          strayed   \* a discarded recording's step was published (history)

noSteps == <<rec, shots, told, doubled, missed>>  \* what handling a report may change
rest == <<strayed, started>>
vars == <<popup, starting, framed, noSteps, rest>>

Acts == {"click", "dblclick", "navigate", "snapshot", "buffered", "switch"}
Places == Targets \cup Urls \cup Pages \cup {None}
Steps == [act : Acts, at : Places, on : Pages \cup {None}]
Captures == [seq : 1..MaxSteps, for : Steps, agent : BOOLEAN, old : BOOLEAN]
Pictures == [for : Steps, old : BOOLEAN]

(* on is the page that reported the step; None for the agent's steps and   *)
(* for the snapshots that POST recording/snapshot asks for.                *)
ToStep(act, at, on) == [act |-> act, at |-> at, on |-> on]
Plain(x) == ToStep(x.act, x.at, x.on)

(* A step of the list also carries the capture whose picture it was given. *)
Listed(s) == [act |-> s.act, at |-> s.at, on |-> s.on, pic |-> None]

Rows == [act : Acts, at : Places, on : Pages \cup {None}, pic : Pictures \cup {None}]
Recordings == [status : {"recording", "review"}, by : {"human", "agent"},
               paused : BOOLEAN, last : Pages \cup {None}, steps : Seq(Rows)]

TypeOK ==
  /\ rec = None \/ rec \in Recordings
  /\ rec # None => Len(rec.steps) <= MaxSteps
  /\ popup \in BOOLEAN
  /\ starting \in BOOLEAN /\ framed \in SUBSET Steps /\ shots \in SUBSET Captures
  /\ told \in [1..MaxSteps -> Steps \cup {None}]
  /\ started \in BOOLEAN /\ doubled \subseteq Targets
  /\ missed \in BOOLEAN /\ strayed \in BOOLEAN

Untold == [n \in 1..MaxSteps |-> None]

(* The session may have had a recording before, which was discarded while  *)
(* a capture of it was under way.                                          *)
Init ==
  /\ rec = None /\ popup = FALSE
  /\ starting = FALSE /\ framed = {} /\ started = FALSE
  /\ shots \in {{}} \cup
       {{[seq |-> 1, for |-> ToStep("click", t, None), agent |-> by, old |-> TRUE]} :
          t \in Targets, by \in BOOLEAN}
  /\ told = Untold
  /\ doubled = {} /\ missed = FALSE /\ strayed = FALSE

-----------------------------------------------------------------------------
(* The recording store, and the parts of handleEvent that do not wait.     *)
(* Each operator takes an entry and returns the entry.                     *)

Is(status) == rec # None /\ rec.status = status
Last(r) == r.steps[Len(r.steps)]
Add(r, s) == IF r.status = "recording" THEN [r EXCEPT !.steps = Append(@, Listed(s))] ELSE r

(* Bounds: a report is handled while two more steps fit; a double click,   *)
(* which removes some, and a frame's path when the list fits after it.     *)
Fits(r) == Len(r.steps) <= MaxSteps
Room(n) == rec # None => Len(rec.steps) + n <= MaxSteps

RepeatsNavigate(r, u) == r.steps # <<>> /\ Last(r).act = "navigate" /\ Last(r).at = u

Went(r, u, p) == IF RepeatsNavigate(r, u) THEN r ELSE Add(r, ToStep("navigate", u, p))

(* A page change is noted at once; the step that records it goes through   *)
(* handleEvent, which drops it while the recording is paused.              *)
ChangesPage(r, p) == r.by = "human" /\ r.last # p
Open(p) == p = Main \/ popup
Switches(r, p) == ChangesPage(r, p) /\ r.last # None /\ Open(p)
(* A slip: the page is not remembered. *)
AttributedForgotten(r, p) ==
  IF Switches(r, p) /\ ~r.paused THEN Add(r, ToStep("switch", p, p)) ELSE r

Attributed(r, p) ==
  LET noted == IF ChangesPage(r, p) THEN [r EXCEPT !.last = p] ELSE r
  IN  IF Switches(r, p) /\ ~r.paused THEN Add(noted, ToStep("switch", p, p)) ELSE noted

(* dedupClicksBeforeDblclick: the run of clicks on the target that ends    *)
(* the list is removed.                                                    *)
Deduped(r, t) ==
  LET IsClick(n) == r.steps[n].act = "click" /\ r.steps[n].at = t
      keep == CHOOSE k \in 0..Len(r.steps) :
                /\ \A n \in k + 1 .. Len(r.steps) : IsClick(n)
                /\ k > 0 => ~IsClick(k)
  IN  [r EXCEPT !.steps = SubSeq(@, 1, keep)]

(* The steps that handling an event put into the list. *)
Entering(r) == {n \in DOMAIN r.steps :
                  n <= Len(rec.steps) => Plain(r.steps[n]) # Plain(rec.steps[n])}

(* A slip: only the last of the new steps is published. *)
PublishLast(r, agent) ==
  told' = IF Entering(r) # {} /\ Last(r).act # "snapshot" /\ ~agent
          THEN [told EXCEPT ![Len(r.steps)] = Plain(Last(r))] ELSE told

(* Every step is published as soon as it is in the list, but for a manual  *)
(* snapshot and an agent's step, which are when their capture is done.     *)
Publish(r, agent) ==
  told' = [n \in 1..MaxSteps |->
    IF n \in Entering(r) /\ r.steps[n].act # "snapshot" /\ ~agent
    THEN Plain(r.steps[n]) ELSE told[n]]

(* SCREENSHOT_STEP_ACTIONS. *)
Shoot(r, agent) ==
  /\ shots' = shots \cup
       {[seq |-> n, for |-> Plain(r.steps[n]), agent |-> agent, old |-> FALSE] :
          n \in {m \in Entering(r) :
                   r.steps[m].act \in {"click", "dblclick", "navigate", "snapshot"}}}
  /\ Cardinality(shots') <= MaxShots

(* A report has been handled: r is the entry after it. *)
Store(r, agent) ==
  /\ Fits(r) /\ rec' = r /\ Publish(r, agent) /\ Shoot(r, agent)
  /\ missed' = (missed \/ (r.last # rec.last /\ rec.last # None
                             /\ ~\E n \in DOMAIN r.steps : /\ n > Len(rec.steps)
                                                           /\ r.steps[n].act = "switch"))

-----------------------------------------------------------------------------
(* start().                                                                *)

Start(by) ==
  /\ ~starting /\ rec = None
  /\ ~started /\ started' = TRUE
  /\ rec' = [status |-> "recording", by |-> by, paused |-> FALSE, last |-> None, steps |-> <<>>]
  /\ starting' = TRUE
  /\ told' = Untold /\ doubled' = {} /\ missed' = FALSE
  /\ strayed' = FALSE
  /\ UNCHANGED <<popup, framed, shots>>

(* The entry navigation, unless pre-conditions were replayed, or the setup *)
(* threw: the entry stays then.                                            *)
Started ==
  /\ starting /\ starting' = FALSE
  /\ \/ UNCHANGED <<rec, shots, told, missed>>
     \/ /\ Is("recording") /\ ~rec.paused /\ Room(2)
        /\ \E u \in Urls : Store(Went(Attributed(rec, Main), u, Main), FALSE)
  /\ UNCHANGED <<popup, framed, doubled, rest>>

-----------------------------------------------------------------------------
(* What the pages report.  A report may still come from a page that has    *)
(* gone, and after the recorder was paused or stopped there.               *)

Hears == Is("recording") /\ ~rec.paused

(* The site opens a popup; context.on("page") notes it at once. *)
PopupOpens ==
  /\ ~popup /\ popup' = TRUE
  /\ IF Is("recording") /\ rec.by = "human" /\ rec.last # Popup
     THEN LET noted == [rec EXCEPT !.last = Popup]
              first == rec.last = None
          IN  Store(IF first \/ rec.paused THEN noted
                       ELSE Add(noted, ToStep("switch", Popup, Popup)), FALSE)
     ELSE UNCHANGED <<rec, shots, told, missed>>
  /\ UNCHANGED <<starting, framed, doubled, rest>>

PopupCloses ==
  /\ popup /\ popup' = FALSE
  /\ UNCHANGED <<starting, framed, noSteps, rest>>

(* One page's pause is the recording's.  That of a recording which is over *)
(* is never looked at again.                                               *)
HearsPaused(flag) ==
  /\ Is("recording") /\ rec' = [rec EXCEPT !.paused = flag]
  /\ UNCHANGED <<popup, starting, framed, shots, told, doubled, missed, rest>>

(* handleEvent for a click.  In a nested frame it waits for the frame's    *)
(* path; a double click has removed its clicks by then.                    *)
HearsDom(p, act, t, nested) ==
  /\ Hears /\ rec.by = "human" /\ Room(IF act = "dblclick" /\ ~ChangesPage(rec, p) THEN 1 ELSE 2)
  /\ LET r == Attributed(rec, p)
         cut == IF act = "dblclick" THEN Deduped(r, t) ELSE r
         s == ToStep(act, t, p)
     IN  IF nested
         THEN /\ Store(cut, FALSE) /\ s \notin framed /\ Cardinality(framed) < MaxFramed
              /\ framed' = framed \cup {s}
         ELSE Store(Add(cut, s), FALSE) /\ UNCHANGED framed
  /\ doubled' = IF act = "dblclick" THEN doubled \cup {t} ELSE doubled
  /\ UNCHANGED <<popup, starting, rest>>

(* The path is there, or could not be derived: the step is added if the    *)
(* recording is still on, even paused.                                     *)
FramePathKnown(s) ==
  /\ s \in framed /\ framed' = framed \ {s}
  /\ IF Is("recording")
     THEN /\ rec' = Add(rec, s) /\ Fits(rec')
          /\ Publish(rec', FALSE) /\ Shoot(rec', FALSE)
          /\ missed' = (missed \/ s.on # rec.last)
     ELSE UNCHANGED <<rec, told, shots, missed>>
  /\ UNCHANGED <<popup, starting, doubled, rest>>

(* The main page goes elsewhere, and the framenavigated listener hears it. *)
(* After an interaction, the buffered snapshot of the address it left may  *)
(* come in front of it: that is a matter of clocks and of what was         *)
(* buffered.                                                               *)
Follows == \E n \in DOMAIN rec.steps : rec.steps[n].act \in {"click", "dblclick"}
Filled == Add(rec, ToStep("buffered", None, None))
Navigates(u) ==
  /\ Hears /\ rec.by = "human" /\ rec.steps # <<>> /\ ~RepeatsNavigate(rec, u) /\ Room(2)
  /\ \/ Store(Went(Attributed(rec, Main), u, Main), FALSE)
     \/ Follows /\ Store(Went(Attributed(Filled, Main), u, Main), FALSE)
  /\ UNCHANGED <<popup, starting, framed, doubled, rest>>

(* The Snapshot button, or POST recording/snapshot, which asks nobody      *)
(* whether the recording is paused.                                        *)
HearsSnapshot(p) ==
  /\ Hears /\ rec.by = "human" /\ Room(2)
  /\ Store(Add(Attributed(rec, p), ToStep("snapshot", None, p)), FALSE)
  /\ UNCHANGED <<popup, starting, framed, doubled, rest>>

TakeManualSnapshot ==
  /\ Is("recording") /\ Room(2)
  /\ Store(Add(rec, ToStep("snapshot", None, None)), FALSE)
  /\ UNCHANGED <<popup, starting, framed, doubled, rest>>

-----------------------------------------------------------------------------
(* A slip: the picture is given to the last step of the list. *)
ShotDoneLast(x) ==
  /\ x \in shots /\ shots' = shots \ {x}
  /\ \/ UNCHANGED <<rec, told>>
     \/ /\ rec # None /\ rec.steps # <<>>
        /\ rec' = [rec EXCEPT !.steps[Len(rec.steps)].pic = [for |-> x.for, old |-> x.old]]
        /\ told' = [told EXCEPT ![Len(rec.steps)] = Plain(Last(rec))]
  /\ UNCHANGED <<popup, starting, framed, doubled, missed, rest>>

(* Screenshots: attached and published by number, to the recording that    *)
(* is there by then.  The agent's step is published from the entry it was  *)
(* added to, even a discarded one.                                         *)

ShotDone(x) ==
  /\ x \in shots /\ shots' = shots \ {x}
  /\ LET there == rec # None /\ x.seq <= Len(rec.steps)
     IN  /\ told' = IF x.agent /\ x.old THEN [told EXCEPT ![x.seq] = x.for]
                    ELSE IF there THEN [told EXCEPT ![x.seq] = Plain(rec.steps[x.seq])]
                    ELSE told
         /\ \/ UNCHANGED rec
            \/ there /\ rec' = [rec EXCEPT !.steps[x.seq].pic =
                               [for |-> x.for, old |-> x.old]]
  /\ strayed' = (strayed \/ (x.agent /\ x.old))
  /\ UNCHANGED <<popup, starting, framed, doubled, missed, started>>

Outdated == {[x EXCEPT !.old = TRUE] : x \in shots}

-----------------------------------------------------------------------------
(* The steps the command executor adds for the agent, in a recording of    *)
(* either kind: any that is pictured stands for all.  And the navigation   *)
(* that one of its commands caused.                                        *)

AddAgentStep ==
  /\ Is("recording") /\ Room(2)
  /\ \E t \in Targets : Store(Add(rec, ToStep("click", t, None)), TRUE)
  /\ UNCHANGED <<popup, starting, framed, doubled, rest>>

AddAgentImplicitNavigate(u) ==
  /\ Is("recording") /\ rec.by = "agent" /\ Room(2)
  /\ Store(IF rec.paused THEN rec ELSE Went(rec, u, None), FALSE)
  /\ UNCHANGED <<popup, starting, framed, doubled, rest>>

-----------------------------------------------------------------------------
(* The end of a recording.                                                 *)

(* stop(), or the death of the browser context. *)
Stop ==
  /\ Is("recording") /\ rec' = [rec EXCEPT !.status = "review"]
  /\ UNCHANGED <<popup, starting, framed, shots, told, doubled, missed, rest>>

Discard ==
  /\ rec # None /\ rec' = None /\ shots' = Outdated
  /\ told' = Untold /\ doubled' = {} /\ missed' = FALSE   \* not looked at any more
  /\ UNCHANGED <<popup, starting, framed, rest>>

-----------------------------------------------------------------------------
Report == \/ \E p \in Pages, act \in {"click", "dblclick"}, t \in Targets, nested \in BOOLEAN :
               HearsDom(p, act, t, nested)
          \/ \E p \in Pages : HearsSnapshot(p)
          \/ \E flag \in BOOLEAN : HearsPaused(flag)
          \/ \E u \in Urls : Navigates(u)
          \/ PopupOpens \/ PopupCloses
Api == \/ \E by \in Starters : Start(by)
       \/ Stop \/ TakeManualSnapshot \/ Discard
       \/ AddAgentStep \/ \E u \in Urls : AddAgentImplicitNavigate(u)
Waited == \/ Started
          \/ \E s \in framed : FramePathKnown(s)
          \/ \E x \in shots : ShotDone(x)

Next == Report \/ Api \/ Waited

Spec == Init /\ [][Next]_vars

-----------------------------------------------------------------------------
(* Properties.                                                             *)

(* Two steps that pages reported, one after the other, are of the same     *)
(* page or have the switch between them: unless a change of page was noted *)
(* while nothing could be recorded, or a frame's path came late            *)
(* (attributePageIfChanged).                                               *)
PageChangesAreSaid ==
  rec # None /\ ~missed =>
    \A m, n \in DOMAIN rec.steps :
      /\ m < n /\ rec.steps[m].on # None /\ rec.steps[n].on # None
      /\ \A k \in m + 1 .. n - 1 : rec.steps[k].on = None
      => rec.steps[m].on = rec.steps[n].on \/ rec.steps[n].act = "switch"

(* A click that a double click on the same target may have removed. *)
Removable(s) == s.act = "click" /\ s.at \in doubled

(* A step has its own picture, or one that was taken for a removed click   *)
(* or for a discarded recording's step (updateStepScreenshot goes by       *)
(* number).                                                                *)
PictureIsOwn ==
  rec # None =>
    \A n \in DOMAIN rec.steps :
      LET x == rec.steps[n].pic
      IN  \/ x = None \/ x.for = Plain(rec.steps[n]) \/ x.old
          \/ Removable(x.for)

(* A capture under way is for the step its number has, but for those of a  *)
(* removed click and of a discarded recording.                             *)
CapturesFit ==
  rec # None => \A x \in shots : \/ x.old \/ Removable(x.for)
                                 \/ x.seq <= Len(rec.steps) /\ x.for = Plain(rec.steps[x.seq])

(* What is told of a number is nothing, its step, or a click that a double *)
(* click removed; and a step is told of or waits for its capture.          *)
TellsSteps ==
  rec # None /\ ~strayed =>
    \A n \in 1..MaxSteps :
      LET telling == n <= Len(rec.steps) /\ told[n] = Plain(rec.steps[n])
      IN  /\ telling \/ told[n] = None \/ Removable(told[n])
          /\ n <= Len(rec.steps) =>
               telling \/ \E x \in shots : x.seq = n /\ x.for = Plain(rec.steps[n])

(* In a list without an unsaid change of page, the steps after the last    *)
(* switch are of the page noted last, those between two switches of one    *)
(* page.  An agent's recording has but the first page's.                   *)
NoSwitch(r, m, n) == \A k \in m + 1 .. n : r.steps[k].act # "switch"
Attributable(r) ==
  \A m \in DOMAIN r.steps :
    /\ r.steps[m].act = "switch" => r.steps[m].on # None
    /\ r.by = "agent" => r.steps[m].on \in {None, Main}
    /\ r.by = "human" /\ r.steps[m].on # None =>
         /\ NoSwitch(r, m, Len(r.steps)) => r.steps[m].on = r.last
         /\ \A n \in m + 1 .. Len(r.steps) :
              r.steps[n].on # None /\ NoSwitch(r, m, n) => r.steps[m].on = r.steps[n].on
PagesAreSaid == rec # None /\ ~missed => Attributable(rec)

(* Before the recording there is nothing of it; only a human's waits for   *)
(* the path to a frame, with an interaction.                               *)
WaitsAreRight ==
  /\ ~started => rec = None /\ framed = {} /\ \A x \in shots : x.old
  /\ rec # None /\ rec.by = "agent" => framed = {}
  /\ \A s \in framed : s.act \in {"click", "dblclick"} /\ s.on # None

(* The state is well formed, every picture is its step's own, and what the *)
(* other two properties rest on.                                           *)
RecordingInv == /\ TypeOK /\ PictureIsOwn /\ CapturesFit
                /\ TellsSteps /\ PagesAreSaid /\ WaitsAreRight

(* What recording_step events say of the numbers is the list: no step is   *)
(* untold once its capture is done, and what is told past the end of the   *)
(* list, or differs from it, is a click that a double click removed.       *)
ListIsTold ==
  rec # None /\ ~strayed =>
    \A n \in 1..MaxSteps :
      \/ n <= Len(rec.steps) /\ told[n] = Plain(rec.steps[n])
      \/ \E x \in shots : x.seq = n /\ n <= Len(rec.steps) /\ x.for = Plain(rec.steps[n])
      \/ n > Len(rec.steps) /\ (told[n] = None \/ Removable(told[n]))
=============================================================================
