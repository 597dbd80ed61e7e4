----------------------------- MODULE RecordingView -----------------------------
(***************************************************************************)
(* A recording as the developer sees and edits it in VS Code: the worker's *)
(* recording, the events it sends about it, the extension's controller,    *)
(* which saves the recording's status and passes steps on                  *)
(* (recording-controller.ts), and the editor in the webview                *)
(* (recordingStore.ts, RecordingSurface.tsx).                              *)
(*                                                                         *)
(* One session is looked at.  A message to the webview is applied as it is *)
(* posted.  How the list of steps comes about is in RecordingService, what *)
(* becomes of the files in RecordingLibrary; here a step is a number.      *)
(***************************************************************************)
EXTENDS Naturals, Sequences, FiniteSets

CONSTANTS Nothing,
          Shot,         \* the steps of an action that gets a screenshot
          Navigates,    \* the steps that are explicit navigations
          \* Bounds: the steps that are made, events on their way to the
          \* extension, messages of the webview under way.
          MaxMade, MaxEvents, MaxJobs

VARIABLES up,      \* the worker runs
          rec,     \* its recording of the session
          open,    \* it still has the session
          ending,  \* stop() is under way
          file,    \* the artifact, or Nothing
          made,    \* steps made so far
          shots,   \* steps whose screenshot is being taken
          events,  \* recording_* events on their way
          saved,   \* the extension's saved status of the session
          buf,     \* the extension's stepBuffer
          told,    \* where the handling of recording_stopped waits
          jobs,    \* messages of the webview that are being handled, and files being written
          view,    \* the webview
          cut,     \* steps the user or the editor left out (history)
          flaws    \* what befell the recording (history)

worker == <<up, rec, open, ending, file, made, shots>>
ext == <<saved, buf, told>>
viewVars == <<worker, events, ext, jobs, view, cut, flaws>>

(* pic: the step whose picture it has, or 0. *)
Ids == 1..MaxMade
Steps == [id : Ids, pic : 0..MaxMade]
Seqs == 1..MaxMade
Lists == {s \in Seq(Steps) : Len(s) <= MaxMade}
Kept == {"recording", "review", "finalized"}
Recordings == [status : Kept \cup {"new", "gone"}, steps : Lists]
EventKinds == {"started", "step", "stopped", "finalized", "discarded"}
Events == [kind : EventKinds, seq : 0..MaxMade, step : Steps \cup {Nothing}]
Updates == [seq : Seqs, step : Steps]
Flaws == {"missed", "astray", "mixed", "deaf"}
Answers == [status : Kept, steps : Lists]
Savings == {"saves", "agent saves"}
Jobs == [kind : {"load", "read"}, got : Answers \cup {Nothing}] \cup [kind : {"finalize"}, got : Lists]
          \cup [kind : Savings \cup {"again"}, got : Lists]
          \cup [kind : {"discard"}, got : {Nothing}] \cup [kind : {"stop"}, got : {Nothing, "asked"}]
Tables == UNION {[seqs -> Steps] : seqs \in SUBSET Seqs}
Views == [mode : Kept \cup {"closed", "dashboard"},
          steps : Tables, removed : SUBSET Seqs,
          loading : BOOLEAN, finalizing : BOOLEAN, stopping : BOOLEAN]

ASSUME ViewAssumption ==
  /\ {MaxMade, MaxEvents, MaxJobs} \subseteq Nat \ {0} /\ Shot \cup Navigates \subseteq Nat
  /\ Nothing \notin Steps \cup Lists \cup Answers \cup {"asked"}

ViewTypeOK ==
  /\ {up, open, ending} \subseteq BOOLEAN /\ told \subseteq {"asks", "shows"}
  /\ rec \in Recordings /\ file \in Lists \cup {Nothing} /\ made \in 0..MaxMade /\ shots \subseteq Ids
  /\ events \in Seq(Events) /\ Len(events) <= MaxEvents /\ buf \in Seq(Updates)
  /\ saved \in Kept \cup {"none"} /\ cut \subseteq Ids /\ flaws \subseteq Flaws
  /\ jobs \subseteq Jobs /\ view \in Views

Shows(mode) == [mode |-> mode, steps |-> <<>>, removed |-> {},
                loading |-> FALSE, finalizing |-> FALSE, stopping |-> FALSE]
Gone == [status |-> "gone", steps |-> <<>>]

ViewInit ==
  /\ up = TRUE /\ rec = [Gone EXCEPT !.status = "new"] /\ open = TRUE /\ ending = FALSE
  /\ file = Nothing /\ made = 0 /\ shots = {} /\ events = <<>>
  /\ saved = "none" /\ buf = <<>> /\ told = {} /\ jobs = {}
  /\ view = Shows("dashboard") /\ cut = {} /\ flaws = {}

-----------------------------------------------------------------------------
(* The worker.                                                             *)

Sends(kind, seq) ==
  /\ Len(events) < MaxEvents
  /\ events' = Append(events, [kind |-> kind, seq |-> seq,
                               step |-> IF seq = 0 THEN Nothing ELSE rec'.steps[seq]])
Suffers(flaw) == flaws' = flaws \cup {flaw}

(* What the webview asks, and a stop that has been passed on. *)
Asks(kind) == [kind |-> kind, got |-> Nothing]
Posts(j) == jobs' = jobs \cup {j} /\ Cardinality(jobs) < MaxJobs
Waiting == [kind |-> "stop", got |-> "asked"]
LoadFailed(v) == [v EXCEPT !.loading = FALSE, !.stopping = FALSE]
Stopped(v) == [v EXCEPT !.mode = "review", !.stopping = FALSE]
Finalized(v) == [v EXCEPT !.mode = "finalized", !.finalizing = FALSE]

(* POST recording/start.  The step of the entry navigation is published    *)
(* just before recording_started, and reaches the editor after it, for the *)
(* extension keeps a step for 50 ms.                                       *)
Starts ==
  /\ up /\ rec.status = "new"
  /\ rec' = [rec EXCEPT !.status = "recording"] /\ Sends("started", 0)
  /\ UNCHANGED <<up, open, ending, file, made, shots, ext, jobs, view, cut, flaws>>

Records ==
  /\ rec.status = "recording" /\ made < MaxMade /\ made' = made + 1
  /\ rec' = [rec EXCEPT !.steps = Append(@, [id |-> made', pic |-> 0])] /\ Sends("step", made')
  /\ shots' = shots \cup ({made'} \cap Shot)
  /\ UNCHANGED <<up, open, ending, file, ext, jobs, view, cut, flaws>>

(* takeStepScreenshot() has ended, well or not, whatever became of the     *)
(* recording meanwhile: what has that number now is published again, with  *)
(* the picture if there is one.                                            *)
Own(step, n) == step.id = n /\ step.pic \in {0, n}

Pictured(n) ==
  /\ n \in shots /\ shots' = shots \ {n} /\ rec.status \in Kept /\ n \in DOMAIN rec.steps
  /\ \/ open /\ rec' = [rec EXCEPT !.steps[n].pic = n]
     \/ UNCHANGED rec
  /\ Sends("step", n)
  /\ flaws' = IF Own(rec'.steps[n], n) THEN flaws ELSE flaws \cup {"mixed"}
  /\ UNCHANGED <<up, open, ending, file, made, ext, jobs, view, cut>>

(* stop(), from a page's button or from the editor.  It throws when the    *)
(* session cannot be paused: nothing is published then, and an editor that *)
(* asked is answered 500.                                                  *)
Reviews == rec' = [rec EXCEPT !.status = "review"] /\ ending' = TRUE

PageStops ==
  /\ rec.status = "recording" /\ Reviews
  /\ UNCHANGED <<up, open, file, made, shots, events, ext, jobs, view, cut, flaws>>

TellsStopped ==
  /\ ending /\ ending' = FALSE
  /\ UNCHANGED rec /\ Sends("stopped", 0) /\ jobs' = jobs \ {Waiting}
  /\ UNCHANGED <<up, open, file, made, shots, ext, view, cut, flaws>>

StopThrows ==
  /\ ending /\ ending' = FALSE
  /\ view' = IF Waiting \in jobs THEN LoadFailed(view) ELSE view
  /\ flaws' = flaws \cup {"astray"}
              \cup (IF Waiting \in jobs /\ view.loading THEN {"missed"} ELSE {})
  /\ jobs' = jobs \ {Waiting}
  /\ UNCHANGED <<up, rec, open, file, made, shots, events, ext, cut>>

(* An agent or another client of the worker finalizes the recording, or    *)
(* discards it, in whatever state it is (browser_record_finalize,          *)
(* browser_record_discard), or closes the session, which discards a        *)
(* recording that runs.  The finalization ends when its file is written.   *)
AgentFinalizes ==
  /\ up /\ open /\ rec.status \in Kept /\ ~\E j \in jobs : j.kind = "agent saves"
  /\ rec' = [rec EXCEPT !.status = "finalized"]
  /\ jobs' = jobs \cup {[kind |-> "agent saves", got |-> rec.steps]}
  /\ UNCHANGED <<up, open, ending, file, made, shots, events, ext, view, cut, flaws>>

Forgets ==
  rec' = Gone /\ file' = Nothing /\ Sends("discarded", 0)

AgentDiscards ==
  /\ up /\ open /\ rec.status \in Kept /\ Forgets
  /\ UNCHANGED <<up, open, ending, made, shots, ext, jobs, view, cut, flaws>>

AgentCloses ==
  /\ up /\ open /\ rec.status \in Kept /\ open' = FALSE
  /\ IF rec.status = "recording" THEN Forgets ELSE UNCHANGED <<rec, file, events>>
  /\ UNCHANGED <<up, ending, made, shots, ext, jobs, view, cut, flaws>>

(* The worker's process ends, and with it what it was about.  The          *)
(* controller takes a finalization without an answer for one that it has   *)
(* to do in the file.  Another worker knows no recordings.                 *)
Dies ==
  /\ up /\ up' = FALSE /\ rec.status # "new"
  /\ rec' = Gone /\ open' = FALSE /\ ending' = FALSE /\ shots' = {}
  /\ told' = IF Waiting \in jobs THEN told \cup {"asks"} ELSE told
  /\ jobs' = {j \in jobs \ {Waiting} : j.kind \notin Savings}
             \cup {[j EXCEPT !.kind = "again"] : j \in {i \in jobs : i.kind = "saves"}}
  /\ IF view.stopping /\ ~\E j \in jobs : j.kind = "stop" THEN Suffers("deaf") ELSE UNCHANGED flaws
  /\ UNCHANGED <<file, made, events, saved, buf, view, cut>>

Returns ==
  /\ ~up /\ up' = TRUE
  /\ UNCHANGED <<rec, open, ending, file, made, shots, events, ext, jobs, view, cut, flaws>>

-----------------------------------------------------------------------------
(* The extension: handleWorkerEvent().                                     *)

There == view.mode # "closed"
InEditor == view.mode \in Kept
Gets(kind) == events # <<>> /\ Head(events).kind = kind /\ events' = Tail(events)
Saves(status) == saved' = IF saved = "none" THEN "none" ELSE status

(* Without a dashboard a panel is opened for the recording. *)
HandlesStarted ==
  /\ Gets("started") /\ saved' = "recording" /\ view' = Shows("recording")
  /\ UNCHANGED <<worker, buf, told, jobs, cut, flaws>>

(* A slip: the buffer holds the latest step only. *)
HandlesLatestStep ==
  /\ Gets("step") /\ Saves("recording")
  /\ buf' = <<[seq |-> Head(events).seq, step |-> Head(events).step]>>
  /\ flaws' = IF saved \in {"review", "finalized"} THEN flaws \cup {"astray"} ELSE flaws
  /\ UNCHANGED <<worker, told, jobs, view, cut>>

HandlesStep ==
  /\ Gets("step") /\ Saves("recording")
  /\ buf' = Append(buf, [seq |-> Head(events).seq, step |-> Head(events).step])
  /\ flaws' = IF saved \in {"review", "finalized"} THEN flaws \cup {"astray"} ELSE flaws
  /\ UNCHANGED <<worker, told, jobs, view, cut>>

(* appendSteps(): of each number the latest step, with the latest picture  *)
(* that came, or that was there.                                           *)
Of(n) == {i \in DOMAIN buf : buf[i].seq = n}
Latest(is) == buf[CHOOSE i \in is : \A j \in is : j <= i].step
Picture(n, steps) ==
  LET seen == {i \in Of(n) : buf[i].step.pic # 0}
  IN  IF seen # {} THEN Latest(seen).pic ELSE IF n \in DOMAIN steps THEN steps[n].pic ELSE 0
Put(steps) ==
  [n \in DOMAIN steps \cup {buf[i].seq : i \in DOMAIN buf} |->
     IF Of(n) = {} THEN steps[n] ELSE [Latest(Of(n)) EXCEPT !.pic = Picture(n, steps)]]

(* What comes while a load has its answer will not be in what the load     *)
(* shows.  A number may be of before the editor numbered its list anew.    *)
Answered(j) == j.kind \in {"load", "read"} /\ j.got # Nothing
Overtaken(some) == IF some /\ \E j \in jobs : Answered(j) THEN {"missed"} ELSE {}
Misplaced ==
  IF \E i \in DOMAIN buf : /\ InEditor /\ buf[i].seq \in DOMAIN view.steps
                           /\ view.steps[buf[i].seq].id # buf[i].step.id
  THEN {"mixed"} ELSE {}

Flush ==
  /\ buf' = <<>>
  /\ view' = IF InEditor THEN [view EXCEPT !.steps = Put(@)]
             ELSE view
  /\ flaws' = flaws \cup Overtaken(buf # <<>>) \cup Misplaced

FlushTimer ==
  /\ buf # <<>> /\ Flush
  /\ UNCHANGED <<worker, events, saved, told, jobs, cut>>

(* publishRecordingStoppedToWebview(): with no webview to tell nothing     *)
(* more happens, not even to the saved status.                             *)
HandlesStopped ==
  /\ Gets("stopped")
  /\ buf' = <<>> /\ told' = IF There THEN told \cup {"asks"} ELSE told
  /\ IF There THEN Flush
     ELSE UNCHANGED view /\ flaws' = flaws \cup {"astray"} \cup Overtaken(buf # <<>>)
  /\ UNCHANGED <<worker, saved, jobs, cut>>

(* ... the worker says whether the recording is finalized by now ...       *)
HearsState ==
  /\ "asks" \in told
  /\ told' = (told \ {"asks"}) \cup (IF up /\ rec.status = "finalized" THEN {} ELSE {"shows"})
  /\ UNCHANGED <<worker, events, saved, buf, jobs, view, cut, flaws>>

(* ... and with that, whatever came since, the status is saved and the     *)
(* webview told.                                                           *)
ShowsStopped ==
  /\ "shows" \in told /\ told' = told \ {"shows"}
  /\ Saves("review") /\ view' = IF InEditor THEN Stopped(view) ELSE view
  /\ flaws' = flaws \cup Overtaken(TRUE) \cup (IF saved = "finalized" THEN {"astray"} ELSE {})
  /\ UNCHANGED <<worker, events, buf, jobs, cut>>

(* What is in the buffer yet is not in the list that the editor now shows  *)
(* for good, and a load that has read a running recording will show it so. *)
ReadRunning(j) == Answered(j) /\ j.got.status = "recording"
Cuts == IF \/ view.mode = "recording" /\ buf # <<>>
           \/ \E j \in jobs : ReadRunning(j)
        THEN {"missed"} ELSE {}

(* A slip: the status is not saved. *)
HandlesFinalizedUnsaved ==
  /\ Gets("finalized")
  /\ view' = IF InEditor THEN Finalized(view) ELSE view
  /\ flaws' = flaws \cup Cuts
  /\ UNCHANGED <<worker, ext, jobs, cut>>

HandlesFinalized ==
  /\ Gets("finalized") /\ Saves("finalized")
  /\ view' = IF InEditor THEN Finalized(view) ELSE view
  /\ flaws' = flaws \cup Cuts
  /\ UNCHANGED <<worker, buf, told, jobs, cut>>

HandlesDiscarded ==
  /\ Gets("discarded") /\ saved' = "none"
  /\ view' = IF There THEN Shows("dashboard") ELSE view
  /\ UNCHANGED <<worker, buf, told, jobs, cut, flaws>>

-----------------------------------------------------------------------------
(* The user, and the extension's handling of what the webview posts.       *)

OpensDashboard ==
  /\ view.mode # "dashboard" /\ view' = Shows("dashboard")
  /\ UNCHANGED <<worker, events, ext, jobs, cut, flaws>>

Closes ==
  /\ There /\ view' = Shows("closed")
  /\ UNCHANGED <<worker, events, ext, jobs, cut, flaws>>

(* openSession() of an entry in the list: of the status the extension has  *)
(* saved, or of the worker's index.                                        *)
OpensOne(status) ==
  /\ view.mode = "dashboard"
  /\ IF status = "finalized" THEN file # Nothing ELSE saved = status
  /\ view' = [Shows(status) EXCEPT !.loading = TRUE]
  /\ Posts(Asks(IF status = "finalized" THEN "read" ELSE "load"))
  /\ UNCHANGED <<worker, events, ext, cut, flaws>>

(* loadRecordingSession(): the answer, from the file ("read") or from the  *)
(* session, and what is posted when the pictures have been looked up.      *)
FromFile == [status |-> "finalized", steps |-> file]
LoadAnswered(j) ==
  /\ j.kind \in {"load", "read"} /\ j.got = Nothing
  /\ LET known == IF j.kind = "load" THEN rec.status \in Kept ELSE file # Nothing
         answer == IF j.kind = "load" THEN rec ELSE FromFile
     IN  IF up /\ known
         THEN jobs' = (jobs \ {j}) \cup {[j EXCEPT !.got = answer]} /\ UNCHANGED <<view, flaws>>
         ELSE /\ jobs' = jobs \ {j} /\ Suffers("missed")
              /\ view' = IF There THEN LoadFailed(view) ELSE view
  /\ UNCHANGED <<worker, events, ext, cut>>

LoadShown(j) ==
  /\ Answered(j) /\ jobs' = jobs \ {j}
  /\ view' = IF ~There THEN view
             ELSE [Shows(IF j.got.status = "recording" THEN "recording"
                         ELSE IF j.kind = "read" THEN "finalized" ELSE "review")
                   EXCEPT !.steps = j.got.steps]
  /\ UNCHANGED <<worker, events, ext, cut, flaws>>

Editing == view.mode = "review" /\ ~view.loading

RemovesStep(n) ==
  /\ Editing /\ n \in DOMAIN view.steps \ view.removed
  /\ view' = [view EXCEPT !.removed = @ \cup {n}]
  /\ cut' = cut \cup {view.steps[n].id}
  /\ UNCHANGED <<worker, events, ext, jobs, flaws>>

RestoresSteps ==
  /\ Editing /\ view.removed # {} /\ view' = [view EXCEPT !.removed = {}]
  /\ UNCHANGED <<worker, events, ext, jobs, cut, flaws>>

BackToReview ==
  /\ view.mode = "finalized" /\ ~view.loading
  /\ view' = [view EXCEPT !.mode = "review", !.stopping = FALSE]
  /\ UNCHANGED <<worker, events, ext, jobs, cut, flaws>>

(* A slip: a removed number is taken for an index from 0. *)
VisibleByIndex == {n \in DOMAIN view.steps : n - 1 \notin view.removed}

(* finalizeRecording(): what is left is numbered from 1, and the numbers   *)
(* that were removed stay removed.                                         *)
Visible == DOMAIN view.steps \ view.removed
Nth(set, n) == CHOOSE x \in set : Cardinality({y \in set : y <= x}) = n
Edited(set) == [i \in 1..Cardinality(set) |-> view.steps[Nth(set, i)]]

(* selectEditorRecordedSteps(): where recordings were replayed before this *)
(* one, the editor leaves out the first step it would show if that is an   *)
(* explicit navigation.  Whether there are such recordings the session     *)
(* says or the file's depends_on, which others write, at every load.       *)
FirstNavigate == {n \in Visible : n = Nth(Visible, 1) /\ view.steps[n].id \in Navigates}

(* A step that was not removed has a removed number now. *)
Hidden == \E n \in view.removed \cap DOMAIN view.steps : view.steps[n].id \notin cut

ClicksFinalize ==
  /\ Editing /\ ~view.finalizing
  /\ \E left \in {Visible, Visible \ FirstNavigate} :
       /\ view' = [view EXCEPT !.steps = Edited(left), !.finalizing = TRUE]
       /\ Posts([kind |-> "finalize", got |-> Edited(left)])
       /\ cut' = cut \cup {view.steps[n].id : n \in Visible \ left}
  /\ flaws' = IF Hidden THEN flaws \cup {"mixed"} ELSE flaws
  /\ UNCHANGED <<worker, events, ext>>

(* mergeEditedSteps(): a step without a picture gets that of the step      *)
(* which had its new number.                                               *)
Merged(old, edited) ==
  IF edited = <<>> THEN old
  ELSE [i \in DOMAIN edited |->
          IF edited[i].pic = 0 /\ i \in DOMAIN old THEN [edited[i] EXCEPT !.pic = old[i].pic]
          ELSE edited[i]]

(* The worker takes the edited steps and begins to write them; or does not *)
(* know the recording any more, or is not reached.                         *)
Finalizes(j) ==
  /\ j.kind = "finalize"
  /\ \/ /\ up /\ open /\ rec.status \in Kept
        /\ rec' = [status |-> "finalized", steps |-> Merged(rec.steps, j.got)]
        /\ jobs' = (jobs \ {j}) \cup {[kind |-> "saves", got |-> rec'.steps]}
     \/ jobs' = (jobs \ {j}) \cup {[j EXCEPT !.kind = "again"]} /\ UNCHANGED rec
  /\ UNCHANGED <<up, open, ending, file, made, shots, events, ext, view, cut, flaws>>

(* The file is written, and the session closed if the controller asks it;  *)
(* or it cannot be.                                                        *)
Saved(j) ==
  /\ j.kind \in Savings /\ jobs' = jobs \ {j} /\ file' = j.got /\ Sends("finalized", 0)
  /\ open' \in {open, open /\ j.kind = "agent saves"}
  /\ UNCHANGED <<up, rec, ending, made, shots, ext, view, cut, flaws>>

SaveFails(j) ==
  /\ j.kind \in Savings /\ Suffers("astray")
  /\ jobs' = (jobs \ {j}) \cup (IF j.kind = "saves" THEN {[j EXCEPT !.kind = "again"]} ELSE {})
  /\ UNCHANGED <<worker, events, ext, view, cut>>

(* refinalizeArtifact(): the same in the file, if there is one.            *)
Refinalizes(j) ==
  /\ j.kind = "again" /\ jobs' = jobs \ {j}
  /\ \/ up /\ file # Nothing /\ file' = Merged(file, j.got) /\ Sends("finalized", 0) /\ UNCHANGED view
     \/ /\ view' = IF InEditor THEN [view EXCEPT !.finalizing = FALSE] ELSE view
        /\ UNCHANGED <<file, events>>
  /\ UNCHANGED <<up, rec, open, ending, made, shots, ext, cut, flaws>>

ClicksDiscard ==
  /\ Editing /\ Posts(Asks("discard"))
  /\ UNCHANGED <<worker, events, ext, view, cut, flaws>>

Discards(j) ==
  /\ j.kind = "discard" /\ jobs' = jobs \ {j}
  /\ IF up /\ open /\ rec.status \in Kept
     THEN Forgets /\ open' \in {open, FALSE}
     ELSE UNCHANGED <<rec, file, open, events>>
  /\ UNCHANGED <<up, ending, made, shots, ext, view, cut, flaws>>

(* stopRecording() and stopRecordingSession(): the worker answers 200      *)
(* whether or not there is anything to stop; when it is not reached the    *)
(* controller ends the editor's wait itself.                               *)
ClicksStop ==
  /\ view.mode = "recording" /\ ~view.stopping
  /\ view' = [view EXCEPT !.stopping = TRUE] /\ Posts(Asks("stop"))
  /\ UNCHANGED <<worker, events, ext, cut, flaws>>

(* A slip: the editor is not told that the worker cannot be reached. *)
AsksStopSilently(j) ==
  /\ j = Asks("stop") /\ j \in jobs
  /\ IF up /\ rec.status = "recording"
     THEN Reviews /\ jobs' = (jobs \ {j}) \cup {Waiting}
     ELSE UNCHANGED <<rec, ending>> /\ jobs' = jobs \ {j}
  /\ UNCHANGED <<up, open, file, made, shots, events, ext, view, cut, flaws>>

AsksStop(j) ==
  /\ j = Asks("stop") /\ j \in jobs
  /\ IF up /\ rec.status = "recording"
     THEN Reviews /\ jobs' = (jobs \ {j}) \cup {Waiting}
     ELSE UNCHANGED <<rec, ending>> /\ jobs' = jobs \ {j}
  /\ told' = IF ~up /\ There THEN told \cup {"asks"} ELSE told
  /\ IF up /\ rec.status = "gone" THEN Suffers("deaf") ELSE UNCHANGED flaws
  /\ UNCHANGED <<up, open, file, made, shots, events, saved, buf, view, cut>>

-----------------------------------------------------------------------------
Worker == \/ Starts \/ Records \/ PageStops \/ Dies \/ Returns
          \/ AgentFinalizes \/ AgentDiscards \/ AgentCloses
          \/ \E n \in Seqs : Pictured(n)
User == \/ OpensDashboard \/ Closes \/ BackToReview
        \/ \E status \in Kept : OpensOne(status)
        \/ \E n \in Seqs : RemovesStep(n)
        \/ RestoresSteps \/ ClicksFinalize \/ ClicksDiscard \/ ClicksStop

WorkerEnds == TellsStopped \/ StopThrows
Handles == \/ HandlesStarted \/ HandlesStep \/ HandlesStopped \/ HandlesFinalized
           \/ HandlesDiscarded \/ FlushTimer \/ HearsState \/ ShowsStopped
Works == \E j \in jobs : \/ LoadAnswered(j) \/ LoadShown(j) \/ Finalizes(j) \/ Saved(j)
                         \/ SaveFails(j) \/ Refinalizes(j) \/ Discards(j) \/ AsksStop(j)

ViewNext == Worker \/ User \/ WorkerEnds \/ Handles \/ Works

(* The worker's calls and the extension's handlers go on. *)
ViewSpec == ViewInit /\ [][ViewNext]_viewVars /\ WF_viewVars(WorkerEnds) /\ WF_viewVars(Handles) /\ WF_viewVars(Works)

-----------------------------------------------------------------------------
Clean(set) == flaws \cap set = {}

(* Before anything was recorded nothing is under way.                      *)
Unstarted ==
  rec.status = "new" =>
    /\ up /\ told = {} /\ ~ending /\ file = Nothing /\ made = 0 /\ rec.steps = <<>>
    /\ saved = "none" /\ events = <<>> /\ buf = <<>> /\ jobs = {} /\ ~InEditor

(* Steps and their numbers agree wherever a step is on its way.            *)
Numbered ==
  /\ shots \subseteq 1..made
  /\ \A i \in DOMAIN events :
       IF events[i].kind # "step" THEN events[i].seq = 0
       ELSE /\ events[i].seq \in 1..made /\ events[i].step # Nothing
            /\ Clean({"mixed"}) => Own(events[i].step, events[i].seq)
  /\ \A i \in DOMAIN buf : /\ buf[i].seq \in 1..made
                           /\ Clean({"mixed"}) => Own(buf[i].step, buf[i].seq)
  /\ rec.status \in {"recording", "review"} =>
       Len(rec.steps) = made /\ \A n \in 1..made : Own(rec.steps[n], n)

(* What can be under way while it records, and once it has stopped.        *)
Saving == \E j \in jobs : j.kind \in Savings
WhileRecording ==
  rec.status = "recording" =>
    /\ told = {} /\ ~ending /\ file = Nothing
    /\ \A i \in DOMAIN events : events[i].kind \in {"started", "step"}
    /\ saved \in {"none", "recording"} /\ view.mode \notin {"review", "finalized"}
    /\ \A j \in jobs : /\ j.kind \in {"load", "stop"}
                       /\ Answered(j) => j.got.status = "recording"
AfterRecording ==
  /\ rec.status \in Kept => up
  /\ rec.status = "review" =>
       file = Nothing /\ ~Saving /\ \A i \in DOMAIN events : events[i].kind # "finalized"
  /\ rec.status = "finalized" => file # Nothing \/ Saving \/ "astray" \in flaws

(* Nothing is saved until the start is heard, which comes before all else. *)
StartAhead == 1 \in DOMAIN events /\ events[1].kind = "started"
StartFirst ==
  rec.status \in Kept =>
    /\ saved = "none" <=> StartAhead
    /\ StartAhead => buf = <<>> /\ told = {}
    /\ \A i \in DOMAIN events : events[i].kind # "discarded" /\ (i # 1 => events[i].kind # "started")

Ahead(kind) == \E i \in DOMAIN events : events[i].kind = kind
SavedFollows ==
  Clean({"astray"}) =>
    /\ rec.status = "review" => ending \/ told # {} \/ Ahead("stopped") \/ saved = "review"
    /\ rec.status = "finalized" => saved = "finalized" \/ Ahead("finalized") \/ Saving

(* A step reaches a list that the editor shows of a running recording      *)
(* before the editor is told of the end.                                   *)
Coming(n) == \/ \E i \in DOMAIN buf : buf[i].seq = n
             \/ \E i \in DOMAIN events :
                  /\ events[i].seq = n
                  /\ \A k \in 1..i : events[k].kind \notin {"stopped", "finalized"}
Has(steps, n) == n \in DOMAIN steps /\ steps[n].id = n
Complete(steps) == \A n \in 1..made : Has(steps, n)
Reaches(steps) == /\ \A n \in 1..made : Has(steps, n) \/ Coming(n)
                  /\ told # {} => Complete(steps)
Running == view.mode = "recording" /\ ~view.loading
StepsComing ==
  rec.status \in Kept /\ Clean({"missed", "mixed"}) =>
    /\ StartAhead => Reaches(<<>>)
    /\ Running => Reaches(view.steps)
    /\ \A j \in jobs : ReadRunning(j) => Reaches(j.got.steps)

(* There such a list has only steps with their own numbers.                *)
OwnAll(steps) == \A n \in DOMAIN steps : n \in 1..made /\ Own(steps[n], n)
OwnNumbers ==
  rec.status \in Kept /\ Clean({"mixed"}) =>
    /\ view.mode = "recording" => OwnAll(view.steps)
    /\ \A j \in jobs : ReadRunning(j) => OwnAll(j.got.steps)

(* A list that can be edited, and what comes of it, has every step that    *)
(* was not left out, and until one is each under its number.               *)
Whole(steps) ==
  /\ \A k \in 1..made \ cut : \E n \in DOMAIN steps : steps[n].id = k
  /\ cut = {} => OwnAll(steps)
AllWhole ==
  rec.status \in Kept /\ Clean({"missed", "mixed"}) =>
    /\ view.mode \in {"review", "finalized"} /\ ~view.loading => Whole(view.steps)
    /\ \A j \in jobs : /\ j.kind \in Savings \cup {"finalize", "again"} => Whole(j.got)
                       /\ Answered(j) /\ ~ReadRunning(j) => Whole(j.got.steps)
    /\ Whole(rec.steps) /\ (file # Nothing => Whole(file))
RemovedIsCut == view.removed # {} => cut # {}

(* The state is well formed; and every step of a recording is in the list  *)
(* that the editor holds of it, or on its way to it in time, unless a load *)
(* failed or showed what it had read before an update came, or a step came *)
(* under a number that is another's now.  Of that list the editor shows    *)
(* and finalizes all but the steps the user removed and, after other       *)
(* recordings, a first explicit navigation.                                *)
ViewInv ==
  /\ ViewTypeOK /\ Unstarted /\ Numbered /\ WhileRecording /\ AfterRecording /\ StartFirst
  /\ SavedFollows /\ StepsComing /\ OwnNumbers /\ AllWhole /\ RemovedIsCut

(* The saved status is the recording's once the extension has heard all,   *)
(* whoever stopped or finalized it; unless a step came again after the     *)
(* stop, the finalization was heard between the extension's question for   *)
(* the state and its saving of "review", nobody was there to be told of    *)
(* the stop, or stop() or the writing of the file failed.                  *)
SavedIsTrue ==
  events = <<>> /\ told = {} /\ ~ending /\ ~Saving /\ rec.status \in Kept
    /\ Clean({"astray"}) => saved = rec.status

(* The file of a finalized recording has every step that was recorded,     *)
(* neither removed by the user nor left out by the editor as the entry     *)
(* navigation after other recordings; and each with its own picture unless *)
(* one was left out, when mergeEditedSteps() takes it by the new number;   *)
(* provided the editor missed no update, and that after it was used to     *)
(* finalize before no kept step has a number that was removed and no step  *)
(* came with its old one.                                                  *)
FinalizedIsEdited ==
  rec.status = "finalized" /\ file # Nothing /\ Clean({"missed", "mixed"}) =>
    /\ 1..made \ cut \subseteq {file[i].id : i \in DOMAIN file}
    /\ cut = {} => \A i \in DOMAIN file : file[i].pic \in {0, file[i].id}

(* The editor that shows a running recording does not wait for ever for a  *)
(* stop, whether the worker stops the recording, loses it to somebody      *)
(* else, dies or is away; unless the worker said 200 to it and had nothing *)
(* to stop or then died, stop() or the writing of the file failed, or a    *)
(* load showed a recording that had stopped as one that runs.              *)
Awaits == view.mode = "recording" /\ view.stopping
StopEnds == Awaits ~> ~Awaits \/ flaws # {}
=============================================================================
