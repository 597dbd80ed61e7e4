--------------------------- MODULE WorkerSessions ---------------------------
(***************************************************************************)
(* What joins the session store to the browsers in runtime-worker: the     *)
(* HTTP handlers of session.routes.ts, the onContextDead handler of        *)
(* main.ts, the per-session command queue, and graceful shutdown.          *)
(*                                                                         *)
(* SessionStore gives the store in detail; here applyTrigger is two steps, *)
(* a decision that is on disk and its installation in the map, one at a    *)
(* time per session, and disk writes succeed.  BrowserPool gives the       *)
(* bridge in detail; here a session's entry in it is there, being closed,  *)
(* or absent.                                                              *)
(***************************************************************************)
EXTENDS Naturals, FiniteSets

CONSTANTS Sessions,   \* session ids; also the actor that is a session's dead handler
          Requests,   \* HTTP requests that may be under way together
          None

Actors == Requests \cup Sessions

ASSUME WorkerAssumption == /\ None \notin Actors \cup {"active", "paused", "dead", "closed"}
                           /\ Requests \cap Sessions = {}

VARIABLES up,        \* the worker runs
          stop,      \* how far runDefaultShutdown has come
          used,      \* ids handed out so far
          status,    \* the store's map: the status of a session, or None
          disk,      \* the status in its blob, or None
          ctx,       \* the bridge's entry for the session
          req,       \* what each actor is in the middle of
          flushing,  \* the record whose write flush() awaits
          unflushed, \* sessions flush() has not come to
          restored,  \* sessions loaded at start that have not moved since, but to
                     \* paused (history)
          revived    \* sessions a trigger has put back after abandon (history)

history == <<restored, revived>>
process == <<up, stop, used, flushing, unflushed>>
store == <<status, disk, history>>
vars == <<process, store, ctx, req>>

(* The state machine; SessionStore has the table with its dead rows. *)
Target(from, trigger) ==
  CASE trigger = "end"    /\ from \in {"active", "paused", "dead"} -> "closed"
    [] trigger = "crash"  /\ from \in {"active", "paused"}         -> "dead"
    [] trigger = "resume" /\ from = "dead"                         -> "active"
    [] trigger = "pause"  /\ from = "active"                       -> "paused"
    [] trigger = "resume_from_pause" /\ from = "paused"            -> "active"
    [] OTHER -> "invalid"

Idle == [op |-> "none", s |-> None, pc |-> "idle", trigger |-> None, to |-> None,
         held |-> FALSE]

Ops == {"none", "create", "delete", "resume", "resume_from_pause", "command", "dead"}
TypeOK ==
  /\ up \in BOOLEAN /\ stop \in {"no", "drain", "close", "flush"}
  /\ used \in SUBSET Sessions /\ restored \in SUBSET Sessions
  /\ revived \in SUBSET Sessions
  /\ status \in [Sessions -> {None, "active", "paused", "dead"}]
  /\ disk \in [Sessions -> {None, "active", "paused", "dead"}]
  /\ ctx \in [Sessions -> {"none", "open", "closing"}]
  /\ req \in [Actors -> [op : Ops, s : Sessions \cup {None},
                         pc : {"idle", "queued", "decided", "context", "navigate", "health",
                               "closing", "undo", "running"},
                         trigger : {None, "end", "crash", "resume", "pause",
                                    "resume_from_pause"},
                         to : {None, "active", "paused", "dead", "closed"},
                         held : BOOLEAN]]
  /\ unflushed \in SUBSET Sessions
  /\ flushing = None \/ (flushing.s \in Sessions /\ flushing.st # None)

Init == /\ up = TRUE /\ stop = "no" /\ used = {} /\ restored = {} /\ revived = {}
        /\ status = [s \in Sessions |-> None] /\ disk = [s \in Sessions |-> None]
        /\ ctx = [s \in Sessions |-> "none"]
        /\ req = [a \in Actors |-> Idle]
        /\ flushing = None /\ unflushed = {}

Free(r) == up /\ req[r] = Idle
At(a, pc) == req[a].pc = pc
Begin(r, op, s, pc, trigger) ==
  req' = [req EXCEPT ![r] = [Idle EXCEPT !.op = op, !.s = s, !.pc = pc,
                                         !.trigger = trigger]]
Goto(a, pc) == req' = [req EXCEPT ![a].pc = pc]
Trigger(a, t) == req' = [req EXCEPT ![a].pc = "queued", ![a].trigger = t]
Done(a) == req' = [req EXCEPT ![a] = Idle]

(* The dead handlers that emitDead for the sessions of S starts.  Each     *)
(* asks for a crash if the store says active or paused at that moment.     *)
DeadHandlers(S) ==
  req' = [a \in Actors |->
            IF a \in S /\ req[a] = Idle /\ status[a] \in {"active", "paused"}
            THEN [Idle EXCEPT !.op = "dead", !.s = a, !.pc = "queued", !.trigger = "crash"]
            ELSE req[a]]

-----------------------------------------------------------------------------
(* POST /sessions.                                                         *)

(* store.create has returned; the browser part follows. *)
PostSession(r, s) ==
  /\ Free(r) /\ s \notin used
  /\ used' = used \cup {s}
  /\ status' = [status EXCEPT ![s] = "active"]
  /\ disk' = [disk EXCEPT ![s] = "active"]
  /\ Begin(r, "create", s, "context", None)
  /\ UNCHANGED <<up, stop, ctx, flushing, unflushed, history>>

(* bridge.createContext, for the three routes that call it.  An entry that *)
(* is there, even one being closed, is reused.                             *)
MakeContext(r) ==
  LET s == req[r].s
  IN  /\ At(r, "context")
      /\ ctx' = [ctx EXCEPT ![s] = IF @ = "none" THEN "open" ELSE @]
      /\ CASE req[r].op = "create" -> Goto(r, "navigate")
           [] req[r].op = "resume_from_pause" /\ ctx[s] # "none" -> Goto(r, "health")
           [] OTHER -> Done(r)
      /\ UNCHANGED <<process, store>>

(* A slip: a resume that fails leaves the status it has set. *)
ContextFailsQuietly(r) ==
  LET s == req[r].s
  IN  /\ At(r, "context") /\ ctx[s] = "none"
      /\ IF req[r].op = "create"
         THEN /\ status' = [status EXCEPT ![s] = None]
              /\ disk' = [disk EXCEPT ![s] = None]
              /\ Goto(r, "undo")
         ELSE Done(r) /\ UNCHANGED <<status, disk>>
      /\ UNCHANGED <<process, ctx, history>>

(* createContext or getContext throws: create abandons the record, the     *)
(* other two ask for a crash.                                              *)
ContextFails(r) ==
  LET s == req[r].s
  IN  /\ At(r, "context") /\ ctx[s] = "none"
      /\ IF req[r].op = "create"
         THEN /\ status' = [status EXCEPT ![s] = None]
              /\ disk' = [disk EXCEPT ![s] = None]
              /\ Goto(r, "undo")
         ELSE Trigger(r, "crash") /\ UNCHANGED <<status, disk>>
      /\ UNCHANGED <<process, ctx, history>>

(* The first navigation: done, or failed, and then abandon comes before    *)
(* destroyContext.                                                         *)
Navigated(r) ==
  /\ At(r, "navigate")
  /\ \/ Done(r) /\ UNCHANGED <<status, disk>>
     \/ /\ status' = [status EXCEPT ![req[r].s] = None]
        /\ disk' = [disk EXCEPT ![req[r].s] = None]
        /\ Goto(r, "undo")
  /\ UNCHANGED <<process, ctx, history>>

Undo(r) ==
  /\ At(r, "undo")
  /\ ctx' = [ctx EXCEPT ![req[r].s] = IF @ = "open" THEN "closing" ELSE @]
  /\ Goto(r, "closing")
  /\ UNCHANGED <<process, store>>

-----------------------------------------------------------------------------
(* DELETE /sessions/:id.                                                   *)

Delete(r, s) ==
  /\ Free(r) /\ status[s] # None
  /\ ctx' = [ctx EXCEPT ![s] = IF @ = "open" THEN "closing" ELSE @]
  /\ Begin(r, "delete", s, "closing", None)
  /\ UNCHANGED <<process, store>>

(* The context is closed.  An undone POST is over; a DELETE drops the      *)
(* session's queue, then ends the session.  A command that runs keeps the  *)
(* queue object it holds, which no one else can find any more.             *)
TornDown(r) ==
  LET s == req[r].s
  IN  /\ At(r, "closing")
      /\ ctx' = [ctx EXCEPT ![s] = "none"]
      /\ req' = [a \in Actors |->
           IF a = r THEN IF req[r].op = "create" \/ status[s] = None THEN Idle
                         ELSE [req[a] EXCEPT !.pc = "queued", !.trigger = "end"]
           ELSE IF req[r].op = "delete" /\ req[a].s = s
                THEN [req[a] EXCEPT !.held = FALSE]
           ELSE req[a]]
      /\ UNCHANGED <<process, store>>

-----------------------------------------------------------------------------
(* POST /sessions/:id/resume and resume_from_pause.                        *)

Resume(r, s) ==
  /\ Free(r)
  /\ \/ status[s] = "dead" /\ Begin(r, "resume", s, "queued", "resume")
     \/ status[s] = "paused"
          /\ Begin(r, "resume_from_pause", s, "queued", "resume_from_pause")
  /\ UNCHANGED <<process, store, ctx>>

(* ensureHealthyContext finds the page alive, or makes a new context. *)
Healthy(r) ==
  LET s == req[r].s
  IN  /\ At(r, "health")
      /\ \/ ctx[s] # "none" /\ Done(r) /\ UNCHANGED ctx
         \/ ctx' = [ctx EXCEPT ![s] = "none"] /\ Goto(r, "context")
      /\ UNCHANGED <<process, store>>

-----------------------------------------------------------------------------
(* POST /sessions/:id/commands.                                            *)

(* The handler up to tryAcquireForSession has no await. *)
LockedBy(s) == {r \in Requests : req[r].s = s /\ req[r].held}

(* A slip: a worker that shuts down still accepts commands. *)
CommandWhenStopping(r, s) ==
  /\ Free(r) /\ status[s] = "active" /\ LockedBy(s) = {}
  /\ req' = [req EXCEPT ![r] = [Idle EXCEPT !.op = "command", !.s = s, !.pc = "running",
                                            !.held = TRUE]]
  /\ UNCHANGED <<process, store, ctx>>

Command(r, s) ==
  /\ Free(r) /\ stop = "no"
  /\ status[s] = "active"
  /\ LockedBy(s) = {}
  /\ req' = [req EXCEPT ![r] = [Idle EXCEPT !.op = "command", !.s = s, !.pc = "running",
                                            !.held = TRUE]]
  /\ UNCHANGED <<process, store, ctx>>

(* A pause_for_human step; the steps after it run when it has returned. *)
PauseStep(r) ==
  /\ At(r, "running") /\ Trigger(r, "pause")
  /\ UNCHANGED <<process, store, ctx>>

(* The stream ends, and releases the queue object. *)
CommandEnds(r) ==
  /\ At(r, "running") /\ Done(r)
  /\ UNCHANGED <<process, store, ctx>>

-----------------------------------------------------------------------------
(* applyTrigger, for whichever actor asks.                                 *)

Decided(s) == \E a \in Actors : req[a].s = s /\ At(a, "decided")

(* SessionNotFoundError or InvalidTransitionError: the request fails, the  *)
(* command's stream ends, a crash is forgotten.                            *)
Refused(a) ==
  LET s == req[a].s
  IN  /\ At(a, "queued") /\ ~Decided(s)
      /\ Target(status[s], req[a].trigger) = "invalid"
      /\ Done(a)
      /\ UNCHANGED <<process, store, ctx>>

(* The trigger is legal: its outcome goes to disk. *)
Decide(a) ==
  LET s == req[a].s
      to == Target(status[s], req[a].trigger)
  IN  /\ At(a, "queued") /\ ~Decided(s) /\ to # "invalid"
      /\ disk' = [disk EXCEPT ![s] = IF to = "closed" THEN None ELSE to]
      /\ req' = [req EXCEPT ![a].pc = "decided", ![a].to = to]
      /\ UNCHANGED <<process, status, history, ctx>>

(* The record decided on enters the map, whatever has become of the one it *)
(* was made from; then the caller goes on.                                 *)
Install(a) ==
  LET s == req[a].s
      to == req[a].to
  IN  /\ At(a, "decided")
      /\ status' = [status EXCEPT ![s] = IF to = "closed" THEN None ELSE to]
      /\ restored' = IF to = "paused" THEN restored ELSE restored \ {s}
      /\ revived' = IF status[s] = None /\ to # "closed" THEN revived \cup {s} ELSE revived
      /\ req' = [req EXCEPT ![a] =
           CASE req[a].op = "command" -> [@ EXCEPT !.pc = "running", !.to = None,
                                                   !.trigger = None]
             [] req[a].trigger \in {"resume", "resume_from_pause"} ->
                  [@ EXCEPT !.pc = "context", !.to = None, !.trigger = None]
             [] OTHER -> Idle]
      /\ UNCHANGED <<process, disk, ctx>>

-----------------------------------------------------------------------------
(* The browser side.                                                       *)

(* A slip: the entry is dropped, and nobody told. *)
ContextDiesSilently(s) ==
  /\ ctx[s] = "open"
  /\ ctx' = [ctx EXCEPT ![s] = "none"]
  /\ UNCHANGED <<process, store, req>>

(* A context dies by itself: the bridge drops the entry and emits. *)
ContextDies(s) ==
  /\ ctx[s] = "open"
  /\ ctx' = [ctx EXCEPT ![s] = "none"]
  /\ DeadHandlers({s})
  /\ UNCHANGED <<process, store>>

-----------------------------------------------------------------------------
(* Shutdown, death, restart.                                               *)

ShutdownBegins ==
  /\ up /\ stop = "no" /\ stop' = "drain"
  /\ UNCHANGED <<up, used, store, ctx, req, flushing, unflushed>>

(* drainAll sees the queues that are in the map. *)
Drained ==
  /\ stop = "drain" /\ \A s \in Sessions : LockedBy(s) = {}
  /\ stop' = "close"
  /\ UNCHANGED <<up, used, store, ctx, req, flushing, unflushed>>

(* bridge.closeAll: every context that isn't already being closed reports  *)
(* its death.                                                              *)
CloseAll ==
  /\ stop = "close" /\ stop' = "flush"
  /\ ctx' = [s \in Sessions |-> "none"]
  /\ DeadHandlers({s \in Sessions : ctx[s] = "open"})
  /\ unflushed' = Sessions
  /\ UNCHANGED <<up, used, store, flushing>>

(* store.flush: a record is read when its turn comes; its write lands      *)
(* later.                                                                  *)
FlushOne(s) ==
  /\ stop = "flush" /\ flushing = None /\ s \in unflushed /\ status[s] # None
  /\ flushing' = [s |-> s, st |-> status[s]]
  /\ unflushed' = unflushed \ {s}
  /\ UNCHANGED <<up, stop, used, store, ctx, req>>

FlushLands ==
  /\ flushing # None
  /\ disk' = [disk EXCEPT ![flushing.s] = flushing.st]
  /\ flushing' = None
  /\ UNCHANGED <<up, stop, used, status, history, ctx, req, unflushed>>

Gone ==
  /\ up' = FALSE /\ stop' = "no"
  /\ status' = [s \in Sessions |-> None]
  /\ ctx' = [s \in Sessions |-> "none"]
  /\ req' = [a \in Actors |-> Idle]
  /\ flushing' = None /\ unflushed' = {} /\ restored' = {} /\ revived' = {}
  /\ UNCHANGED <<used, disk>>

(* A crash, a drain that times out, or the end of the flush. *)
Die == up /\ Gone
Exit == /\ stop = "flush" /\ flushing = None
        /\ \A s \in unflushed : status[s] = None
        /\ Gone

(* initializeFromDisk takes every blob as it is. *)
Boot ==
  /\ ~up /\ up' = TRUE
  /\ status' = disk
  /\ restored' = {s \in Sessions : disk[s] # None}
  /\ UNCHANGED revived
  /\ UNCHANGED <<stop, used, disk, ctx, req, flushing, unflushed>>

-----------------------------------------------------------------------------
RequestStep(r) ==
  \/ \E s \in Sessions : PostSession(r, s) \/ Delete(r, s) \/ Resume(r, s) \/ Command(r, s)
  \/ MakeContext(r) \/ ContextFails(r) \/ Navigated(r) \/ Undo(r) \/ TornDown(r)
  \/ Healthy(r) \/ PauseStep(r) \/ CommandEnds(r)

TriggerStep(a) == Refused(a) \/ Decide(a) \/ Install(a)

Stopping == ShutdownBegins \/ Drained \/ CloseAll \/ FlushLands \/ Die \/ Exit \/ Boot
              \/ \E s \in Sessions : FlushOne(s)

Next == \/ \E r \in Requests : RequestStep(r)
        \/ \E a \in Actors : TriggerStep(a)
        \/ \E s \in Sessions : ContextDies(s)
        \/ Stopping

(* The event loop runs, file writes and browser operations finish: what    *)
(* has begun goes on.  Nothing obliges a client to send a request, or a    *)
(* running command to end.                                                 *)
Fairness ==
  /\ \A r \in Requests : WF_vars(MakeContext(r) \/ ContextFails(r)) /\ WF_vars(Navigated(r))
                         /\ WF_vars(Undo(r)) /\ WF_vars(TornDown(r)) /\ WF_vars(Healthy(r))
  /\ \A a \in Actors : SF_vars(TriggerStep(a))
Spec == Init /\ [][Next]_vars
FairSpec == Spec /\ Fairness

-----------------------------------------------------------------------------
(* What the worker promises.                                               *)

Busy(s) == \E a \in Actors : req[a].s = s /\ req[a].op # "command"

(* The store and the bridge agree: a session the store calls active has a  *)
(* live context, or a handler is at work on it that will give it one, end  *)
(* it or mark it dead; whatever requests, deaths of contexts and triggers  *)
(* interleave.  Excepted are sessions a restart has restored or a trigger  *)
(* revived, and the end of a shutdown (main.ts:101-117,                    *)
(* session.routes.ts:140-287).                                             *)
StoreMatchesBridge ==
  up => \A s \in Sessions :
          status[s] = "active" =>
            ctx[s] = "open" \/ Busy(s) \/ s \in restored \cup revived \/ stop = "flush"

(* The death of a context reaches the store: a session without one does    *)
(* not stay active.                                                        *)
DeathReachesStore ==
  \A s \in Sessions :
    (status[s] = "active" /\ ctx[s] = "none" /\ s \notin restored \cup revived)
      ~> (status[s] # "active" \/ ctx[s] = "open" \/ s \in restored \cup revived)

(* Shutdown lets the commands it can see finish: no browser is closed      *)
(* under a command that holds its session's queue (shutdown.ts:40-41,      *)
(* session.routes.ts:290-292, 313).                                        *)
DrainedBeforeClosing ==
  stop \in {"close", "flush"} => \A s \in Sessions : LockedBy(s) = {}

=============================================================================
