----------------------------- MODULE BrowserPool -----------------------------
(***************************************************************************)
(* PlaywrightBridge (playwright-bridge.ts): the pool with one Chromium per *)
(* mode, the context of each session, and the events by which a context or *)
(* a browser that has gone is noticed.                                     *)
(*                                                                         *)
(* An action is what runs between two awaits, or one event handler.        *)
(* Browsers and contexts are Playwright's: they may go at any moment; the  *)
(* event that says so is delivered later, in any order with the others.    *)
(***************************************************************************)
EXTENDS Naturals, FiniteSets

CONSTANTS Sessions,   \* session ids
          Modes,      \* headless or headed
          ModeOf,     \* the mode a session was created with
          Browsers,   \* Browser objects; one that has gone and is forgotten is reused
          Contexts,   \* BrowserContext objects, likewise
          Calls,      \* bridge methods that may be under way together
          MayReject,  \* close() of a context or a browser may reject
          None

ASSUME PoolAssumption == /\ MayReject \in BOOLEAN
                         /\ ModeOf \in [Sessions -> Modes]
                         /\ None \notin Browsers \cup Contexts \cup Sessions \cup Modes

VARIABLES browser,      \* the Chromium processes
          context,      \* the contexts in them
          pool,         \* browserPool
          sessions,     \* the `sessions` map
          intentional,  \* intentionalBrowserClose
          call          \* the bridge methods under way

vars == <<browser, context, pool, sessions, intentional, call>>

(* "down" and "closed": gone, with the event not yet delivered. *)
NoBrowser == [st |-> "gone", mode |-> None, close |-> "no"]
NoContext == [st |-> "gone", of |-> None, in |-> None]
Idle == [op |-> "none", s |-> None, pc |-> "idle", b |-> None, x |-> None, todo |-> {}]

TypeOK ==
  /\ browser \in [Browsers -> [st : {"gone", "up", "down"}, mode : Modes \cup {None},
                               close : {"no", "asked", "done"}]]
  /\ context \in [Contexts -> [st : {"gone", "open", "closed"}, of : Sessions \cup {None},
                               in : Browsers \cup {None}]]
  /\ pool \in [Modes -> Browsers \cup {None}]
  /\ sessions \in [Sessions -> [x : Contexts, closing : BOOLEAN] \cup {None}]
  /\ intentional \in SUBSET Modes
  /\ call \in [Calls -> [op : {"none", "create", "ensure", "destroy", "closeAll"},
                         s : Sessions \cup {None},
                         pc : {"idle", "launch", "newContext", "init", "check", "close",
                               "settle", "all", "done"},
                         b : Browsers \cup {None}, x : Contexts \cup {None},
                         todo : SUBSET (Modes \X Browsers)]]
  /\ \A c \in Calls : call[c].pc = "newContext" => call[c].b # None

Init == /\ browser = [b \in Browsers |-> NoBrowser]
        /\ context = [x \in Contexts |-> NoContext]
        /\ pool = [m \in Modes |-> None]
        /\ sessions = [s \in Sessions |-> None]
        /\ intentional = {}
        /\ call = [c \in Calls |-> Idle]

(* Objects nothing refers to any more stand for new ones. *)
FreshBrowser(b) == /\ browser[b] = NoBrowser
                   /\ \A c \in Calls : call[c].b # b /\ b \notin {p[2] : p \in call[c].todo}
FreshContext(x) == /\ context[x] = NoContext
                   /\ \A c \in Calls : call[c].x # x
                   /\ \A s \in Sessions : sessions[s] # None => sessions[s].x # x

UsersOf(m, sess) == {s \in Sessions : sess[s] # None /\ ModeOf[s] = m}

-----------------------------------------------------------------------------
(* createContext and getOrLaunchBrowser.                                   *)

(* Up to the first await.  A session with a context returns at once. *)
CreateFrom(c, op, s) ==
  call' = [call EXCEPT ![c] =
    IF sessions'[s] # None THEN Idle
    ELSE IF pool'[ModeOf[s]] # None
         THEN [Idle EXCEPT !.op = op, !.s = s, !.pc = "newContext", !.b = pool'[ModeOf[s]]]
         ELSE [Idle EXCEPT !.op = op, !.s = s, !.pc = "launch"]]

CreateContext(c, s) ==
  /\ call[c] = Idle
  /\ UNCHANGED <<browser, context, pool, sessions, intentional>>
  /\ CreateFrom(c, "create", s)

(* Two calls that find the pool empty both launch; the later one's browser *)
(* takes the pool's entry.                                                 *)
Launched(c, b) ==
  LET m == ModeOf[call[c].s]
  IN  /\ call[c].pc = "launch" /\ FreshBrowser(b)
      /\ browser' = [browser EXCEPT ![b] = [st |-> "up", mode |-> m, close |-> "no"]]
      /\ pool' = [pool EXCEPT ![m] = b]
      /\ call' = [call EXCEPT ![c].pc = "newContext", ![c].b = b]
      /\ UNCHANGED <<context, sessions, intentional>>

(* launch, newContext or addInitScript rejects: BrowserUnavailableError. *)
CreateFails(c) ==
  /\ \/ call[c].pc \in {"launch", "newContext"}
     \/ call[c].pc = "init" /\ context[call[c].x].st # "open"
  /\ call' = [call EXCEPT ![c] = Idle]
  /\ UNCHANGED <<browser, context, pool, sessions, intentional>>

NewContext(c, x) ==
  /\ call[c].pc = "newContext" /\ browser[call[c].b].st = "up" /\ FreshContext(x)
  /\ context' = [context EXCEPT ![x] = [st |-> "open", of |-> call[c].s, in |-> call[c].b]]
  /\ call' = [call EXCEPT ![c].pc = "init", ![c].x = x]
  /\ UNCHANGED <<browser, pool, sessions, intentional>>

(* The init script is in: from here the close event is heard. *)
Registered(c) ==
  /\ call[c].pc = "init" /\ context[call[c].x].st = "open"
  /\ sessions' = [sessions EXCEPT ![call[c].s] = [x |-> call[c].x, closing |-> FALSE]]
  /\ call' = [call EXCEPT ![c] = Idle]
  /\ UNCHANGED <<browser, context, pool, intentional>>

-----------------------------------------------------------------------------
(* shutdownBrowserIfIdle, given the sessions map after the removal.  The   *)
(* browser it asks to close, or None.                                      *)
IdleBrowser(m, sess) == IF UsersOf(m, sess) = {} THEN pool[m] ELSE None

ShutdownIfIdle(m, sess) ==
  LET b == IdleBrowser(m, sess)
  IN  IF b = None THEN UNCHANGED <<browser, pool, intentional>>
      ELSE /\ pool' = [pool EXCEPT ![m] = None]
           /\ intentional' = intentional \cup {m}
           /\ browser' = [browser EXCEPT ![b].close = "asked"]

(* destroyContext up to `await context.close()`; ensureHealthyContext goes *)
(* on to createContext when there is nothing to destroy.                   *)
DestroyFrom(c, op, s) ==
  /\ UNCHANGED <<browser, context, pool, intentional>>
  /\ IF sessions[s] = None
     THEN /\ UNCHANGED sessions
          /\ IF op = "ensure" THEN CreateFrom(c, op, s)
                              ELSE call' = [call EXCEPT ![c] = Idle]
     ELSE /\ sessions' = [sessions EXCEPT ![s].closing = TRUE]
          /\ call' = [call EXCEPT ![c] = [Idle EXCEPT !.op = op, !.s = s, !.pc = "close",
                                                      !.x = sessions[s].x]]

DestroyContext(c, s) == call[c] = Idle /\ DestroyFrom(c, "destroy", s)

(* ensureHealthyContext: create, recreate at once (no open page), or wait  *)
(* for the first page to load ...                                          *)
EnsureHealthyContext(c, s) ==
  /\ call[c] = Idle
  /\ \/ DestroyFrom(c, "ensure", s)
     \/ /\ sessions[s] # None
        /\ call' = [call EXCEPT ![c] = [Idle EXCEPT !.op = "ensure", !.s = s, !.pc = "check"]]
        /\ UNCHANGED <<browser, context, pool, sessions, intentional>>

(* ... which it does, or else the context is recreated. *)
Checked(c) ==
  /\ call[c].pc = "check"
  /\ \/ /\ call' = [call EXCEPT ![c] = Idle]
        /\ UNCHANGED <<browser, context, pool, sessions, intentional>>
     \/ DestroyFrom(c, "ensure", call[c].s)

(* A context goes, with the event pending if somebody listens to it. *)
ClosedContext(x) ==
  IF \E c \in Calls : call[c].pc = "init" /\ call[c].x = x
  THEN NoContext ELSE [context[x] EXCEPT !.st = "closed"]

CloseContext(c) ==
  /\ call[c].pc = "close" /\ context[call[c].x].st = "open"
  /\ context' = [context EXCEPT ![call[c].x] = ClosedContext(call[c].x)]
  /\ UNCHANGED <<browser, pool, sessions, intentional, call>>

(* The finally block of destroyContext, once close() has resolved (after   *)
(* the event) or rejected (the context lingers).  The entry it removes is  *)
(* the session's present one.                                              *)
CloseReturns(c) ==
  LET s == call[c].s
  IN  /\ call[c].pc = "close"
      /\ context[call[c].x].st = "gone" \/ (MayReject /\ context[call[c].x].st = "open")
      /\ sessions' = [sessions EXCEPT ![s] = None]
      /\ ShutdownIfIdle(ModeOf[s], sessions')
      /\ call' = [call EXCEPT ![c] = [Idle EXCEPT !.op = call[c].op, !.s = s, !.pc = "settle",
                                          !.b = IdleBrowser(ModeOf[s], sessions')]]
      /\ UNCHANGED context

(* The browser it asked to close, if any, has answered. *)
Settled(c) ==
  /\ call[c].pc = "settle"
  /\ call[c].b # None => browser[call[c].b].close # "asked"
  /\ UNCHANGED <<browser, context, pool, sessions, intentional>>
  /\ IF call[c].op = "ensure" THEN CreateFrom(c, "ensure", call[c].s)
                              ELSE call' = [call EXCEPT ![c] = Idle]

-----------------------------------------------------------------------------
(* closeAll: the pool's entries as they were when it began, one by one;    *)
(* the worker is on its way to exit, so the call doesn't end.              *)

CloseOne(c, m, b, todo) ==
  /\ pool' = [pool EXCEPT ![m] = None]
  /\ intentional' = intentional \cup {m}
  /\ browser' = IF browser[b].st = "gone" THEN browser
                ELSE [browser EXCEPT ![b].close = "asked"]
  /\ call' = [call EXCEPT ![c] = [Idle EXCEPT !.op = "closeAll", !.pc = "all", !.b = b,
                                              !.todo = todo \ {<<m, b>>}]]
  /\ UNCHANGED <<context, sessions>>

ClearSessions(c) ==
  /\ sessions' = [s \in Sessions |-> None]
  /\ call' = [call EXCEPT ![c] = [Idle EXCEPT !.op = "closeAll", !.pc = "done"]]
  /\ UNCHANGED <<browser, context, pool, intentional>>

CloseAll(c) ==
  LET todo == {p \in Modes \X Browsers : pool[p[1]] = p[2]}
  IN  /\ call[c] = Idle
      /\ \/ todo = {} /\ ClearSessions(c)
         \/ \E p \in todo : CloseOne(c, p[1], p[2], todo)

CloseAllNext(c) ==
  /\ call[c].pc = "all" /\ browser[call[c].b].close # "asked"
  /\ \/ call[c].todo = {} /\ ClearSessions(c)
     \/ \E p \in call[c].todo : CloseOne(c, p[1], p[2], call[c].todo)

-----------------------------------------------------------------------------
(* Playwright: what goes away, and the answers to close().                 *)

ContextDies(x) ==
  /\ context[x].st = "open"
  /\ context' = [context EXCEPT ![x] = ClosedContext(x)]
  /\ UNCHANGED <<browser, pool, sessions, intentional, call>>

(* With a browser go its contexts. *)
ContextsWithout(b) ==
  [x \in Contexts |-> IF context[x].in = b /\ context[x].st = "open"
                      THEN ClosedContext(x) ELSE context[x]]

BrowserDies(b) ==
  /\ browser[b].st = "up"
  /\ browser' = [browser EXCEPT ![b].st = "down"]
  /\ context' = ContextsWithout(b)
  /\ UNCHANGED <<pool, sessions, intentional, call>>

BrowserCloses(b) ==
  /\ browser[b].close = "asked"
  /\ browser' = [browser EXCEPT ![b].st = "down", ![b].close = "done"]
  /\ context' = ContextsWithout(b)
  /\ UNCHANGED <<pool, sessions, intentional, call>>

(* browser.close() rejects: the process may linger. *)
BrowserCloseFails(b) ==
  /\ MayReject /\ browser[b].close = "asked" /\ browser[b].st = "up"
  /\ browser' = [browser EXCEPT ![b].close = "no"]
  /\ intentional' = intentional \ {browser[b].mode}
  /\ UNCHANGED <<context, pool, sessions, call>>

-----------------------------------------------------------------------------
(* The event handlers.                                                     *)

(* A slip: the entry of a context that closed by itself stays. *)
ContextClosedKeepingEntry(x) ==
  /\ context[x].st = "closed"
  /\ context' = [context EXCEPT ![x] = NoContext]
  /\ UNCHANGED <<browser, pool, sessions, intentional, call>>

(* context.on("close"): it looks at the entry the session has now. *)
ContextClosed(x) ==
  LET s == context[x].of
  IN  /\ context[x].st = "closed"
      /\ context' = [context EXCEPT ![x] = NoContext]
      /\ IF sessions[s] # None /\ ~sessions[s].closing
         THEN /\ sessions' = [sessions EXCEPT ![s] = None]       \* and emitDead
              /\ ShutdownIfIdle(ModeOf[s], sessions')
         ELSE UNCHANGED <<browser, pool, sessions, intentional>>
      /\ UNCHANGED call

(* A slip: the pool's entry is left when the browser was closed on purpose. *)
DisconnectedKeepingPool(b) ==
  LET m == browser[b].mode
  IN  /\ browser[b].st = "down"
      /\ browser' = [browser EXCEPT ![b] = NoBrowser]
      /\ IF m \in intentional
         THEN intentional' = intentional \ {m} /\ UNCHANGED sessions
         ELSE /\ sessions' = [s \in Sessions |-> IF ModeOf[s] = m THEN None ELSE sessions[s]]
              /\ UNCHANGED intentional
      /\ UNCHANGED <<pool, context, call>>

(* browser.on("disconnected"): it knows the mode, not which browser of     *)
(* that mode the pool or the mark is about.                                *)
Disconnected(b) ==
  LET m == browser[b].mode
  IN  /\ browser[b].st = "down"
      /\ browser' = [browser EXCEPT ![b] = NoBrowser]
      /\ pool' = [pool EXCEPT ![m] = None]
      /\ IF m \in intentional
         THEN intentional' = intentional \ {m} /\ UNCHANGED sessions
         ELSE /\ sessions' = [s \in Sessions |-> IF ModeOf[s] = m THEN None ELSE sessions[s]]
              /\ UNCHANGED intentional
      /\ UNCHANGED <<context, call>>

-----------------------------------------------------------------------------
CallStep(c) ==
  \/ \E s \in Sessions : CreateContext(c, s) \/ EnsureHealthyContext(c, s)
                         \/ DestroyContext(c, s)
  \/ (\E b \in Browsers : Launched(c, b)) \/ (\E x \in Contexts : NewContext(c, x))
  \/ CreateFails(c) \/ Registered(c) \/ Checked(c) \/ CloseContext(c) \/ CloseReturns(c)
  \/ Settled(c) \/ CloseAll(c) \/ CloseAllNext(c)

External == \/ \E x \in Contexts : ContextDies(x)
            \/ \E b \in Browsers : BrowserDies(b) \/ BrowserCloses(b) \/ BrowserCloseFails(b)

Event == \/ \E x \in Contexts : ContextClosed(x)
         \/ \E b \in Browsers : Disconnected(b)

Next == (\E c \in Calls : CallStep(c)) \/ External \/ Event

Spec == Init /\ [][Next]_vars

-----------------------------------------------------------------------------
(* What the bridge promises.                                               *)

(* A session in the map has an open context, or an event is pending that   *)
(* will take it out, or a destroyContext is about to: no command is ever   *)
(* served by a context that died unnoticed (playwright-bridge.ts:110-127,  *)
(* 184-198).                                                               *)
NoUnnoticedDeath ==
  \A s \in Sessions :
    sessions[s] # None =>
      \/ context[sessions[s].x].st \in {"open", "closed"} /\ context[sessions[s].x].of = s
      \/ sessions[s].closing
           /\ \E c \in Calls : call[c].s = s /\ call[c].pc = "close"

(* The pool never hands out a browser whose disconnection has been handled *)
(* (playwright-bridge.ts:80-83, 110-111).                                  *)
PoolHandsOutLive ==
  \A m \in Modes : pool[m] # None =>
    browser[pool[m]].st # "gone" /\ browser[pool[m]].mode = m

=============================================================================
