---------------------------- MODULE BrowserProofs ----------------------------
(***************************************************************************)
(* Theorems about the browsers of the worker and the commands that run in  *)
(* them.                                                                   *)
(*                                                                         *)
(* BrowserPool, for any number of sessions, browsers, contexts and calls   *)
(* under way: the pool hands out no browser whose end has been handled,    *)
(* and no session keeps a context that has gone without anybody's notice.  *)
(*                                                                         *)
(* CommandRun, for any tabs, URLs and refs, and any sizes of the caches:   *)
(* commands stay on their tab, a delta is the difference from what the     *)
(* agent was told, and a ref is used on the page it was read on.           *)
(***************************************************************************)
EXTENDS BrowserPool, CommandRun, FiniteSetTheorems, SequenceTheorems, WellFoundedInduction, TLAPS

CallRecords == [op : {"none", "create", "ensure", "destroy", "closeAll"},
                s : Sessions \cup {None},
                pc : {"idle", "launch", "newContext", "init", "check", "close",
                      "settle", "all", "done"},
                b : Browsers \cup {None}, x : Contexts \cup {None},
                todo : SUBSET (Modes \X Browsers)]

-----------------------------------------------------------------------------
(* The invariant.  What a call has in hand where it stands.                *)
Shape(q) ==
  /\ q.pc \in {"launch", "newContext", "init", "check", "close", "settle"} => q.s \in Sessions
  /\ q.pc \in {"newContext", "all"} => q.b \in Browsers
  /\ q.pc \in {"init", "close"} => q.x \in Contexts
Shapes == \A c \in Calls : Shape(call[c])

(* Of a browser that has gone and is forgotten nothing is left; a context  *)
(* that hasn't is some session's.                                          *)
Reset == \A b \in Browsers : browser[b].st = "gone" => browser[b] = NoBrowser
Owned == \A x \in Contexts : context[x].st # "gone" => context[x].of \in Sessions

(* An entry being closed has a call that closes it; any other one has its  *)
(* context, or the event of its end is to come.                            *)
HasCloser(s) == \E c \in Calls : call[c].s = s /\ call[c].pc = "close"
Heard(s) == LET x == sessions[s].x
            IN  context[x].st \in {"open", "closed"} /\ context[x].of = s
PoolEntry(s) == sessions[s] # None => IF sessions[s].closing THEN HasCloser(s) ELSE Heard(s)
PoolEntries == \A s \in Sessions : PoolEntry(s)

(* A context that gets its init script is its call's alone: nobody listens *)
(* to its end, and no entry has it.                                        *)
Alone(c) ==
  LET x == call[c].x
  IN  call[c].pc = "init" =>
        /\ context[x].st = "open" => context[x].of = call[c].s
        /\ \A s \in Sessions : sessions[s] # None => sessions[s].x # x
        /\ \A d \in Calls \ {c} : call[d].x # x
Making == \A c \in Calls : Alone(c)

BridgeInv == TypeOK /\ Shapes /\ Reset /\ Owned /\ PoolHandsOutLive /\ PoolEntries /\ Making

-----------------------------------------------------------------------------
LEMMA IdleCall == /\ Idle \in CallRecords /\ Idle.pc = "idle" /\ Idle.x = None /\ Shape(Idle)
                  /\ None \notin Contexts /\ None \notin Browsers
<1>1. /\ Idle \in CallRecords /\ Idle.pc = "idle" /\ Idle.x = None
  BY DEF Idle, CallRecords
<1> QED BY <1>1, PoolAssumption DEF Shape, PoolAssumption

(* A call that moves on, and no context with it.                           *)
CallMoves(c, q) == /\ q \in CallRecords /\ Shape(q) /\ call' \in [Calls -> CallRecords]
                   /\ call'[c] = q /\ \A d \in Calls \ {c} : call'[d] = call[d]

LEMMA Moved ==
  ASSUME TypeOK, NEW c \in Calls, NEW q \in CallRecords, Shape(q), call' = [call EXCEPT ![c] = q]
  PROVE  CallMoves(c, q)
<1>1. call \in [Calls -> CallRecords]
  BY DEF TypeOK, CallRecords
<1> QED BY <1>1 DEF CallMoves

(* TypeOK by parts: the world, the bridge's maps, the calls.               *)
ContextRecords == [st : {"gone", "open", "closed"}, of : Sessions \cup {None},
                   in : Browsers \cup {None}]
WorldOK ==
  /\ browser \in [Browsers -> [st : {"gone", "up", "down"}, mode : Modes \cup {None},
                               close : {"no", "asked", "done"}]]
  /\ context \in [Contexts -> ContextRecords]
MapsOK ==
  /\ pool \in [Modes -> Browsers \cup {None}]
  /\ sessions \in [Sessions -> [x : Contexts, closing : BOOLEAN] \cup {None}]
  /\ intentional \in SUBSET Modes
CallsOK == call \in [Calls -> CallRecords]

LEMMA Typed == /\ TypeOK => WorldOK /\ MapsOK /\ CallsOK
               /\ WorldOK /\ MapsOK /\ CallsOK /\ Shapes => TypeOK
               /\ (WorldOK /\ MapsOK /\ CallsOK /\ Shapes)' => TypeOK'
<1>1. TypeOK => WorldOK /\ MapsOK /\ CallsOK
  BY DEF TypeOK, WorldOK, MapsOK, CallsOK, CallRecords, ContextRecords
<1>2. WorldOK /\ MapsOK /\ CallsOK /\ Shapes => TypeOK
  BY IdleCall DEF TypeOK, WorldOK, MapsOK, CallsOK, CallRecords, ContextRecords, Shapes, Shape
<1>3. (WorldOK /\ MapsOK /\ CallsOK /\ Shapes)' => TypeOK'
  BY IdleCall DEF TypeOK, WorldOK, MapsOK, CallsOK, CallRecords, ContextRecords, Shapes, Shape
<1> QED BY <1>1, <1>2, <1>3

-----------------------------------------------------------------------------
(* What a step of a call keeps, whatever it does to its own session: it    *)
(* must not be the closer of an entry that stays, nor take a context that  *)
(* is another call's.                                                      *)
LEMMA CallStepKeeps ==
  ASSUME BridgeInv, NEW c \in Calls, NEW q, CallMoves(c, q), UNCHANGED context,
         WorldOK', MapsOK', Reset', PoolHandsOutLive',
         \A s \in Sessions : \/ sessions'[s] = None
                             \/ /\ sessions'[s] = sessions[s]
                                /\ call[c].pc = "close" => s # call[c].s
                             \/ sessions'[s].closing /\ q.pc = "close" /\ q.s = s
                             \/ /\ call[c].pc = "init" /\ sessions'[s].x = call[c].x
                                /\ ~sessions'[s].closing
                                /\ context[call[c].x].st = "open" /\ s = call[c].s,
         \A s \in Sessions : sessions'[s] # None =>
            \/ sessions[s] # None /\ sessions'[s].x = sessions[s].x
            \/ call[c].pc = "init" /\ sessions'[s].x = call[c].x,
         q.pc # "init",
         q.x = None \/ \E s \in Sessions : sessions[s] # None /\ q.x = sessions[s].x
  PROVE  BridgeInv'
<1> USE DEF BridgeInv
<1>1. Shapes' /\ CallsOK'
  BY DEF Shapes, CallMoves, CallsOK
<1>2. TypeOK'
  BY <1>1, Typed
<1>3. ASSUME NEW s \in Sessions PROVE PoolEntry(s)'
  <2> SUFFICES ASSUME sessions'[s] # None
               PROVE  IF sessions'[s].closing THEN HasCloser(s)' ELSE Heard(s)'
    BY DEF PoolEntry
  <2>1. CASE sessions'[s] = sessions[s] /\ (call[c].pc = "close" => s # call[c].s)
    <3>1. PoolEntry(s)
      BY DEF PoolEntries
    <3>2. HasCloser(s) => HasCloser(s)'
      BY <2>1 DEF HasCloser, CallMoves
    <3> QED BY <2>1, <3>1, <3>2 DEF PoolEntry, Heard
  <2>2. CASE sessions'[s].closing /\ q.pc = "close" /\ q.s = s
    BY <2>2 DEF HasCloser, CallMoves
  <2>3. CASE /\ call[c].pc = "init" /\ sessions'[s].x = call[c].x /\ ~sessions'[s].closing
             /\ context[call[c].x].st = "open" /\ s = call[c].s
    BY <2>3 DEF Heard, Making, Alone
  <2> QED BY <2>1, <2>2, <2>3
<1>4. ASSUME NEW d \in Calls PROVE Alone(d)'
  <2> SUFFICES ASSUME call'[d].pc = "init" PROVE Alone(d)'
    BY DEF Alone
  <2>1. d # c /\ call'[d] = call[d] /\ Alone(d) /\ call[d].x \in Contexts
    BY DEF CallMoves, Making, Shapes, Shape
  <2>2. \A s \in Sessions : sessions'[s] # None => sessions'[s].x # call[d].x
    BY <2>1 DEF Alone
  <2>3. \A e \in Calls \ {d} : call'[e].x # call[d].x
    <3> SUFFICES ASSUME NEW e \in Calls \ {d} PROVE call'[e].x # call[d].x
      OBVIOUS
    <3>1. CASE e # c
      BY <2>1, <3>1 DEF Alone, CallMoves
    <3>2. CASE e = c
      BY <2>1, <3>2, IdleCall DEF Alone, CallMoves
    <3> QED BY <3>1, <3>2
  <2> QED BY <2>1, <2>2, <2>3 DEF Alone
<1>5. Owned'
  BY DEF Owned
<1> QED BY <1>2, <1>3, <1>4, <1>1, <1>5 DEF PoolEntries, Making

(* A call that changes nothing but its own place.                          *)
LEMMA QuietCallKeeps ==
  ASSUME BridgeInv, NEW c \in Calls, NEW q \in CallRecords, Shape(q), call' = [call EXCEPT ![c] = q],
         UNCHANGED <<browser, context, pool, sessions, intentional>>,
         call[c].pc # "close", q.pc # "init", q.x = None
  PROVE  BridgeInv'
<1>1. CallMoves(c, q)
  BY Moved DEF BridgeInv
<1>2. WorldOK' /\ MapsOK' /\ Reset' /\ PoolHandsOutLive'
  BY Typed DEF BridgeInv, WorldOK, MapsOK, Reset, PoolHandsOutLive
<1> QED BY <1>1, <1>2, CallStepKeeps

-----------------------------------------------------------------------------
(* createContext.                                                          *)
LEMMA CreateFromFacts ==
  ASSUME BridgeInv, UNCHANGED pool, NEW c \in Calls, NEW op \in {"create", "ensure"}, NEW s \in Sessions,
         CreateFrom(c, op, s)
  PROVE  \E q \in CallRecords : /\ call' = [call EXCEPT ![c] = q] /\ Shape(q) /\ q.x = None
                                /\ q.pc \in {"idle", "newContext", "launch"}
<1> DEFINE q == IF sessions'[s] # None THEN Idle
                ELSE IF pool'[ModeOf[s]] # None
                     THEN [Idle EXCEPT !.op = op, !.s = s, !.pc = "newContext", !.b = pool'[ModeOf[s]]]
                     ELSE [Idle EXCEPT !.op = op, !.s = s, !.pc = "launch"]
<1>1. call' = [call EXCEPT ![c] = q]
  BY DEF CreateFrom
<1>2. pool'[ModeOf[s]] \in Browsers \cup {None}
  BY PoolAssumption DEF BridgeInv, TypeOK, PoolAssumption
<1>3. q \in CallRecords /\ q.x = None /\ q.pc \in {"idle", "newContext", "launch"}
  BY <1>2 DEF CallRecords, Idle
<1>4. Shape(q)
  BY <1>2, <1>3 DEF Shape, Idle
<1> QED BY <1>1, <1>3, <1>4

LEMMA CreateKeeps ==
  ASSUME BridgeInv, NEW c \in Calls, NEW op \in {"create", "ensure"}, NEW s \in Sessions,
         UNCHANGED <<browser, context, pool, sessions, intentional>>,
         CreateFrom(c, op, s), call[c].pc # "close"
  PROVE  BridgeInv'
BY CreateFromFacts, QuietCallKeeps

LEMMA PoolPlaced == ASSUME BridgeInv, NEW c \in Calls
                PROVE  call[c] \in CallRecords /\ Shape(call[c])
BY DEF BridgeInv, TypeOK, CallRecords, Shapes

LEMMA LaunchedKeeps ==
  ASSUME BridgeInv, NEW c \in Calls, NEW b \in Browsers, Launched(c, b) PROVE BridgeInv'
<1> DEFINE m == ModeOf[call[c].s]
           q == [call[c] EXCEPT !.pc = "newContext", !.b = b]
<1> USE DEF BridgeInv
<1>1. /\ call[c].pc = "launch" /\ call[c] \in CallRecords /\ call[c].s \in Sessions /\ m \in Modes
      /\ browser[b] = NoBrowser
  BY PoolPlaced, PoolAssumption DEF Launched, Shape, PoolAssumption, FreshBrowser
<1>2. /\ q \in CallRecords /\ q.pc = "newContext" /\ q.s = call[c].s /\ q.b = b /\ q.x = call[c].x
      /\ call' = [call EXCEPT ![c] = q]
  BY <1>1 DEF Launched, CallRecords
<1> HIDE DEF q
<1>3. CallMoves(c, q)
  BY <1>1, <1>2, Moved DEF Shape
<1>4. /\ WorldOK' /\ MapsOK' /\ UNCHANGED <<context, sessions, intentional>>
      /\ browser'[b].st = "up" /\ browser'[b].mode = m
      /\ \A a \in Browsers \ {b} : browser'[a] = browser[a]
      /\ pool'[m] = b /\ \A n \in Modes \ {m} : pool'[n] = pool[n]
  BY <1>1, Typed DEF Launched, WorldOK, MapsOK
<1>5. Reset'
  BY <1>4 DEF Reset
<1>6. PoolHandsOutLive'
  BY <1>1, <1>4 DEF PoolHandsOutLive, NoBrowser, TypeOK
<1>7. PoolEntries' /\ Making'
  <2>1. \A d \in Calls : /\ call'[d].pc \in {"init", "close"} \/ call[d].pc \in {"init", "close"} => call'[d] = call[d]
                         /\ call'[d].x = call[d].x
    BY <1>1, <1>2, <1>3 DEF CallMoves
  <2>2. PoolEntries'
    BY <1>4, <2>1 DEF PoolEntries, PoolEntry, HasCloser, Heard
  <2>3. Making'
    <3> SUFFICES ASSUME NEW d \in Calls, call'[d].pc = "init" PROVE Alone(d)'
      BY DEF Making, Alone
    <3>1. call'[d] = call[d] /\ Alone(d)
      BY <2>1 DEF Making
    <3> QED BY <1>4, <2>1, <3>1 DEF Alone
  <2> QED BY <2>2, <2>3
<1>8. Shapes' /\ CallsOK' /\ Owned'
  BY <1>3, <1>4 DEF Shapes, CallMoves, CallsOK, Owned
<1> QED BY <1>4, <1>5, <1>6, <1>7, <1>8, Typed

LEMMA CreateFailsKeeps == ASSUME BridgeInv, NEW c \in Calls, CreateFails(c) PROVE BridgeInv'
BY IdleCall, QuietCallKeeps DEF CreateFails

LEMMA NewContextKeeps ==
  ASSUME BridgeInv, NEW c \in Calls, NEW x \in Contexts, NewContext(c, x) PROVE BridgeInv'
<1> DEFINE q == [call[c] EXCEPT !.pc = "init", !.x = x]
<1> USE DEF BridgeInv
<1>1. /\ call[c].pc = "newContext" /\ call[c] \in CallRecords /\ call[c].s \in Sessions
      /\ call[c].b \in Browsers
      /\ \A d \in Calls : call[d].x # x /\ \A s \in Sessions : sessions[s] # None => sessions[s].x # x
  BY PoolPlaced DEF NewContext, Shape, FreshContext
<1>2. /\ q \in CallRecords /\ q.pc = "init" /\ q.s = call[c].s /\ q.x = x
      /\ call' = [call EXCEPT ![c] = q]
  BY <1>1 DEF NewContext, CallRecords
<1> HIDE DEF q
<1>3. CallMoves(c, q)
  BY <1>1, <1>2, Moved DEF Shape
<1>4. /\ WorldOK' /\ MapsOK' /\ UNCHANGED <<browser, pool, sessions, intentional>>
      /\ context'[x].of = call[c].s /\ \A y \in Contexts \ {x} : context'[y] = context[y]
  BY <1>1, Typed DEF NewContext, WorldOK, MapsOK, ContextRecords
<1>5. Reset' /\ PoolHandsOutLive'
  BY <1>4 DEF Reset, PoolHandsOutLive
<1>6. PoolEntries'
  <2> SUFFICES ASSUME NEW s \in Sessions, sessions[s] # None PROVE PoolEntry(s)'
    BY <1>4 DEF PoolEntries, PoolEntry
  <2>1. sessions[s].x \in Contexts \ {x}
    BY <1>1 DEF TypeOK
  <2>2. HasCloser(s) => HasCloser(s)'
    BY <1>1, <1>3 DEF HasCloser, CallMoves
  <2> QED BY <1>4, <2>1, <2>2 DEF PoolEntries, PoolEntry, Heard
<1>7. ASSUME NEW d \in Calls, call'[d].pc = "init" PROVE Alone(d)'
  <2>1. CASE d = c
    BY <1>1, <1>2, <1>3, <1>4, <2>1 DEF Alone, CallMoves
  <2>2. CASE d # c
    <3>1. call'[d] = call[d] /\ Alone(d) /\ call[d].x \in Contexts \ {x}
      BY <1>1, <1>3, <1>7, <2>2 DEF CallMoves, Making, Shapes, Shape
    <3> QED BY <1>2, <1>3, <1>4, <1>7, <3>1 DEF Alone, CallMoves
  <2> QED BY <2>1, <2>2
<1>8. Making'
  BY <1>7 DEF Making, Alone
<1>9. Shapes' /\ CallsOK' /\ Owned'
  BY <1>1, <1>3, <1>4 DEF Shapes, CallMoves, CallsOK, Owned
<1> QED BY <1>4, <1>5, <1>6, <1>8, <1>9, Typed

LEMMA RegisteredKeeps == ASSUME BridgeInv, NEW c \in Calls, Registered(c) PROVE BridgeInv'
<1> USE DEF BridgeInv
<1>1. /\ call[c].pc = "init" /\ context[call[c].x].st = "open"
      /\ call[c].s \in Sessions /\ call[c].x \in Contexts
  BY PoolPlaced DEF Registered, Shape
<1>2. CallMoves(c, Idle) /\ UNCHANGED context
  BY IdleCall, Moved DEF Registered
<1>3. /\ WorldOK' /\ MapsOK' /\ UNCHANGED <<browser, pool>>
      /\ sessions'[call[c].s].x = call[c].x /\ ~sessions'[call[c].s].closing
      /\ \A s \in Sessions \ {call[c].s} : sessions'[s] = sessions[s]
  BY <1>1, Typed DEF Registered, WorldOK, MapsOK
<1>4. Reset' /\ PoolHandsOutLive'
  BY <1>3 DEF Reset, PoolHandsOutLive
<1> QED BY <1>1, <1>2, <1>3, <1>4, IdleCall, CallStepKeeps

-----------------------------------------------------------------------------
(* destroyContext, ensureHealthyContext.                                   *)
LEMMA DestroyKeeps ==
  ASSUME BridgeInv, NEW c \in Calls, NEW op \in {"ensure", "destroy"}, NEW s \in Sessions,
         call[c].pc # "close", DestroyFrom(c, op, s)
  PROVE  BridgeInv'
<1> USE DEF BridgeInv
<1>1. CASE sessions[s] = None
  <2>1. CASE op = "ensure"
    BY <1>1, <2>1, CreateKeeps DEF DestroyFrom
  <2>2. CASE op # "ensure"
    BY <1>1, <2>2, IdleCall, QuietCallKeeps DEF DestroyFrom
  <2> QED BY <2>1, <2>2
<1>2. CASE sessions[s] # None
  <2> DEFINE q == [Idle EXCEPT !.op = op, !.s = s, !.pc = "close", !.x = sessions[s].x]
  <2>1. sessions[s] \in [x : Contexts, closing : BOOLEAN]
    BY <1>2 DEF TypeOK
  <2>2. /\ q \in CallRecords /\ q.pc = "close" /\ q.s = s /\ q.x = sessions[s].x
        /\ call' = [call EXCEPT ![c] = q] /\ UNCHANGED <<browser, context, pool, intentional>>
        /\ sessions' = [sessions EXCEPT ![s].closing = TRUE]
    BY <1>2, <2>1 DEF DestroyFrom, Idle, CallRecords
  <2> HIDE DEF q
  <2>3. CallMoves(c, q)
    BY <2>1, <2>2, Moved DEF Shape
  <2>4. /\ sessions'[s] \in [x : Contexts, closing : BOOLEAN]
        /\ sessions'[s].closing /\ sessions'[s].x = sessions[s].x
        /\ \A t \in Sessions \ {s} : sessions'[t] = sessions[t]
    BY <2>1, <2>2 DEF TypeOK
  <2>5. WorldOK' /\ MapsOK' /\ Reset' /\ PoolHandsOutLive'
    BY <2>2, <2>4, Typed DEF WorldOK, MapsOK, Reset, PoolHandsOutLive
  <2> QED BY <1>2, <2>2, <2>3, <2>4, <2>5, CallStepKeeps
<1> QED BY <1>1, <1>2

LEMMA EnsureKeeps ==
  ASSUME BridgeInv, NEW c \in Calls, NEW s \in Sessions, EnsureHealthyContext(c, s) PROVE BridgeInv'
<1>1. call[c].pc # "close"
  BY IdleCall DEF EnsureHealthyContext
<1> DEFINE q == [Idle EXCEPT !.op = "ensure", !.s = s, !.pc = "check"]
<1>2. q \in CallRecords /\ q.pc = "check" /\ q.s = s /\ q.x = None
  BY DEF Idle, CallRecords
<1>3. Shape(q)
  BY <1>2 DEF Shape
<1> QED BY <1>1, <1>2, <1>3, DestroyKeeps, QuietCallKeeps DEF EnsureHealthyContext

LEMMA CheckedKeeps == ASSUME BridgeInv, NEW c \in Calls, Checked(c) PROVE BridgeInv'
<1>1. call[c].pc = "check" /\ call[c].s \in Sessions
  BY PoolPlaced DEF Checked, Shape
<1> QED BY <1>1, IdleCall, DestroyKeeps, QuietCallKeeps DEF Checked

LEMMA SettledKeeps == ASSUME BridgeInv, NEW c \in Calls, Settled(c) PROVE BridgeInv'
<1>1. call[c].pc = "settle" /\ call[c].s \in Sessions
  BY PoolPlaced DEF Settled, Shape
<1> QED BY <1>1, IdleCall, CreateKeeps, QuietCallKeeps DEF Settled

(* shutdownBrowserIfIdle takes the browser it closes out of the pool.      *)
LEMMA ShutdownFacts ==
  ASSUME BridgeInv, NEW m \in Modes, ShutdownIfIdle(m, sessions'),
         context' \in [Contexts -> ContextRecords],
         sessions' \in [Sessions -> [x : Contexts, closing : BOOLEAN] \cup {None}]
  PROVE  WorldOK' /\ MapsOK' /\ Reset' /\ PoolHandsOutLive'
<1> USE DEF BridgeInv
<1>1. CASE IdleBrowser(m, sessions') = None
  BY <1>1, Typed DEF ShutdownIfIdle, WorldOK, MapsOK, Reset, PoolHandsOutLive
<1>2. CASE IdleBrowser(m, sessions') # None
  <2>1. pool[m] \in Browsers /\ pool[m] # None /\ IdleBrowser(m, sessions') = pool[m]
    BY <1>2 DEF IdleBrowser, TypeOK
  <2>2. /\ browser' = [browser EXCEPT ![pool[m]].close = "asked"]
        /\ pool' = [pool EXCEPT ![m] = None] /\ intentional' = intentional \cup {m}
    BY <1>2, <2>1 DEF ShutdownIfIdle
  <2>3. browser[pool[m]].st # "gone"
    BY <2>1 DEF PoolHandsOutLive
  <2>4. \A a \in Browsers : /\ browser'[a].st = browser[a].st /\ browser'[a].mode = browser[a].mode
                            /\ a # pool[m] => browser'[a] = browser[a]
    BY <2>1, <2>2 DEF TypeOK
  <2>5. WorldOK' /\ MapsOK'
    BY <2>1, <2>2, Typed DEF WorldOK, MapsOK
  <2>6. Reset'
    BY <2>3, <2>4 DEF Reset
  <2>7. PoolHandsOutLive'
    BY <2>2, <2>4 DEF PoolHandsOutLive, TypeOK
  <2> QED BY <2>5, <2>6, <2>7
<1> QED BY <1>1, <1>2

LEMMA CloseReturnsKeeps == ASSUME BridgeInv, NEW c \in Calls, CloseReturns(c) PROVE BridgeInv'
<1> USE DEF BridgeInv
<1> DEFINE s == call[c].s
           q == [Idle EXCEPT !.op = call[c].op, !.s = s, !.pc = "settle",
                             !.b = IdleBrowser(ModeOf[s], sessions')]
<1>1. /\ call[c].pc = "close" /\ s \in Sessions /\ ModeOf[s] \in Modes /\ call[c] \in CallRecords
      /\ sessions' = [sessions EXCEPT ![s] = None] /\ UNCHANGED context
      /\ ShutdownIfIdle(ModeOf[s], sessions')
  BY PoolPlaced, PoolAssumption DEF CloseReturns, Shape, PoolAssumption
<1>2. /\ sessions' \in [Sessions -> [x : Contexts, closing : BOOLEAN] \cup {None}]
      /\ sessions'[s] = None /\ \A t \in Sessions \ {s} : sessions'[t] = sessions[t]
  BY <1>1 DEF TypeOK
<1>3. WorldOK' /\ MapsOK' /\ Reset' /\ PoolHandsOutLive'
  <2>1. context' \in [Contexts -> ContextRecords]
    BY <1>1, Typed DEF WorldOK
  <2> HIDE DEF s
  <2> QED BY <1>1, <1>2, <2>1, ShutdownFacts
<1>4. IdleBrowser(ModeOf[s], sessions') \in Browsers \cup {None}
  BY <1>1 DEF IdleBrowser, TypeOK
<1>5. /\ q \in CallRecords /\ q.pc = "settle" /\ q.s = s /\ q.x = None
      /\ call' = [call EXCEPT ![c] = q]
  BY <1>1, <1>4 DEF CloseReturns, Idle, CallRecords
<1> HIDE DEF q
<1>6. CallMoves(c, q)
  BY <1>1, <1>5, Moved DEF Shape
<1> QED BY <1>1, <1>2, <1>3, <1>5, <1>6, CallStepKeeps

-----------------------------------------------------------------------------
(* closeAll.                                                               *)
LEMMA CloseOneKeeps ==
  ASSUME BridgeInv, NEW c \in Calls, call[c].pc # "close", NEW m \in Modes, NEW b \in Browsers,
         NEW todo \in SUBSET (Modes \X Browsers), CloseOne(c, m, b, todo)
  PROVE  BridgeInv'
<1> USE DEF BridgeInv
<1> DEFINE q == [Idle EXCEPT !.op = "closeAll", !.pc = "all", !.b = b, !.todo = todo \ {<<m, b>>}]
<1>1. /\ q \in CallRecords /\ q.pc = "all" /\ q.b = b /\ q.x = None /\ call' = [call EXCEPT ![c] = q]
      /\ UNCHANGED <<context, sessions>>
  BY DEF CloseOne, Idle, CallRecords
<1> HIDE DEF q
<1>2. CallMoves(c, q)
  BY <1>1, Moved DEF Shape
<1>3. /\ \A a \in Browsers : /\ browser'[a].st = browser[a].st /\ browser'[a].mode = browser[a].mode
                             /\ browser[a].st = "gone" => browser'[a] = browser[a]
      /\ WorldOK' /\ MapsOK'
      /\ \A n \in Modes : pool'[n] = None \/ pool'[n] = pool[n]
  BY <1>1, Typed DEF CloseOne, WorldOK, MapsOK
<1>4. Reset' /\ PoolHandsOutLive'
  BY <1>3 DEF Reset, PoolHandsOutLive, TypeOK
<1> QED BY <1>1, <1>2, <1>3, <1>4, CallStepKeeps

LEMMA ClearSessionsKeeps ==
  ASSUME BridgeInv, NEW c \in Calls, ClearSessions(c) PROVE BridgeInv'
<1> USE DEF BridgeInv
<1> DEFINE q == [Idle EXCEPT !.op = "closeAll", !.pc = "done"]
<1>1. /\ q \in CallRecords /\ q.pc = "done" /\ q.x = None /\ call' = [call EXCEPT ![c] = q]
      /\ UNCHANGED <<browser, context, pool, intentional>> /\ sessions' = [s \in Sessions |-> None]
  BY DEF ClearSessions, Idle, CallRecords
<1> HIDE DEF q
<1>2. CallMoves(c, q)
  BY <1>1, Moved DEF Shape
<1>3. WorldOK' /\ MapsOK' /\ Reset' /\ PoolHandsOutLive'
  BY <1>1, Typed DEF WorldOK, MapsOK, Reset, PoolHandsOutLive
<1> QED BY <1>1, <1>2, <1>3, CallStepKeeps

LEMMA CloseAllKeeps ==
  ASSUME BridgeInv, NEW c \in Calls, CloseAll(c) \/ CloseAllNext(c) PROVE BridgeInv'
<1>1. call[c].pc # "close" /\ call[c].todo \in SUBSET (Modes \X Browsers)
  BY IdleCall, PoolPlaced DEF CloseAll, CloseAllNext, CallRecords
<1> DEFINE todo == {p \in Modes \X Browsers : pool[p[1]] = p[2]}
<1>2. CASE CloseAll(c)
  <2>1. CASE ClearSessions(c)
    BY <2>1, ClearSessionsKeeps
  <2>2. CASE ~ClearSessions(c)
    <3>1. PICK p \in todo : CloseOne(c, p[1], p[2], todo)
      BY <1>2, <2>2 DEF CloseAll
    <3>2. p[1] \in Modes /\ p[2] \in Browsers /\ todo \in SUBSET (Modes \X Browsers)
      OBVIOUS
    <3> QED BY <1>1, <3>1, <3>2, CloseOneKeeps
  <2> QED BY <2>1, <2>2
<1>3. CASE CloseAllNext(c)
  BY <1>1, <1>3, ClearSessionsKeeps, CloseOneKeeps DEF CloseAllNext
<1> QED BY <1>2, <1>3

-----------------------------------------------------------------------------
(* Playwright: contexts go, and the event of it comes unless nobody        *)
(* listens yet.                                                            *)
LEMMA ContextsGo ==
  ASSUME BridgeInv, UNCHANGED <<sessions, call>>, WorldOK', MapsOK', Reset', PoolHandsOutLive',
         \A x \in Contexts : \/ context'[x] = context[x]
                             \/ context[x].st = "open" /\ context'[x] = ClosedContext(x)
  PROVE  BridgeInv'
<1> USE DEF BridgeInv
<1>1. Shapes' /\ CallsOK'
  BY Typed DEF Shapes, CallsOK
<1>2. ASSUME NEW s \in Sessions, sessions[s] # None, ~sessions[s].closing PROVE Heard(s)'
  <2> DEFINE x == sessions[s].x
  <2>1. x \in Contexts /\ context[x].st \in {"open", "closed"} /\ context[x].of = s
    BY <1>2 DEF TypeOK, PoolEntries, PoolEntry, Heard
  <2>2. ~\E c \in Calls : call[c].pc = "init" /\ call[c].x = x
    BY <1>2 DEF Making, Alone
  <2>3. context[x].st = "open" /\ context'[x] = ClosedContext(x)
          => context'[x].st = "closed" /\ context'[x].of = s
    BY <2>1, <2>2 DEF ClosedContext, TypeOK
  <2> QED BY <2>1, <2>3 DEF Heard
<1>3. PoolEntries'
  BY <1>2 DEF PoolEntries, PoolEntry, HasCloser
<1>4. ASSUME NEW c \in Calls, call[c].pc = "init" PROVE Alone(c)'
  <2> DEFINE x == call[c].x
  <2>1. Alone(c) /\ x \in Contexts
    BY <1>4 DEF Making, Shapes, Shape
  <2>2. context'[x] = context[x] \/ context'[x] = NoContext
    BY <1>4, <2>1 DEF ClosedContext
  <2>3. NoContext.st # "open"
    BY DEF NoContext
  <2> QED BY <1>4, <2>1, <2>2, <2>3 DEF Alone
<1>5. Making'
  BY <1>4 DEF Making, Alone
<1>6. Owned'
  <2>1. \A x \in Contexts : ClosedContext(x) = NoContext \/ ClosedContext(x).of = context[x].of
    BY DEF ClosedContext, TypeOK
  <2>2. NoContext.st = "gone"
    BY DEF NoContext
  <2> QED BY <2>1, <2>2 DEF Owned
<1> QED BY <1>1, <1>3, <1>5, <1>6, Typed

LEMMA ClosedIsContext ==
  ASSUME BridgeInv, NEW x \in Contexts
  PROVE  ClosedContext(x) \in ContextRecords
BY DEF BridgeInv, TypeOK, ClosedContext, NoContext, ContextRecords

LEMMA ContextDiesKeeps == ASSUME BridgeInv, NEW x \in Contexts, ContextDies(x) PROVE BridgeInv'
<1>1. /\ context[x].st = "open" /\ context' = [context EXCEPT ![x] = ClosedContext(x)]
      /\ UNCHANGED <<browser, pool, sessions, intentional, call>>
  BY DEF ContextDies
<1>2. WorldOK' /\ MapsOK' /\ Reset' /\ PoolHandsOutLive'
  BY <1>1, ClosedIsContext, Typed DEF BridgeInv, WorldOK, MapsOK, Reset, PoolHandsOutLive
<1>3. \A y \in Contexts : context'[y] = context[y] \/ (context[y].st = "open" /\ context'[y] = ClosedContext(y))
  BY <1>1 DEF BridgeInv, TypeOK
<1> QED BY <1>1, <1>2, <1>3, ContextsGo

LEMMA CloseContextKeeps == ASSUME BridgeInv, NEW c \in Calls, CloseContext(c) PROVE BridgeInv'
<1>1. call[c].x \in Contexts
  BY PoolPlaced DEF CloseContext, Shape
<1>2. ContextDies(call[c].x)
  BY DEF CloseContext, ContextDies
<1> QED BY <1>1, <1>2, ContextDiesKeeps

(* A browser goes, its contexts with it.                                   *)
LEMMA BrowserGoes ==
  ASSUME BridgeInv, NEW b \in Browsers, browser[b].st # "gone",
         NEW r \in [st : {"down"}, mode : {browser[b].mode}, close : {"no", "asked", "done"}],
         browser' = [browser EXCEPT ![b] = r],
         context' = ContextsWithout(b), UNCHANGED <<pool, sessions, intentional, call>>
  PROVE  BridgeInv'
<1> USE DEF BridgeInv
<1>1. \A y \in Contexts : \/ context'[y] = context[y]
                          \/ context[y].st = "open" /\ context'[y] = ClosedContext(y)
  BY DEF ContextsWithout
<1>2. WorldOK' /\ MapsOK'
  <2>1. context' \in [Contexts -> ContextRecords]
    BY ClosedIsContext DEF ContextsWithout, TypeOK, ContextRecords
  <2>2. r \in [st : {"gone", "up", "down"}, mode : Modes \cup {None}, close : {"no", "asked", "done"}]
    BY DEF TypeOK
  <2> QED BY <2>1, <2>2, Typed DEF WorldOK, MapsOK
<1>3. Reset'
  BY DEF Reset, TypeOK
<1>4. PoolHandsOutLive'
  BY DEF PoolHandsOutLive, TypeOK
<1> QED BY <1>1, <1>2, <1>3, <1>4, ContextsGo

LEMMA BrowserDiesKeeps ==
  ASSUME BridgeInv, NEW b \in Browsers, BrowserDies(b) \/ BrowserCloses(b) PROVE BridgeInv'
<1> DEFINE r == [browser[b] EXCEPT !.st = "down", !.close = IF BrowserDies(b) THEN @ ELSE "done"]
<1>1. /\ browser[b] \in [st : {"gone", "up", "down"}, mode : Modes \cup {None}, close : {"no", "asked", "done"}]
      /\ browser[b].st = "gone" => browser[b].close = "no"
  BY DEF BridgeInv, TypeOK, Reset, NoBrowser
<1>2. browser[b].st # "gone"
  BY <1>1 DEF BrowserDies, BrowserCloses
<1>3. r \in [st : {"down"}, mode : {browser[b].mode}, close : {"no", "asked", "done"}]
  BY <1>1
<1>4. browser' = [browser EXCEPT ![b] = r]
  BY <1>1 DEF BrowserDies, BrowserCloses, BridgeInv, TypeOK
<1>5. context' = ContextsWithout(b) /\ UNCHANGED <<pool, sessions, intentional, call>>
  BY DEF BrowserDies, BrowserCloses
<1> HIDE DEF r
<1> QED BY <1>2, <1>3, <1>4, <1>5, BrowserGoes

LEMMA BrowserCloseFailsKeeps ==
  ASSUME BridgeInv, NEW b \in Browsers, BrowserCloseFails(b) PROVE BridgeInv'
<1> USE DEF BridgeInv
<1>1. /\ browser[b].st = "up" /\ browser' = [browser EXCEPT ![b].close = "no"]
      /\ intentional' = intentional \ {browser[b].mode} /\ UNCHANGED <<context, pool, sessions, call>>
  BY DEF BrowserCloseFails
<1>2. /\ WorldOK' /\ MapsOK'
      /\ \A a \in Browsers : /\ browser'[a].st = browser[a].st /\ browser'[a].mode = browser[a].mode
                             /\ browser[a].st = "gone" => browser'[a] = browser[a]
  BY <1>1, Typed DEF WorldOK, MapsOK
<1>3. Reset' /\ PoolHandsOutLive'
  BY <1>1, <1>2 DEF Reset, PoolHandsOutLive, TypeOK
<1> QED BY <1>1, <1>2, <1>3, ContextsGo

-----------------------------------------------------------------------------
(* The event handlers: a context or a browser is forgotten, and with it    *)
(* the entries it may have been about.                                     *)
LEMMA EventKeeps ==
  ASSUME BridgeInv, UNCHANGED call, WorldOK', MapsOK', Reset', PoolHandsOutLive',
         \A s \in Sessions : sessions'[s] = None \/ sessions'[s] = sessions[s],
         \A x \in Contexts : \/ context'[x] = context[x]
                             \/ /\ context[x].st = "closed" /\ context'[x] = NoContext
                                /\ context[x].of \in Sessions =>
                                     LET s == context[x].of
                                     IN  sessions'[s] = None \/ sessions'[s].closing
  PROVE  BridgeInv'
<1> USE DEF BridgeInv
<1>1. Shapes' /\ CallsOK'
  BY Typed DEF Shapes, CallsOK
<1>2. ASSUME NEW s \in Sessions, sessions'[s] # None PROVE PoolEntry(s)'
  <2>1. sessions'[s] = sessions[s] /\ sessions[s].x \in Contexts /\ PoolEntry(s)
    BY <1>2 DEF TypeOK, PoolEntries
  <2>2. CASE sessions[s].closing
    BY <2>1, <2>2, <1>2 DEF PoolEntry, HasCloser
  <2>3. CASE ~sessions[s].closing
    <3>1. Heard(s)
      BY <1>2, <2>1, <2>3 DEF PoolEntry
    <3>2. context'[sessions[s].x] = context[sessions[s].x]
      BY <1>2, <2>1, <2>3, <3>1 DEF Heard
    <3> QED BY <1>2, <2>1, <2>3, <3>1, <3>2 DEF PoolEntry, Heard
  <2> QED BY <2>2, <2>3
<1>3. ASSUME NEW c \in Calls, call[c].pc = "init" PROVE Alone(c)'
  <2>1. Alone(c) /\ call[c].x \in Contexts
    BY <1>3 DEF Making, Shapes, Shape
  <2>2. context'[call[c].x] = context[call[c].x] \/ context'[call[c].x].st # "open"
    BY <2>1 DEF NoContext
  <2> QED BY <1>3, <2>1, <2>2 DEF Alone
<1>4. PoolEntries' /\ Making'
  BY <1>2, <1>3 DEF PoolEntries, PoolEntry, Making, Alone
<1>5. Owned'
  BY DEF Owned, NoContext
<1> QED BY <1>1, <1>4, <1>5, Typed

LEMMA ContextClosedKeeps == ASSUME BridgeInv, NEW x \in Contexts, ContextClosed(x) PROVE BridgeInv'
<1> USE DEF BridgeInv
<1> DEFINE s == context[x].of
<1>1. /\ context[x].st = "closed" /\ context' = [context EXCEPT ![x] = NoContext] /\ UNCHANGED call
  BY DEF ContextClosed
<1>2. context' \in [Contexts -> ContextRecords]
      /\ context'[x] = NoContext /\ \A y \in Contexts \ {x} : context'[y] = context[y]
  BY <1>1 DEF TypeOK, NoContext, ContextRecords
<1>3. CASE s \in Sessions /\ sessions[s] # None /\ ~sessions[s].closing
  <2>1. sessions' = [sessions EXCEPT ![s] = None] /\ ShutdownIfIdle(ModeOf[s], sessions')
    BY <1>3 DEF ContextClosed
  <2>2. /\ sessions' \in [Sessions -> [x : Contexts, closing : BOOLEAN] \cup {None}]
        /\ sessions'[s] = None /\ \A t \in Sessions \ {s} : sessions'[t] = sessions[t]
    BY <1>3, <2>1 DEF TypeOK
  <2>3. WorldOK' /\ MapsOK' /\ Reset' /\ PoolHandsOutLive'
    BY <1>2, <1>3, <2>1, <2>2, PoolAssumption, ShutdownFacts DEF PoolAssumption
  <2> QED BY <1>1, <1>2, <1>3, <2>2, <2>3, EventKeeps
<1>4. CASE UNCHANGED <<browser, pool, sessions, intentional>>
           /\ (s \in Sessions => sessions[s] = None \/ sessions[s].closing)
  <2>1. WorldOK' /\ MapsOK' /\ Reset' /\ PoolHandsOutLive'
    BY <1>2, <1>4, Typed DEF WorldOK, MapsOK, Reset, PoolHandsOutLive
  <2> QED BY <1>1, <1>2, <1>4, <2>1, EventKeeps
<1>5. s \in Sessions
  BY <1>1 DEF Owned
<1> QED BY <1>3, <1>4, <1>5 DEF ContextClosed

LEMMA DisconnectedKeeps == ASSUME BridgeInv, NEW b \in Browsers, Disconnected(b) PROVE BridgeInv'
<1> USE DEF BridgeInv
<1> DEFINE m == browser[b].mode
<1>1. /\ browser[b].st = "down" /\ browser' = [browser EXCEPT ![b] = NoBrowser]
      /\ pool' = [pool EXCEPT ![m] = None] /\ UNCHANGED <<context, call>>
      /\ intentional' \subseteq intentional
      /\ \/ UNCHANGED sessions
         \/ sessions' = [s \in Sessions |-> IF ModeOf[s] = m THEN None ELSE sessions[s]]
  BY DEF Disconnected
<1>2. /\ sessions' \in [Sessions -> [x : Contexts, closing : BOOLEAN] \cup {None}]
      /\ \A s \in Sessions : sessions'[s] = None \/ sessions'[s] = sessions[s]
  BY <1>1 DEF TypeOK
<1>3. /\ browser'[b] = NoBrowser /\ \A a \in Browsers \ {b} : browser'[a] = browser[a]
      /\ WorldOK' /\ MapsOK'
  BY <1>1, <1>2, Typed DEF WorldOK, MapsOK, NoBrowser
<1>4. Reset'
  BY <1>3 DEF Reset
<1>5. PoolHandsOutLive'
  <2> SUFFICES ASSUME NEW n \in Modes, pool'[n] # None
               PROVE  browser'[pool'[n]].st # "gone" /\ browser'[pool'[n]].mode = n
    BY DEF PoolHandsOutLive
  <2>1. n # m /\ pool'[n] = pool[n] /\ pool[n] \in Browsers
    BY <1>1 DEF TypeOK
  <2>2. browser[pool[n]].st # "gone" /\ browser[pool[n]].mode = n
    BY <2>1 DEF PoolHandsOutLive
  <2>3. pool[n] # b
    BY <2>1, <2>2
  <2> QED BY <1>3, <2>1, <2>2, <2>3
<1> QED BY <1>1, <1>2, <1>3, <1>4, <1>5, EventKeeps

-----------------------------------------------------------------------------
(* The theorems.                                                           *)
LEMMA Inductive == /\ Init => BridgeInv
                   /\ BridgeInv /\ [Next]_vars => BridgeInv'
<1>1. ASSUME Init PROVE BridgeInv
  <2> USE <1>1 DEF Init
  <2>1. CallsOK /\ Shapes
    BY IdleCall DEF CallsOK, Shapes
  <2>2. WorldOK /\ MapsOK
    BY DEF WorldOK, MapsOK, NoBrowser, NoContext, ContextRecords
  <2>3. Reset /\ PoolHandsOutLive /\ PoolEntries
    BY DEF Reset, PoolHandsOutLive, PoolEntries, PoolEntry, NoBrowser
  <2>5. Owned
    BY DEF Owned, NoContext
  <2>4. Making
    BY IdleCall DEF Making, Alone
  <2> QED BY <2>1, <2>2, <2>3, <2>4, <2>5, Typed DEF BridgeInv
<1>2. ASSUME BridgeInv, [Next]_vars PROVE BridgeInv'
  <2>1. ASSUME NEW c \in Calls, CallStep(c) PROVE BridgeInv'
    <3>1. ASSUME NEW s \in Sessions, CreateContext(c, s) PROVE BridgeInv'
      BY <1>2, <3>1, IdleCall, CreateKeeps DEF CreateContext
    <3>2. ASSUME NEW s \in Sessions, DestroyContext(c, s) PROVE BridgeInv'
      BY <1>2, <3>2, IdleCall, DestroyKeeps DEF DestroyContext
    <3> QED BY <1>2, <2>1, <3>1, <3>2, EnsureKeeps, LaunchedKeeps, CreateFailsKeeps, NewContextKeeps,
               RegisteredKeeps, CheckedKeeps, CloseContextKeeps, CloseReturnsKeeps, SettledKeeps,
               CloseAllKeeps DEF CallStep
  <2>2. ASSUME External PROVE BridgeInv'
    BY <1>2, <2>2, ContextDiesKeeps, BrowserDiesKeeps, BrowserCloseFailsKeeps DEF External
  <2>3. ASSUME Event PROVE BridgeInv'
    BY <1>2, <2>3, ContextClosedKeeps, DisconnectedKeeps DEF Event
  <2>4. ASSUME UNCHANGED vars PROVE BridgeInv'
    <3>1. WorldOK' /\ MapsOK' /\ Reset' /\ PoolHandsOutLive' /\ UNCHANGED <<context, sessions, call>>
      BY <1>2, <2>4, Typed DEF BridgeInv, WorldOK, MapsOK, Reset, PoolHandsOutLive, vars
    <3> QED BY <1>2, <3>1, ContextsGo
  <2> QED BY <1>2, <2>1, <2>2, <2>3, <2>4 DEF Next
<1> QED BY <1>1, <1>2

(* Whatever calls, closings, deaths and events interleave                  *)
(* (playwright-bridge.ts:70-300): the invariant.                           *)
THEOREM BridgeCorrect == Spec => []BridgeInv
BY Inductive, PTL DEF Spec

(* The pool never hands out a browser whose disconnection has been handled *)
(* (playwright-bridge.ts:80-83, 110-111).                                  *)
THEOREM PoolIsLive == Spec => []PoolHandsOutLive
<1>1. BridgeInv => PoolHandsOutLive
  BY DEF BridgeInv
<1> QED BY <1>1, BridgeCorrect, PTL

(* A session in the map has a context that is open or whose end is still   *)
(* to be heard, or a call is about to take the session out                 *)
(* (playwright-bridge.ts:110-127, 184-198).                                *)
THEOREM NoDeathUnnoticed == Spec => []NoUnnoticedDeath
<1>1. BridgeInv => NoUnnoticedDeath
  BY DEF BridgeInv, PoolEntries, PoolEntry, HasCloser, Heard, NoUnnoticedDeath
<1> QED BY <1>1, BridgeCorrect, PTL


-----------------------------------------------------------------------------
(* Sequences.                                                              *)
LEMMA RemovedAt ==
  ASSUME NEW S, NEW s \in Seq(S), NEW i \in DOMAIN s
  PROVE  /\ RemoveAt(s, i) \in Seq(S)
         /\ Len(RemoveAt(s, i)) = Len(s) - 1
         /\ \A j \in 1 .. Len(s) - 1 : RemoveAt(s, i)[j] = IF j < i THEN s[j] ELSE s[j + 1]
<1> DEFINE front == SubSeq(s, 1, i - 1)
           back == SubSeq(s, i + 1, Len(s))
<1>1. /\ front \in Seq(S) /\ Len(front) = i - 1 /\ \A j \in 1 .. i - 1 : front[j] = s[j]
      /\ back \in Seq(S) /\ Len(back) = Len(s) - i /\ \A j \in 1 .. Len(s) - i : back[j] = s[i + j]
  OBVIOUS
<1> HIDE DEF front, back
<1>2. /\ front \o back \in Seq(S) /\ Len(front \o back) = Len(s) - 1
      /\ \A j \in 1 .. Len(s) - 1 : (front \o back)[j] = IF j < i THEN s[j] ELSE s[j + 1]
  BY <1>1
<1>3. QED BY <1>2 DEF RemoveAt, front, back

(* A set of numbers has a least one. *)
LEMMA LeastNumber ==
  ASSUME NEW S \in SUBSET Nat, S # {}
  PROVE  \E x \in S : \A y \in S : x <= y
<1> DEFINE Less == {p \in Nat \X Nat : p[1] < p[2]}
<1>1. IsWellFoundedOn(Less, Nat)
  BY NatLessThanWellFounded DEF OpToRel
<1>2. \E x \in S : \A y \in S : ~(<<y, x>> \in Less)
  BY <1>1, WFMin, Zenon
<1>3. PICK x \in S : \A y \in S : ~(<<y, x>> \in Less)
  BY <1>2
<1>4. ASSUME NEW y \in S PROVE x <= y
  <2>1. x \in Nat /\ y \in Nat
    OBVIOUS
  <2>2. ~(y < x)
    BY <1>3, <2>1
  <2>3. QED
    BY <2>1, <2>2
<1>5. QED
  BY <1>4

(* The n-th of the places of a sequence is one of them: as one counts along *)
(* the sequence, the number of places passed grows by one at a time.        *)
LEMMA NthIsOne ==
  ASSUME NEW m \in Nat, NEW places \in SUBSET (1 .. m), NEW n \in 1 .. Cardinality(places)
  PROVE  Nth(places, n) \in places
<1> DEFINE Upto(i) == {j \in places : j <= i}
           Count == [i \in 0 .. m |-> Cardinality(Upto(i))]
           Far == {i \in 0 .. m : Count[i] >= n}
<1>1. IsFiniteSet(places) /\ Cardinality(places) \in Nat
      /\ \A i \in 0 .. m : IsFiniteSet(Upto(i)) /\ Count[i] \in Nat
  <2>1. IsFiniteSet(1 .. m) BY FS_Interval
  <2>2. \A T \in SUBSET (1 .. m) : IsFiniteSet(T) /\ Cardinality(T) \in Nat
    BY <2>1, FS_Subset, FS_CardinalityType
  <2>3. QED BY <2>2
<1>0. \A j \in places : j \in Nat /\ j >= 1 /\ j <= m OBVIOUS
<1>2. Count[0] = 0 /\ Count[m] = Cardinality(places)
  <2>1. Upto(0) = {}
    <3>1. \A j \in places : ~(j <= 0) BY <1>0
    <3>2. QED BY <3>1
  <2>2. Upto(m) = places BY <1>0
  <2>3. Count[0] = Cardinality(Upto(0)) /\ Count[m] = Cardinality(Upto(m)) OBVIOUS
  <2>4. QED BY <2>1, <2>2, <2>3, FS_EmptySet
<1>3. \A i \in 1 .. m : Count[i] = IF i \in places THEN Count[i - 1] + 1 ELSE Count[i - 1]
  <2> TAKE i \in 1 .. m
  <2>0. Count[i] = Cardinality(Upto(i)) /\ Count[i - 1] = Cardinality(Upto(i - 1)) OBVIOUS
  <2>1. CASE i \in places
    <3>1. Upto(i) = Upto(i - 1) \cup {i} /\ i \notin Upto(i - 1)
      <4>1. \A j \in places : j <= i <=> (j <= i - 1 \/ j = i) BY <1>0
      <4>2. i <= i /\ ~(i <= i - 1) OBVIOUS
      <4>3. QED BY <4>1, <4>2, <2>1, Zenon
    <3>2. i - 1 \in 0 .. m /\ IsFiniteSet(Upto(i - 1))
      <4>1. i - 1 \in 0 .. m OBVIOUS
      <4>2. QED BY <4>1, <1>1, Zenon
    <3>3. Cardinality(Upto(i - 1) \cup {i}) = Cardinality(Upto(i - 1)) + 1 BY <3>1, <3>2, FS_AddElement
    <3>4. QED BY <3>1, <3>3, <2>0, <2>1
  <2>2. CASE i \notin places
    <3>1. Upto(i) = Upto(i - 1)
      <4>1. \A j \in places : j <= i <=> j <= i - 1 BY <1>0, <2>2
      <4>2. QED BY <4>1, Zenon
    <3>2. QED BY <3>1, <2>2, <2>0
  <2>3. QED BY <2>1, <2>2
<1> HIDE DEF Count
<1>4. m \in Far /\ Far \subseteq Nat BY <1>2, <1>1
<1>5. PICK i \in Far : \A j \in Far : i <= j BY <1>4, LeastNumber
<1>6. i \in 0 .. m /\ Count[i] >= n /\ i # 0 BY <1>2, <1>5
<1>7. i - 1 \in 0 .. m /\ i - 1 \notin Far BY <1>6, <1>5
<1>8. Count[i - 1] \in Nat /\ Count[i - 1] < n /\ Count[i] \in Nat
  <2>1. Count[i - 1] \in Nat /\ Count[i] \in Nat BY <1>7, <1>6, <1>1, Zenon
  <2>2. ~(Count[i - 1] >= n) BY <1>7, Zenon
  <2>3. n \in Nat BY <1>1
  <2>4. QED BY <2>1, <2>2, <2>3
<1>9. i \in places /\ Count[i] = n
  <2>1. Count[i] = IF i \in places THEN Count[i - 1] + 1 ELSE Count[i - 1] BY <1>6, <1>3
  <2>2. QED BY <2>1, <1>6, <1>8
<1>10. Cardinality({j \in places : j <= i}) = n BY <1>9, <1>6 DEF Count
<1>11. QED BY <1>9, <1>10 DEF Nth

(* What is left of a sequence at some places is made of its elements.      *)
LEMMA OnlyItsOwn ==
  ASSUME NEW S, NEW s \in Seq(S), NEW places \in SUBSET DOMAIN s
  PROVE  /\ Only(s, places) \in Seq(S)
         /\ \A n \in DOMAIN Only(s, places) : \E i \in DOMAIN s : Only(s, places)[n] = s[i]
<1>1. Len(s) \in Nat /\ DOMAIN s = 1 .. Len(s) OBVIOUS
<1>2. \A n \in 1 .. Cardinality(places) : Nth(places, n) \in DOMAIN s BY <1>1, NthIsOne
<1>3. Cardinality(places) \in Nat
  <2>1. IsFiniteSet(1 .. Len(s)) BY <1>1, FS_Interval
  <2>2. IsFiniteSet(places) BY <2>1, <1>1, FS_Subset
  <2>3. QED BY <2>2, FS_CardinalityType
<1>4. QED BY <1>2, <1>3 DEF Only

(* A finite set in any order. *)
LEMMA SetInOrder ==
  ASSUME NEW S, IsFiniteSet(S)
  PROVE  SetToSeq(S) \in Seq(S)
<1>1. Cardinality(S) \in Nat /\ ExistsBijection(1 .. Cardinality(S), S) BY FS_CardinalityType
<1>2. PICK f \in Bijection(1 .. Cardinality(S), S) : TRUE BY <1>1 DEF ExistsBijection
<1>3. f \in [1 .. Cardinality(S) -> S] /\ IsInjective(f)
  BY <1>2 DEF Bijection, Injection
<1>4. SetToSeq(S) \in [1 .. Cardinality(S) -> S] BY <1>3 DEF SetToSeq
<1>5. QED BY <1>1, <1>4

LEMMA YoungestFew ==
  ASSUME NEW S, NEW s \in Seq(S), NEW n \in Nat
  PROVE  /\ Youngest(s, n) \in Seq(S)
         /\ Len(Youngest(s, n)) <= n
         /\ \A i \in DOMAIN Youngest(s, n) : \E j \in DOMAIN s : Youngest(s, n)[i] = s[j]
<1> DEFINE from == Len(s) - Least(Len(s), n) + 1
<1>1. Least(Len(s), n) \in Nat /\ Least(Len(s), n) <= n /\ Least(Len(s), n) <= Len(s) BY DEF Least
<1>2. from \in 1 .. Len(s) + 1 /\ Len(s) - from + 1 <= n BY <1>1
<1> HIDE DEF from
<1>3. /\ SubSeq(s, from, Len(s)) \in Seq(S)
      /\ Len(SubSeq(s, from, Len(s))) = Len(s) - from + 1
      /\ \A i \in 1 .. Len(s) - from + 1 : SubSeq(s, from, Len(s))[i] = s[from + i - 1]
  BY <1>2
<1>4. Youngest(s, n) = SubSeq(s, from, Len(s)) BY DEF Youngest, from
<1>5. \A i \in 1 .. Len(s) - from + 1 : from + i - 1 \in DOMAIN s BY <1>2
<1>6. Len(s) - from + 1 \in Nat /\ DOMAIN Youngest(s, n) = 1 .. Len(s) - from + 1 BY <1>2, <1>3, <1>4
<1>7. QED BY <1>2, <1>3, <1>4, <1>5, <1>6

(* What a read leaves in refDescriptors: what was there, or what it read.  *)
Told(v) == {[ref |-> x, url |-> v.url, read |-> v.place] : x \in v.seen}
LEMMA MergedFits ==
  ASSUME MemoryFits, NEW v \in Runs, v.url # Nothing, v.place # Nothing
  PROVE  /\ Merged(v) \in Seq(Descriptors)
         /\ Len(Merged(v)) <= DescriptorCap
         /\ \A i \in DOMAIN Merged(v) : (\E j \in DOMAIN descs : Merged(v)[i] = descs[j]) \/ Merged(v)[i] \in Told(v)
<1> DEFINE places == {i \in DOMAIN descs : descs[i].ref \notin v.seen}
           old == Only(descs, places)
           new == SetToSeq(Told(v))
<1>1. descs \in Seq(Descriptors) /\ places \in SUBSET DOMAIN descs BY DEF MemoryFits
<1>2. /\ old \in Seq(Descriptors)
      /\ \A n \in DOMAIN old : \E i \in DOMAIN descs : old[n] = descs[i]
  <2> HIDE DEF places
  <2>1. QED BY <1>1, OnlyItsOwn
<1>3. Told(v) \subseteq Descriptors /\ IsFiniteSet(Told(v))
  <2>1. v.seen \in SUBSET Refs /\ v.url \in Urls /\ v.place \in Urls BY DEF Runs
  <2>2. IsFiniteSet(v.seen) BY <2>1, CommandAssumption, FS_Subset DEF CommandAssumption
  <2>3. [x \in v.seen |-> [ref |-> x, url |-> v.url, read |-> v.place]] \in Surjection(v.seen, Told(v))
    BY DEF Surjection, Told
  <2>4. QED BY <2>1, <2>2, <2>3, FS_Surjection DEF Told, Descriptors
<1>4. new \in Seq(Told(v)) /\ new \in Seq(Descriptors) BY <1>3, SetInOrder, SeqMonotonic
<1> HIDE DEF old, new
<1>5. /\ old \o new \in Seq(Descriptors)
      /\ \A n \in DOMAIN (old \o new) : (\E i \in DOMAIN descs : (old \o new)[n] = descs[i]) \/ (old \o new)[n] \in Told(v)
  <2>1. old \o new \in Seq(Descriptors) /\ Len(old) \in Nat /\ Len(new) \in Nat /\ Len(old \o new) = Len(old) + Len(new)
    BY <1>2, <1>4
  <2>2. DOMAIN (old \o new) = 1 .. Len(old) + Len(new) /\ DOMAIN old = 1 .. Len(old) BY <2>1, <1>2
  <2>3. ASSUME NEW n \in 1 .. Len(old) + Len(new)
        PROVE  (\E i \in DOMAIN descs : (old \o new)[n] = descs[i]) \/ (old \o new)[n] \in Told(v)
    <3>1. CASE n <= Len(old)
      <4>1. (old \o new)[n] = old[n] /\ n \in DOMAIN old BY <3>1, <1>2, <1>4, <2>2
      <4>2. QED BY <4>1, <1>2
    <3>2. CASE n > Len(old)
      <4>1. (old \o new)[n] = new[n - Len(old)] /\ n - Len(old) \in 1 .. Len(new) BY <3>2, <1>2, <1>4, <2>1
      <4>2. QED BY <4>1, <1>4, ElementOfSeq
    <3>3. QED BY <3>1, <3>2, <2>1
  <2>4. QED BY <2>1, <2>2, <2>3
<1>6. Merged(v) = Youngest(old \o new, DescriptorCap) BY DEF Merged, old, new, Told
<1> DEFINE all == old \o new
<1>7. all \in Seq(Descriptors) BY <1>5
<1> HIDE DEF all
<1>8. /\ Youngest(all, DescriptorCap) \in Seq(Descriptors)
      /\ Len(Youngest(all, DescriptorCap)) <= DescriptorCap
      /\ \A i \in DOMAIN Youngest(all, DescriptorCap) : \E j \in DOMAIN all : Youngest(all, DescriptorCap)[i] = all[j]
  BY <1>7, YoungestFew, CommandAssumption DEF CommandAssumption
<1>9. QED BY <1>5, <1>6, <1>8 DEF all

(* The cache of deltas keeps to its size, and what it holds was there      *)
(* before or is what the read has seen.                                    *)
LEMMA CommittedFits ==
  ASSUME MemoryFits, NEW v \in Runs, v.url # Nothing, v.id # 0
  PROVE  /\ Committed(memory, v) \in Memories
         /\ Cardinality(DOMAIN Committed(memory, v).cache) <= CacheSize
         /\ \A i \in DOMAIN Committed(memory, v).cache :
              Committed(memory, v).cache[i] = IF i = v.id THEN [url |-> v.url, els |-> v.seen] ELSE memory.cache[i]
         /\ DOMAIN Committed(memory, v).cache \subseteq DOMAIN memory.cache \cup {v.id}
         /\ memory.next # 0 => Committed(memory, v).next = memory.next
<1> DEFINE entry == [url |-> v.url, els |-> v.seen]
           Entry(i) == IF i = v.id THEN entry ELSE memory.cache[i]
           ids == DOMAIN memory.cache \cup {v.id}
           kept == IF Cardinality(ids) > CacheSize THEN ids \ {Min(ids)} ELSE ids
<1>1. /\ DOMAIN memory.cache \in SUBSET (Ids \ {0}) /\ memory.cache \in [DOMAIN memory.cache -> Entries]
      /\ Cardinality(DOMAIN memory.cache) <= CacheSize /\ memory.next \in Ids
  BY DEF MemoryFits, Memories
<1>2. entry \in Entries /\ v.id \in Ids \ {0} /\ ids \in SUBSET (Ids \ {0}) BY <1>1 DEF Runs, Entries
<1>3. \A i \in ids : Entry(i) \in Entries BY <1>1, <1>2
<1>4. IsFiniteSet(DOMAIN memory.cache) /\ IsFiniteSet(ids) /\ Cardinality(DOMAIN memory.cache) \in Nat
      /\ Cardinality(ids) \in Nat /\ Cardinality(ids) <= CacheSize + 1
  <2>1. IsFiniteSet(Ids \ {0})
    <3>1. 0 \in Int /\ MaxSnapshots \in Int BY CommandAssumption DEF CommandAssumption
    <3>2. IsFiniteSet(Ids) BY <3>1, FS_Interval DEF Ids
    <3>3. QED BY <3>2, FS_RemoveElement
  <2>2. IsFiniteSet(DOMAIN memory.cache) BY <2>1, <1>1, FS_Subset
  <2>3. Cardinality(DOMAIN memory.cache) \in Nat BY <2>2, FS_CardinalityType
  <2>4. /\ IsFiniteSet(ids)
        /\ Cardinality(ids) = IF v.id \in DOMAIN memory.cache THEN Cardinality(DOMAIN memory.cache)
                              ELSE Cardinality(DOMAIN memory.cache) + 1
    BY <2>2, FS_AddElement
  <2>5. QED BY <2>2, <2>3, <2>4, <1>1, CommandAssumption DEF CommandAssumption
<1>5. Min(ids) \in ids
  <2>1. ids \in SUBSET Nat /\ ids # {} BY <1>2, CommandAssumption DEF Ids, CommandAssumption
  <2>2. QED BY <2>1, LeastNumber DEF Min
<1>6. kept \subseteq ids /\ Cardinality(kept) <= CacheSize
  <2>1. CASE Cardinality(ids) > CacheSize
    <3>1. IsFiniteSet(ids) /\ Min(ids) \in ids BY <1>4, <1>5
    <3> HIDE DEF ids
    <3>2. Cardinality(ids \ {Min(ids)}) = Cardinality(ids) - 1 BY ONLY <3>1, FS_RemoveElement
    <3>3. QED BY <3>2, <2>1, <1>4, CommandAssumption DEF CommandAssumption
  <2>2. CASE ~(Cardinality(ids) > CacheSize)
    BY <2>2, <1>4, CommandAssumption DEF CommandAssumption
  <2>3. QED BY <2>1, <2>2
<1> HIDE DEF ids, kept, entry
<1>7. Committed(memory, v) = [next |-> IF memory = NoMemory THEN v.id ELSE memory.next,
                              cache |-> [i \in kept |-> Entry(i)]]
  BY DEF Committed, kept, entry, ids
<1>8. Committed(memory, v).cache = [i \in kept |-> Entry(i)] BY <1>7
<1>9. Committed(memory, v).next = IF memory = NoMemory THEN v.id ELSE memory.next BY <1>7
<1>10. memory.next # 0 => memory # NoMemory BY DEF NoMemory
<1>11. [i \in kept |-> Entry(i)] \in [kept -> Entries] /\ kept \in SUBSET (Ids \ {0})
  BY <1>1, <1>2, <1>3, <1>6 DEF ids
<1>12. Committed(memory, v).next \in Ids BY <1>1, <1>2, <1>9
<1>13. Committed(memory, v) \in Memories BY <1>7, <1>11, <1>12, <1>9 DEF Memories
<1>14. QED BY <1>3, <1>6, <1>8, <1>9, <1>10, <1>13 DEF entry, ids

-----------------------------------------------------------------------------
(* Tabs.                                                                   *)

LEMMA RoomForOne ==
  ASSUME AreTabs(tabs), NEW t \in NewTabs, t.id \notin Open
  PROVE  Len(tabs) + 1 <= Cardinality(TabIds)
<1> DEFINE n == Len(tabs) + 1
           f == [i \in 1 .. n |-> IF i = n THEN t.id ELSE tabs[i].id]
<1>1. /\ tabs \in Seq(NewTabs) /\ Len(tabs) \in Nat /\ DOMAIN tabs = 1 .. Len(tabs)
      /\ \A i, j \in DOMAIN tabs : tabs[i].id = tabs[j].id => i = j
  BY DEF AreTabs
<1>2. \A i \in 1 .. n : f[i] \in TabIds /\ (i # n => i \in DOMAIN tabs /\ f[i] = tabs[i].id /\ f[i] # t.id) /\ (i = n => f[i] = t.id)
  <2>1. \A i \in DOMAIN tabs : tabs[i].id \in TabIds /\ tabs[i].id # t.id
    <3>1. \A i \in DOMAIN tabs : tabs[i] \in NewTabs BY <1>1
    <3>2. QED BY <3>1 DEF NewTabs, Open
  <2>2. t.id \in TabIds BY DEF NewTabs
  <2>3. \A i \in 1 .. n : i # n => i \in DOMAIN tabs BY <1>1
  <2>4. QED BY <2>1, <2>2, <2>3
<1> HIDE DEF f
<1>3. \A i, j \in 1 .. n : f[i] = f[j] => i = j BY <1>2, <1>1
<1>4. f \in Injection(1 .. n, TabIds) BY <1>2, <1>3 DEF Injection, IsInjective, f
<1>5. Cardinality(1 .. n) <= Cardinality(TabIds)
  BY <1>4, FS_Injection, CommandAssumption DEF CommandAssumption
<1>6. Cardinality(1 .. n) = n BY <1>1, FS_Interval
<1>7. QED BY <1>5, <1>6

LEMMA TabFound ==
  ASSUME AreTabs(tabs), NEW id \in Open
  PROVE  /\ TabOf(id) \in DOMAIN tabs /\ tabs[TabOf(id)].id = id
         /\ \A i \in DOMAIN tabs : tabs[i].id = id => i = TabOf(id)
<1>1. \E i \in DOMAIN tabs : tabs[i].id = id BY DEF Open
<1>2. TabOf(id) \in DOMAIN tabs /\ tabs[TabOf(id)].id = id BY <1>1 DEF TabOf
<1>3. QED BY <1>2 DEF AreTabs

(* The ways in which the list of tabs changes: one is added at its end, one *)
(* is taken out, one moves.                                                 *)
LEMMA OneMore ==
  ASSUME AreTabs(tabs), NEW t \in NewTabs, t.id \notin Open
  PROVE  /\ AreTabs(Append(tabs, t)) /\ Len(Append(tabs, t)) = Len(tabs) + 1
         /\ \A i \in DOMAIN tabs : i \in DOMAIN Append(tabs, t) /\ Append(tabs, t)[i] = tabs[i]
         /\ Append(tabs, t)[Len(tabs) + 1] = t
         /\ \A i \in DOMAIN Append(tabs, t) : i \in DOMAIN tabs \/ i = Len(tabs) + 1
<1>1. tabs \in Seq(NewTabs) BY DEF AreTabs
<1>2. /\ Append(tabs, t) \in Seq(NewTabs) /\ Len(Append(tabs, t)) = Len(tabs) + 1
      /\ \A i \in DOMAIN tabs : i \in DOMAIN Append(tabs, t) /\ Append(tabs, t)[i] = tabs[i]
      /\ Append(tabs, t)[Len(tabs) + 1] = t
      /\ \A i \in DOMAIN Append(tabs, t) : i \in DOMAIN tabs \/ i = Len(tabs) + 1
  BY <1>1
<1> DEFINE s == Append(tabs, t)
<1> HIDE DEF s
<1>3. \A i, j \in DOMAIN s : s[i].id = s[j].id => i = j
  <2>1. \A i \in DOMAIN tabs : tabs[i].id # t.id BY DEF Open
  <2>2. QED BY <1>2, <2>1 DEF AreTabs, s
<1>4. QED BY <1>2, <1>3, RoomForOne DEF AreTabs, s

LEMMA OneLess ==
  ASSUME AreTabs(tabs), NEW i \in DOMAIN tabs
  PROVE  /\ AreTabs(RemoveAt(tabs, i)) /\ Len(RemoveAt(tabs, i)) = Len(tabs) - 1
         /\ \A j \in DOMAIN RemoveAt(tabs, i) : \E k \in DOMAIN tabs \ {i} : RemoveAt(tabs, i)[j] = tabs[k]
         /\ \A k \in DOMAIN tabs \ {i} : \E j \in DOMAIN RemoveAt(tabs, i) : RemoveAt(tabs, i)[j] = tabs[k]
<1> DEFINE s == RemoveAt(tabs, i)
<1>1. tabs \in Seq(NewTabs) /\ DOMAIN tabs = 1 .. Len(tabs) /\ Len(tabs) \in Nat BY DEF AreTabs
<1>2. /\ s \in Seq(NewTabs) /\ Len(s) = Len(tabs) - 1
      /\ \A j \in 1 .. Len(tabs) - 1 : s[j] = IF j < i THEN tabs[j] ELSE tabs[j + 1]
  BY <1>1, RemovedAt
<1> HIDE DEF s
<1>3. DOMAIN s = 1 .. Len(tabs) - 1 BY <1>1, <1>2
<1>4. \A j \in DOMAIN s : \E k \in DOMAIN tabs \ {i} : s[j] = tabs[k] /\ k = IF j < i THEN j ELSE j + 1
  BY <1>1, <1>2, <1>3
<1>5. \A k \in DOMAIN tabs \ {i} : s[IF k < i THEN k ELSE k - 1] = tabs[k] /\ (IF k < i THEN k ELSE k - 1) \in DOMAIN s
  BY <1>1, <1>2, <1>3
<1>6. \A j, l \in DOMAIN s : s[j].id = s[l].id => j = l
  <2> SUFFICES ASSUME NEW j \in DOMAIN s, NEW l \in DOMAIN s, s[j].id = s[l].id PROVE j = l
    OBVIOUS
  <2>1. PICK k \in DOMAIN tabs : s[j] = tabs[k] /\ k = IF j < i THEN j ELSE j + 1 BY <1>4
  <2>2. PICK m \in DOMAIN tabs : s[l] = tabs[m] /\ m = IF l < i THEN l ELSE l + 1 BY <1>4
  <2>3. k = m BY <2>1, <2>2 DEF AreTabs
  <2>4. QED BY <2>1, <2>2, <2>3, <1>1, <1>3
<1>7. Len(s) <= Cardinality(TabIds)
  <2>1. Len(tabs) <= Cardinality(TabIds) /\ Cardinality(TabIds) \in Nat
    BY FS_CardinalityType, CommandAssumption DEF AreTabs, CommandAssumption
  <2>2. QED BY <2>1, <1>1, <1>2
<1>8. QED BY <1>2, <1>4, <1>5, <1>6, <1>7 DEF AreTabs, s

LEMMA OneMoved ==
  ASSUME NEW s, AreTabs(s), NEW i \in DOMAIN s, NEW url \in Urls
  PROVE  LET m == [s EXCEPT ![i].url = url] IN
         /\ AreTabs(m) /\ Len(m) = Len(s) /\ DOMAIN m = DOMAIN s
         /\ \A j \in DOMAIN s : m[j].id = s[j].id /\ (j # i => m[j] = s[j])
<1> DEFINE m == [s EXCEPT ![i].url = url]
<1>1. s \in Seq(NewTabs) /\ DOMAIN s = 1 .. Len(s) /\ Len(s) \in Nat BY DEF AreTabs
<1>2. \A j \in DOMAIN s : s[j] \in NewTabs BY <1>1
<1>3. m = [s EXCEPT ![i] = [s[i] EXCEPT !.url = url]] OBVIOUS
<1>4. [s[i] EXCEPT !.url = url] \in NewTabs /\ [s[i] EXCEPT !.url = url].id = s[i].id BY <1>2 DEF NewTabs
<1>5. m \in Seq(NewTabs) /\ Len(m) = Len(s) /\ DOMAIN m = DOMAIN s BY <1>1, <1>3, <1>4
<1>6. \A j \in DOMAIN s : m[j].id = s[j].id /\ (j # i => m[j] = s[j]) BY <1>3, <1>4, <1>1
<1>7. QED BY <1>5, <1>6 DEF AreTabs

LEMMA PagesFit ==
  ASSUME AreTabs(tabs), NEW t \in Spare
  PROVE  /\ AreTabs(Pages(t)) /\ Len(Pages(t)) \in Nat \ {0}
         /\ tabs # << >> => Pages(t) = tabs
         /\ \A i \in DOMAIN tabs : i \in DOMAIN Pages(t) /\ Pages(t)[i] = tabs[i]
<1>1. CASE tabs = << >>
  <2>1. t \in NewTabs /\ t.id \notin Open BY <1>1 DEF Spare, Open
  <2>2. Pages(t) = Append(tabs, t) BY <1>1 DEF Pages
  <2>3. QED BY <2>1, <2>2, <1>1, OneMore
<1>2. CASE tabs # << >>
  <2>1. Pages(t) = tabs /\ tabs \in Seq(NewTabs) BY <1>2 DEF Pages, AreTabs
  <2>2. Len(tabs) \in Nat \ {0} BY <2>1, <1>2
  <2>3. QED BY <2>1, <2>2
<1>3. QED BY <1>1, <1>2

-----------------------------------------------------------------------------
(* Every action keeps the state well formed.                               *)

LEMMA TabsStayFit ==
  ASSUME CommandTypeOK, TabsKnown, CommandNext
  PROVE  TabsFit'
<1> USE DEF CommandTypeOK
<1>0. /\ AreTabs(tabs) /\ active \in 1 .. Cardinality(TabIds) /\ chosen \in TabIds \cup {Nothing}
      /\ Cardinality(TabIds) \in Nat /\ Len(tabs) \in Nat /\ DOMAIN tabs = 1 .. Len(tabs) /\ Len(tabs) <= Cardinality(TabIds)
      /\ \A i \in DOMAIN tabs : tabs[i].id \in TabIds
      /\ \A r \in Runners : run[r].tab \in TabIds \cup {Nothing}
  <2>1. AreTabs(tabs) /\ active \in 1 .. Cardinality(TabIds) /\ chosen \in TabIds \cup {Nothing}
    BY DEF TabsFit
  <2>2. Cardinality(TabIds) \in Nat BY FS_CardinalityType, CommandAssumption DEF CommandAssumption
  <2>3. tabs \in Seq(NewTabs) /\ Len(tabs) <= Cardinality(TabIds) BY <2>1 DEF AreTabs
  <2>4. \A i \in DOMAIN tabs : tabs[i].id \in TabIds
    <3>1. \A i \in DOMAIN tabs : tabs[i] \in NewTabs BY <2>3
    <3>2. QED BY <3>1 DEF NewTabs
  <2>5. \A r \in Runners : run[r].tab \in TabIds \cup {Nothing} BY DEF Runs
  <2>6. QED BY <2>1, <2>2, <2>3, <2>4, <2>5
<1>1. CASE UNCHANGED page BY <1>1 DEF page, TabsFit
<1>2. ASSUME NEW i \in DOMAIN tabs, NEW url \in Urls, PageMoves(i, url) PROVE TabsFit'
  BY <1>0, <1>2, OneMoved DEF PageMoves, TabsFit
<1>3. ASSUME NEW i \in DOMAIN tabs, PopupCloses(i) PROVE TabsFit'
  BY <1>0, <1>3, OneLess DEF PopupCloses, TabsFit
<1>4. ASSUME NEW t \in NewTabs, PopupOpens(t) \/ OpensTab(t) PROVE TabsFit'
  <2>1. t.id \notin Open /\ tabs' = Append(tabs, t) /\ active' = active /\ chosen' = chosen
    BY <1>4 DEF PopupOpens, OpensTab
  <2>2. AreTabs(Append(tabs, t)) BY <2>1, <1>0, OneMore
  <2>3. QED BY <2>1, <2>2, <1>0 DEF TabsFit
<1>5. ASSUME NEW t \in NewTabs, Resume(t) PROVE TabsFit'
  <2>1. tabs = << >> /\ t.id \notin Open BY <1>5, <1>0 DEF Resume, TabsKnown, Open
  <2>2. tabs' = Append(tabs, t) /\ chosen' = chosen /\ active' = 1 BY <1>5, <2>1 DEF Resume
  <2>3. AreTabs(tabs') BY <2>1, <2>2, <1>0, OneMore
  <2>4. QED BY <2>2, <2>3, <1>0 DEF TabsFit
<1>6. CASE ContextEnds BY <1>0, <1>6 DEF ContextEnds, TabsFit, AreTabs
<1>7. ASSUME NEW t \in Spare, Found(t), chosen' = chosen PROVE TabsFit'
  <2>1. AreTabs(Pages(t)) /\ Len(Pages(t)) \in Nat \ {0} BY <1>0, PagesFit
  <2>2. Least(active, Len(Pages(t))) \in 1 .. Cardinality(TabIds) BY <2>1, <1>0 DEF Least
  <2>3. QED BY <2>1, <2>2, <1>7, <1>0 DEF Found, TabsFit
<1>8. ASSUME NEW t \in Spare, NEW url \in Urls, Navigate(t, url) PROVE TabsFit'
  <2>1. AreTabs(Pages(t)) /\ Len(Pages(t)) \in Nat \ {0} BY <1>0, PagesFit
  <2>2. active' = Least(active, Len(Pages(t))) /\ active' \in 1 .. Cardinality(TabIds) /\ active' \in DOMAIN Pages(t)
    BY <2>1, <1>0, <1>8 DEF Least, Navigate, AreTabs
  <2>3. tabs' = [Pages(t) EXCEPT ![active'].url = url] /\ chosen' = chosen BY <1>8 DEF Navigate
  <2>4. QED BY <2>1, <2>2, <2>3, <1>0, OneMoved DEF TabsFit
<1>9. CASE SelectsTab
  <2>1. active' = IndexOfNew(run["command"].tab) /\ tabs # << >> /\ tabs' = tabs /\ chosen' = run["command"].tab
    BY <1>9 DEF SelectsTab
  <2>2. active' \in DOMAIN tabs
    <3>1. Len(tabs) # 0 BY <2>1, <1>0 DEF AreTabs
    <3>2. QED BY <3>1, <2>1, <1>0, TabFound DEF IndexOfNew
  <2>3. QED BY <2>1, <2>2, <1>0 DEF TabsFit, Runners
<1>10. ASSUME NEW i \in DOMAIN tabs, SwitchTab(i) PROVE TabsFit'
  BY <1>0, <1>10 DEF SwitchTab, TabsFit
<1>11. ASSUME NEW i \in DOMAIN tabs, CloseTab(i) PROVE TabsFit'
  <2>1. AreTabs(tabs') /\ Len(tabs') = Len(tabs) - 1 /\ chosen' = Nothing BY <1>0, <1>11, OneLess DEF CloseTab
  <2>2. active' = IF tabs' = << >> THEN 1 ELSE Least(i, Len(tabs')) BY <1>11 DEF CloseTab
  <2>3. tabs' # << >> => Len(tabs') # 0 BY <2>1 DEF AreTabs
  <2>4. active' \in 1 .. Cardinality(TabIds) BY <2>1, <2>2, <2>3, <1>0 DEF Least
  <2>5. QED BY <2>1, <2>4 DEF TabsFit
<1>12. ASSUME NEW t \in Spare, ResumeFromPause(t) \/ \E delta \in BOOLEAN : PostRead(t, delta) PROVE TabsFit'
  BY <1>1, <1>7, <1>12 DEF ResumeFromPause, PostRead, Read
<1>13. ASSUME NEW t \in Spare, NEW i \in DOMAIN descs, Act(t, descs[i]) PROVE TabsFit'
  BY <1>7, <1>13 DEF Act
<1>14. CASE World BY <1>14, <1>1, <1>2, <1>3, <1>4, <1>5, <1>6 DEF World, DeathHeard
<1>15. CASE Posts BY <1>15, <1>1, <1>12 DEF Posts, Post
<1>16. CASE Steps
  BY <1>16, <1>1, <1>4, <1>8, <1>9, <1>10, <1>11, <1>13 DEF Steps, PauseForHuman, Acts, Navigated, Answered
<1>17. ASSUME NEW r \in Runners, Reads(r) PROVE TabsFit'
  BY <1>17, <1>1 DEF Reads, Fails, Commits, Captures
<1>18. QED BY <1>14, <1>15, <1>16, <1>17 DEF CommandNext

LEMMA MemoryStaysFit ==
  ASSUME CommandTypeOK, ReadsKnow, CommandNext
  PROVE  MemoryFits'
<1> USE DEF CommandTypeOK
<1>1. CASE UNCHANGED <<memory, descs>> BY <1>1 DEF MemoryFits
<1>2. ASSUME memory' = [memory EXCEPT !.cache = << >>], descs' = descs PROVE MemoryFits'
  <2>1. << >> \in [{} -> Entries] /\ DOMAIN << >> = {} OBVIOUS
  <2>2. memory \in Memories /\ descs' = descs BY <1>2 DEF MemoryFits
  <2>3. memory.next \in Ids /\ memory' = [next |-> memory.next, cache |-> << >>] BY <1>2, <2>2 DEF Memories
  <2>4. << >> \in UNION {[ids -> Entries] : ids \in SUBSET (Ids \ {0})} BY <2>1
  <2>5. memory' \in Memories BY <2>3, <2>4 DEF Memories
  <2>6. Cardinality(DOMAIN memory'.cache) <= CacheSize
    <3>1. memory'.cache = << >> BY <2>3
    <3>2. Cardinality(DOMAIN memory'.cache) = 0 BY <2>1, <3>1, FS_EmptySet
    <3>3. QED BY <3>2, CommandAssumption DEF CommandAssumption
  <2>7. QED BY <2>5, <2>6, <1>2 DEF MemoryFits
<1>3. CASE DeathHeard
  <2>1. memory' = [next |-> 0, cache |-> << >>] /\ descs' = << >> BY <1>3 DEF DeathHeard, NoMemory
  <2>2. << >> \in [{} -> Entries] /\ DOMAIN << >> = {} OBVIOUS
  <2>3. << >> \in UNION {[ids -> Entries] : ids \in SUBSET (Ids \ {0})} BY <2>2
  <2>4. 0 \in Ids BY CommandAssumption DEF Ids, CommandAssumption
  <2>5. memory' \in Memories BY <2>1, <2>3, <2>4 DEF Memories
  <2>6. Cardinality(DOMAIN memory'.cache) <= CacheSize
    <3>1. memory'.cache = << >> BY <2>1
    <3>2. Cardinality(DOMAIN memory'.cache) = 0 BY <2>2, <3>1, FS_EmptySet
    <3>3. QED BY <3>2, CommandAssumption DEF CommandAssumption
  <2>7. descs' \in Seq(Descriptors) /\ Len(descs') <= DescriptorCap
    BY <2>1, CommandAssumption DEF CommandAssumption
  <2>8. QED BY <2>5, <2>6, <2>7 DEF MemoryFits
<1>4. ASSUME NEW r \in Runners, NEW t, NEW since, Read(r, t, since) PROVE MemoryFits'
  <2>1. memory' = [memory EXCEPT !.next = @ + 1] /\ memory.next < MaxSnapshots /\ descs' = descs
    BY <1>4 DEF Read, Allocated
  <2>2. memory \in Memories /\ memory.next + 1 \in Ids
    BY <2>1, CommandAssumption DEF MemoryFits, Memories, Ids, CommandAssumption
  <2>3. memory' \in Memories /\ memory'.cache = memory.cache BY <2>1, <2>2 DEF Memories
  <2>4. QED BY <2>1, <2>3 DEF MemoryFits
<1>5. ASSUME NEW r \in Runners, Commits(r) PROVE MemoryFits'
  <2> DEFINE v == run[r]
  <2>1. v \in Runs /\ v.url # Nothing /\ v.id # 0 /\ v.place # Nothing BY <1>5 DEF Commits, ReadsKnow, Known
  <2>2. descs' = Merged(v) /\ memory' = Committed(memory, v) BY <1>5 DEF Commits
  <2> HIDE DEF v
  <2>3. /\ Merged(v) \in Seq(Descriptors) /\ Len(Merged(v)) <= DescriptorCap
        /\ Committed(memory, v) \in Memories
        /\ Cardinality(DOMAIN Committed(memory, v).cache) <= CacheSize
    BY <2>1, MergedFits, CommittedFits
  <2>4. QED BY <2>2, <2>3 DEF MemoryFits
<1>6. CASE World BY <1>6, <1>1, <1>3 DEF World, PageMoves, PopupOpens, PopupCloses, ContextEnds, Resume
<1>7. CASE Posts BY <1>7, <1>1, <1>4 DEF Posts, Post, ResumeFromPause, PostRead, Runners
<1>8. CASE Steps
  BY <1>8, <1>1, <1>2 DEF Steps, PauseForHuman, Acts, Navigated, Answered, OpensTab, Act, Navigate, SelectsTab, SwitchTab, CloseTab
<1>9. ASSUME NEW r \in Runners, Reads(r) PROVE MemoryFits'
  BY <1>9, <1>1, <1>5 DEF Reads, Fails, Captures
<1>10. QED BY <1>6, <1>7, <1>8, <1>9 DEF CommandNext

RunsFit == run \in [Runners -> Runs] /\ ReadsKnow

LEMMA NoRunFits == NoRun \in Runs /\ Known(NoRun)
  BY CommandAssumption DEF NoRun, Runs, Pcs, Deltas, Ids, Known, CommandAssumption

(* Who loses a tab keeps the rest of what it knows. *)
LEMMA LosingFits ==
  ASSUME RunsFit, NEW ids
  PROVE  /\ Losing(run, ids) \in [Runners -> Runs]
         /\ \A r \in Runners :
              /\ Known(Losing(run, ids)[r])
              /\ Losing(run, ids)[r].tab = IF run[r].tab \in ids THEN Nothing ELSE run[r].tab
              /\ \E tab : Losing(run, ids)[r] = [run[r] EXCEPT !.tab = tab]
              /\ Losing(run, ids)[r].pc = run[r].pc
<1>1. \A r \in Runners : run[r] \in Runs /\ Known(run[r]) BY DEF RunsFit, ReadsKnow
<1>2. ASSUME NEW r \in Runners
      PROVE  /\ Losing(run, ids)[r] = [run[r] EXCEPT !.tab = IF run[r].tab \in ids THEN Nothing ELSE run[r].tab]
             /\ Losing(run, ids)[r] \in Runs /\ Known(Losing(run, ids)[r])
             /\ Losing(run, ids)[r].tab = IF run[r].tab \in ids THEN Nothing ELSE run[r].tab
             /\ Losing(run, ids)[r].pc = run[r].pc
  BY <1>1 DEF Losing, Runs, Known
<1>3. QED BY <1>2 DEF Losing

(* A step that is over. *)
LEMMA EndedFits ==
  ASSUME NEW v \in Runs, Known(v), v.pc \notin {"capture", "commit", "answer"}
  PROVE  Ended(v) \in Runs /\ Known(Ended(v))
<1>1. Ended(v) = [v EXCEPT !.pc = IF v.left > 1 THEN "step" ELSE "answer",
                           !.left = IF v.left > 1 THEN v.left - 1 ELSE 0]
  BY DEF Ended
<1>2. (IF v.left > 1 THEN v.left - 1 ELSE 0) \in 0 .. MaxSteps
  BY CommandAssumption DEF Runs, CommandAssumption
<1>3. (IF v.left > 1 THEN "step" ELSE "answer") \in {"step", "answer"} OBVIOUS
<1>4. QED BY <1>1, <1>2, <1>3 DEF Runs, Known, Pcs

LEMMA RunsStayFit ==
  ASSUME CommandTypeOK, RunsFit, CommandNext
  PROVE  RunsFit'
<1> USE DEF CommandTypeOK
<1>0. /\ \A r \in Runners : run[r] \in Runs /\ Known(run[r])
      /\ run \in [Runners -> Runs] /\ run["resume"].pc \in {"idle", "capture", "commit"}
  BY DEF RunsFit, ReadsKnow
<1>1. CASE run' = run BY <1>1 DEF RunsFit, ReadsKnow
<1>2. ASSUME NEW ids, run' = Losing(run, ids) PROVE RunsFit'
  BY <1>0, <1>2, LosingFits DEF RunsFit, ReadsKnow, Runners
<1>3. ASSUME NEW v \in Runs, Known(v), run' = [run EXCEPT !["command"] = v] PROVE RunsFit'
  BY <1>0, <1>3 DEF RunsFit, ReadsKnow, Runners
<1>4. ASSUME NEW r \in Runners, run' = [run EXCEPT ![r] = NoRun] PROVE RunsFit'
  <2>1. NoRun.pc = "idle" BY DEF NoRun
  <2>2. QED BY <1>0, <1>4, <2>1, NoRunFits DEF RunsFit, ReadsKnow, Runners
<1>5. CASE DeathHeard
  <2>1. run' = [r \in Runners |-> [run[r] EXCEPT !.fresh = FALSE]] BY <1>5 DEF DeathHeard
  <2>2. ASSUME NEW r \in Runners
        PROVE  [run[r] EXCEPT !.fresh = FALSE] \in Runs /\ Known([run[r] EXCEPT !.fresh = FALSE])
    <3>1. run[r] \in Runs /\ Known(run[r]) BY <1>0
    <3>2. [run[r] EXCEPT !.fresh = FALSE] \in Runs BY ONLY <3>1 DEF Runs
    <3>3. Known([run[r] EXCEPT !.fresh = FALSE]) BY ONLY <3>1 DEF Runs, Known
    <3>4. QED BY <3>2, <3>3
  <2>3. run' \in [Runners -> Runs] /\ \A r \in Runners : Known(run'[r]) BY <2>1, <2>2
  <2>4. run'["resume"].pc = run["resume"].pc BY <2>1, <1>0 DEF Runners, Runs
  <2>5. QED BY <2>3, <2>4, <1>0 DEF RunsFit, ReadsKnow
<1>6. ASSUME NEW n \in 1 .. MaxSteps, Post(n) PROVE RunsFit'
  <2> DEFINE v == [NoRun EXCEPT !.pc = "step", !.left = n]
  <2>0. n \in 0 .. MaxSteps /\ NoRun \in Runs BY NoRunFits, CommandAssumption DEF CommandAssumption
  <2>1. v \in Runs BY <2>0 DEF NoRun, Runs, Pcs
  <2>4. Known(v) BY DEF NoRun, Known
  <2>2. run' = [run EXCEPT !["command"] = v] BY <1>6 DEF Post
  <2>3. QED BY <2>1, <2>2, <2>4, <1>3
<1>7. ASSUME run' = [run EXCEPT !["command"] = Ended(run["command"])],
             run["command"].pc \in {"step", "goto", "opened", "act"}
      PROVE  RunsFit'
  <2>1. run["command"] \in Runs /\ Known(run["command"]) BY <1>0 DEF Runners
  <2>2. QED BY <2>1, <1>3, <1>7, EndedFits
<1>8. CASE Acts
  <2> DEFINE v == [NoRun EXCEPT !.left = run["command"].left]
  <2>1. v \in Runs /\ Known(v) /\ v.pc = "idle" BY <1>0, NoRunFits DEF NoRun, Runs, Known, Runners
  <2>2. run' = [run EXCEPT !["command"] = Ended(v)] BY <1>8 DEF Acts, Done
  <2>3. Ended(v) \in Runs /\ Known(Ended(v)) BY <2>1, EndedFits
  <2>4. QED BY <2>2, <2>3, <1>3
<1>9. ASSUME NEW t \in Spare, NEW i \in DOMAIN descs, Act(t, descs[i]) PROVE RunsFit'
  <2> DEFINE v == [run["command"] EXCEPT !.pc = "act", !.tab = Here(t).id, !.url = Here(t).url, !.place = descs[i].read]
  <2>1. AreTabs(Pages(t)) /\ Len(Pages(t)) \in Nat \ {0} BY PagesFit DEF TabsFit
  <2>2. Here(t) \in NewTabs
    <3>1. Least(active, Len(Pages(t))) \in DOMAIN Pages(t) /\ Pages(t) \in Seq(NewTabs)
      BY <2>1 DEF TabsFit, AreTabs, Least
    <3>2. QED BY <3>1 DEF Here
  <2>3. descs[i] \in Descriptors BY DEF MemoryFits
  <2>4. run["command"] \in Runs /\ Known(run["command"]) /\ run["command"].pc = "step"
    BY <1>0, <1>9 DEF Runners, Act, Begins
  <2>5. v \in Runs /\ Known(v) BY <2>2, <2>3, <2>4 DEF Runs, Known, Pcs, NewTabs, Descriptors
  <2>6. run' = [run EXCEPT !["command"] = v] BY <1>9 DEF Act
  <2>7. QED BY <2>5, <2>6, <1>3
<1>10. ASSUME NEW t \in Spare, NEW url \in Urls, Navigate(t, url) PROVE RunsFit'
  <2> DEFINE v == [run["command"] EXCEPT !.pc = "goto"]
  <2>1. run["command"] \in Runs /\ Known(run["command"]) /\ run["command"].pc = "step"
    BY <1>0, <1>10 DEF Runners, Navigate, Begins
  <2>2. v \in Runs /\ Known(v) BY <2>1 DEF Runs, Known, Pcs
  <2>3. run' = [run EXCEPT !["command"] = v] BY <1>10 DEF Navigate
  <2>4. QED BY <2>2, <2>3, <1>3
<1>11. ASSUME NEW t \in NewTabs, OpensTab(t) PROVE RunsFit'
  <2> DEFINE v == [run["command"] EXCEPT !.pc = "opened", !.tab = t.id]
  <2>1. run["command"] \in Runs /\ Known(run["command"]) /\ run["command"].pc = "step"
    BY <1>0, <1>11 DEF Runners, OpensTab, Begins
  <2>2. v \in Runs /\ Known(v) BY <2>1 DEF Runs, Known, Pcs, NewTabs
  <2>3. run' = [run EXCEPT !["command"] = v] BY <1>11, <1>0 DEF OpensTab, Runners
  <2>4. QED BY <2>2, <2>3, <1>3
<1>12. CASE SelectsTab
  <2> DEFINE v == [run["command"] EXCEPT !.tab = Nothing]
  <2>1. run["command"] \in Runs /\ Known(run["command"]) /\ run["command"].pc = "opened"
    BY <1>0, <1>12 DEF Runners, SelectsTab
  <2>2. v \in Runs /\ Known(v) /\ v.pc = "opened" BY <2>1 DEF Runs, Known
  <2>3. run' = [run EXCEPT !["command"] = Ended(v)] BY <1>12 DEF SelectsTab, Done
  <2>4. Ended(v) \in Runs /\ Known(Ended(v)) BY <2>2, EndedFits
  <2>5. QED BY <2>3, <2>4, <1>3
<1>13. ASSUME NEW i \in DOMAIN tabs, CloseTab(i) PROVE RunsFit'
  <2> DEFINE lost == Losing(run, {tabs[i].id})
  <2>1. /\ lost \in [Runners -> Runs] /\ \A r \in Runners : Known(lost[r])
        /\ lost["command"].pc = run["command"].pc /\ lost["resume"].pc = run["resume"].pc
    BY LosingFits DEF Runners
  <2>2. run["command"].pc = "step" /\ run' = [lost EXCEPT !["command"] = Ended(lost["command"])]
    BY <1>13 DEF CloseTab, Begins
  <2> HIDE DEF lost
  <2>3. Ended(lost["command"]) \in Runs /\ Known(Ended(lost["command"])) BY <2>1, <2>2, EndedFits DEF Runners
  <2>4. QED BY <2>1, <2>2, <2>3, <1>0 DEF RunsFit, ReadsKnow, Runners
<1>14. ASSUME NEW r \in Runners, NEW t \in Spare, NEW since \in Ids, Read(r, t, since) PROVE RunsFit'
  <2> DEFINE v == [NoRun EXCEPT !.pc = "capture", !.tab = Here(t).id, !.fresh = TRUE,
                                !.url = Here(t).url, !.id = memory.next + 1, !.since = since]
  <2>1. AreTabs(Pages(t)) /\ Len(Pages(t)) \in Nat \ {0} BY PagesFit DEF TabsFit
  <2>2. Here(t) \in NewTabs
    <3>1. Least(active, Len(Pages(t))) \in DOMAIN Pages(t) /\ Pages(t) \in Seq(NewTabs)
      BY <2>1 DEF TabsFit, AreTabs, Least
    <3>2. QED BY <3>1 DEF Here
  <2>3. memory.next \in Ids /\ memory'.next = memory.next + 1 /\ memory.next < MaxSnapshots
    BY <1>14 DEF Read, Allocated, MemoryFits, Memories
  <2>4. memory.next + 1 \in Ids \ {0} BY <2>3, CommandAssumption DEF Ids, CommandAssumption
  <2>5. v \in Runs /\ Known(v) /\ v.pc = "capture"
    BY <2>2, <2>4, NoRunFits, CommandAssumption DEF NoRun, Runs, Known, Pcs, NewTabs, CommandAssumption
  <2>6. run' = [run EXCEPT ![r] = v] BY <1>14, <2>3 DEF Read
  <2>7. QED BY <2>5, <2>6, <1>0 DEF RunsFit, ReadsKnow, Runners
<1>15. ASSUME NEW r \in Runners, NEW els \in SUBSET Refs, Captures(r, els) PROVE RunsFit'
  <2> DEFINE v == [run[r] EXCEPT !.pc = "commit", !.seen = els, !.tab = Nothing, !.place = tabs[TabOf(run[r].tab)].url]
  <2>1. tabs[TabOf(run[r].tab)] \in NewTabs
    <3>1. AreTabs(tabs) /\ run[r].tab \in Open BY <1>15 DEF TabsFit, Captures
    <3>2. TabOf(run[r].tab) \in DOMAIN tabs /\ tabs \in Seq(NewTabs) BY <3>1, TabFound DEF AreTabs
    <3>3. QED BY <3>2
  <2>2. run[r].pc = "capture" BY <1>15 DEF Captures
  <2>3. v \in Runs /\ Known(v) /\ v.pc = "commit"
    <3>1. tabs[TabOf(run[r].tab)].url \in Urls /\ tabs[TabOf(run[r].tab)].url # Nothing
      BY <2>1, CommandAssumption DEF NewTabs, CommandAssumption
    <3>2. run[r] \in Runs /\ Known(run[r]) BY <1>0
    <3>3. v \in Runs BY <3>1, <3>2 DEF Runs, Pcs
    <3>4. Known(v) BY <3>1, <3>2, <2>2 DEF Runs, Known
    <3>5. QED BY <3>2, <3>3, <3>4 DEF Runs
  <2>4. run' = [run EXCEPT ![r] = v] BY <1>15 DEF Captures
  <2>5. QED BY <2>3, <2>4, <1>0 DEF RunsFit, ReadsKnow, Runners
<1>16. CASE Commits("command")
  <2> DEFINE w == run["command"]
             v == [NoRun EXCEPT !.pc = "answer", !.id = w.id, !.since = w.since,
                                !.seen = w.seen, !.delta = DeltaOf(w), !.fresh = w.fresh]
  <2>1. w \in Runs /\ Known(w) /\ w.pc = "commit" BY <1>0, <1>16 DEF Runners, Commits
  <2>2. DeltaOf(w) \in Deltas
    <3>1. \A i \in DOMAIN memory.cache : memory.cache[i].els \in SUBSET Refs
      <4>1. \A i \in DOMAIN memory.cache : memory.cache[i] \in Entries BY DEF MemoryFits, Memories
      <4>2. QED BY <4>1 DEF Entries
    <3>2. QED BY <3>1, <2>1 DEF DeltaOf, Delta, Deltas, Runs
  <2>3. v \in Runs /\ Known(v) BY <2>1, <2>2, NoRunFits DEF NoRun, Runs, Known, Pcs
  <2>4. run' = [run EXCEPT !["command"] = v] BY <1>16 DEF Commits
  <2>5. QED BY <2>3, <2>4, <1>3
<1>17. CASE World
  BY <1>17, <1>1, <1>2, <1>5 DEF World, PageMoves, PopupOpens, PopupCloses, ContextEnds, Resume
<1>18. CASE Posts
  <2>1. agent.last \in Ids /\ 0 \in Ids BY CommandAssumption DEF Ids, CommandAssumption
  <2>2. QED BY <1>18, <2>1, <1>1, <1>6, <1>14 DEF Posts, ResumeFromPause, PostRead, Runners
<1>19. CASE Steps
  BY <1>19, <1>4, <1>7, <1>8, <1>9, <1>10, <1>11, <1>12, <1>13
     DEF Steps, PauseForHuman, Navigated, Answered, SwitchTab, Begins, Done, Runners
<1>20. ASSUME NEW r \in Runners, Reads(r) PROVE RunsFit'
  BY <1>20, <1>4, <1>15, <1>16 DEF Reads, Fails, Commits, Runners
<1>21. QED BY <1>17, <1>18, <1>19, <1>20 DEF CommandNext

-----------------------------------------------------------------------------
(* Commands stay on their tab.                                             *)

LEMMA TabStaysKept ==
  ASSUME CommandTypeOK, TabsKnown, TabKept, CommandNext
  PROVE  TabKept'
<1>0. AreTabs(tabs) /\ active \in Nat /\ DOMAIN tabs = 1 .. Len(tabs) /\ Len(tabs) \in Nat
  BY DEF CommandTypeOK, TabsFit, AreTabs
<1>1. CASE UNCHANGED page BY <1>1 DEF page, TabKept
<1>2. CASE chosen' = Nothing BY <1>2 DEF TabKept
<1>3. ASSUME NEW i \in DOMAIN tabs, NEW url \in Urls, PageMoves(i, url) PROVE TabKept'
  BY <1>0, <1>3, OneMoved DEF PageMoves, TabKept
<1>4. ASSUME NEW t \in NewTabs, PopupOpens(t) \/ OpensTab(t) PROVE TabKept'
  BY <1>0, <1>4, OneMore DEF PopupOpens, OpensTab, TabKept
<1>5. ASSUME NEW t \in NewTabs, Resume(t) PROVE TabKept'
  BY <1>0, <1>5 DEF Resume, TabKept, TabsKnown
<1>6. ASSUME NEW t \in Spare, Found(t), chosen' = chosen PROVE TabKept'
  <2> SUFFICES ASSUME chosen # Nothing PROVE active' \in DOMAIN tabs' /\ tabs'[active'].id = chosen
    BY <1>6 DEF TabKept
  <2>1. active \in DOMAIN tabs /\ tabs[active].id = chosen BY DEF TabKept
  <2>2. Pages(t) = tabs BY <2>1, <1>0, PagesFit
  <2>3. Least(active, Len(Pages(t))) = active BY <2>1, <2>2, <1>0 DEF Least
  <2>4. QED BY <2>1, <2>2, <2>3, <1>6 DEF Found
<1>7. ASSUME NEW t \in Spare, NEW url \in Urls, Navigate(t, url) PROVE TabKept'
  <2> SUFFICES ASSUME chosen # Nothing PROVE active' \in DOMAIN tabs' /\ tabs'[active'].id = chosen
    BY <1>7 DEF TabKept, Navigate
  <2>1. active \in DOMAIN tabs /\ tabs[active].id = chosen BY DEF TabKept
  <2>2. Pages(t) = tabs BY <2>1, <1>0, PagesFit
  <2>3. Least(active, Len(Pages(t))) = active BY <2>1, <2>2, <1>0 DEF Least
  <2>4. active' = active /\ tabs' = [tabs EXCEPT ![active].url = url] BY <2>2, <2>3, <1>7 DEF Navigate
  <2>5. QED BY <2>1, <2>4, <1>0, OneMoved
<1>8. CASE SelectsTab
  <2>1. run["command"].tab \in Open \cup {Nothing} BY DEF TabsKnown, Runners
  <2>2. /\ tabs' = tabs /\ chosen' = run["command"].tab
        /\ active' = IF run["command"].tab \in Open THEN TabOf(run["command"].tab) ELSE Len(tabs)
    BY <1>8 DEF SelectsTab, IndexOfNew
  <2>3. QED BY <2>1, <2>2, <1>0, TabFound DEF TabKept
<1>9. ASSUME NEW i \in DOMAIN tabs, SwitchTab(i) PROVE TabKept'
  BY <1>9 DEF SwitchTab, TabKept
<1>10. CASE World
  BY <1>10, <1>1, <1>2, <1>3, <1>4, <1>5 DEF World, DeathHeard, PopupCloses, ContextEnds
<1>11. CASE Posts
  BY <1>11, <1>1, <1>6 DEF Posts, Post, ResumeFromPause, PostRead, Read
<1>12. CASE Steps
  BY <1>12, <1>1, <1>2, <1>4, <1>6, <1>7, <1>8, <1>9 DEF Steps, PauseForHuman, Acts, Navigated, Answered, Act, CloseTab
<1>13. ASSUME NEW r \in Runners, Reads(r) PROVE TabKept'
  BY <1>13, <1>1 DEF Reads, Fails, Commits, Captures
<1>14. QED BY <1>10, <1>11, <1>12, <1>13 DEF CommandNext

LEMMA TabsStayKnown ==
  ASSUME CommandTypeOK, RunsFit, TabsKnown, CommandNext
  PROVE  TabsKnown'
<1>0. /\ AreTabs(tabs) /\ run \in [Runners -> Runs] /\ \A r \in Runners : run[r].tab \in Open \cup {Nothing}
      /\ status = "dead" => ~ctx
      /\ ~ctx => tabs = << >>
      /\ DOMAIN tabs = 1 .. Len(tabs) /\ Len(tabs) \in Nat
  BY DEF CommandTypeOK, TabsFit, AreTabs, TabsKnown
<1>1. tabs' = tabs => Open' = Open BY DEF Open
<1>2. ASSUME tabs' = tabs, ctx' = ctx, status' = status \/ status' # "dead" \/ ~ctx,
             \A r \in Runners : run'[r].tab \in {run[r].tab, Nothing}
      PROVE  TabsKnown'
  BY <1>0, <1>1, <1>2 DEF TabsKnown
<1>3. ASSUME Open \subseteq Open', ctx, ctx' = ctx, status' = status,
             \A r \in Runners : run'[r].tab \in {run[r].tab, Nothing} \cup Open'
      PROVE  TabsKnown'
  BY <1>0, <1>3 DEF TabsKnown
<1>4. ASSUME NEW i \in DOMAIN tabs, NEW url \in Urls, PageMoves(i, url) PROVE TabsKnown'
  <2>1. DOMAIN tabs' = DOMAIN tabs /\ \A j \in DOMAIN tabs : tabs'[j].id = tabs[j].id
    BY <1>0, <1>4, OneMoved DEF PageMoves
  <2>2. ctx BY <1>0
  <2>3. Open \subseteq Open' BY <2>1 DEF Open
  <2>4. QED BY <2>2, <2>3, <1>3, <1>4 DEF PageMoves
<1>5. ASSUME NEW t \in NewTabs, PopupOpens(t) \/ OpensTab(t) PROVE TabsKnown'
  <2>1. ctx /\ ctx' = ctx /\ status' = status /\ tabs' = Append(tabs, t) /\ t.id \notin Open
    BY <1>5 DEF PopupOpens, OpensTab, Begins
  <2>2. \A i \in DOMAIN tabs : i \in DOMAIN tabs' /\ tabs'[i] = tabs[i] BY <2>1, <1>0, OneMore
  <2>3. Len(tabs) + 1 \in DOMAIN tabs' /\ tabs'[Len(tabs) + 1] = t
    <3>1. tabs' \in Seq(NewTabs) /\ Len(tabs') = Len(tabs) + 1 BY <2>1, <1>0, OneMore DEF AreTabs
    <3>2. QED BY <3>1, <2>1, <1>0, OneMore
  <2>4. Open \subseteq Open' /\ t.id \in Open' BY <2>2, <2>3 DEF Open
  <2>5. \A r \in Runners : run'[r].tab \in {run[r].tab, t.id}
    BY <1>5, <1>0 DEF PopupOpens, OpensTab, Runners, Runs
  <2>6. QED BY <2>1, <2>4, <2>5, <1>3
<1>6. ASSUME NEW i \in DOMAIN tabs, tabs' = RemoveAt(tabs, i), ctx' = ctx, status' = status,
             \A r \in Runners : run'[r].tab = IF run[r].tab = tabs[i].id THEN Nothing ELSE run[r].tab
      PROVE  TabsKnown'
  <2>0. \A k \in DOMAIN tabs \ {i} : \E j \in DOMAIN RemoveAt(tabs, i) : RemoveAt(tabs, i)[j] = tabs[k]
    BY <1>0, OneLess
  <2>1. \A k \in DOMAIN tabs \ {i} : \E j \in DOMAIN tabs' : tabs'[j] = tabs[k] BY <2>0, <1>6
  <2>2. Open \ {tabs[i].id} \subseteq Open' BY <2>1 DEF Open
  <2>3. ctx BY <1>0
  <2>4. QED BY <2>2, <2>3, <1>0, <1>6 DEF TabsKnown
<1>7. ASSUME NEW i \in DOMAIN tabs, PopupCloses(i) PROVE TabsKnown'
  <2>1. \A r \in Runners : run'[r].tab = IF run[r].tab \in {tabs[i].id} THEN Nothing ELSE run[r].tab
    BY <1>7, LosingFits DEF PopupCloses
  <2>2. QED BY <2>1, <1>6, <1>7 DEF PopupCloses
<1>8. ASSUME NEW i \in DOMAIN tabs, CloseTab(i) PROVE TabsKnown'
  <2> DEFINE lost == Losing(run, {tabs[i].id})
  <2>1. lost \in [Runners -> Runs]
        /\ \A r \in Runners : lost[r].tab = IF run[r].tab \in {tabs[i].id} THEN Nothing ELSE run[r].tab
    BY LosingFits
  <2>2. run' = [lost EXCEPT !["command"] = Ended(lost["command"])] BY <1>8 DEF CloseTab
  <2> HIDE DEF lost
  <2>3. Ended(lost["command"]).tab = lost["command"].tab BY <2>1 DEF Ended, Runs, Runners
  <2>4. \A r \in Runners : run'[r].tab = IF run[r].tab = tabs[i].id THEN Nothing ELSE run[r].tab
    BY <2>1, <2>2, <2>3
  <2>5. QED BY <2>4, <1>6, <1>8 DEF CloseTab
<1>9. CASE ContextEnds
  <2>1. \A r \in Runners : run'[r].tab = IF run[r].tab \in Open THEN Nothing ELSE run[r].tab
    BY <1>9, LosingFits DEF ContextEnds
  <2>2. QED BY <2>1, <1>0, <1>9 DEF ContextEnds, TabsKnown
<1>10. CASE DeathHeard
  BY <1>0, <1>1, <1>10 DEF DeathHeard, page, TabsKnown, Runs
<1>11. ASSUME NEW t \in NewTabs, Resume(t) PROVE TabsKnown'
  <2>1. Open = {} BY <1>0, <1>11 DEF Resume, Open
  <2>2. QED BY <2>1, <1>0, <1>11 DEF Resume, TabsKnown
<1>12. ASSUME NEW t \in Spare, Found(t), ctx, ctx' = ctx, status' = status \/ status' # "dead",
              \A r \in Runners : run'[r].tab \in {run[r].tab, Here(t).id}
       PROVE  TabsKnown'
  <2>1. /\ AreTabs(tabs') /\ Len(tabs') \in Nat \ {0} /\ tabs' = Pages(t)
        /\ \A i \in DOMAIN tabs : i \in DOMAIN tabs' /\ tabs'[i] = tabs[i]
    BY <1>0, <1>12, PagesFit DEF Found
  <2>2. Least(active, Len(tabs')) \in DOMAIN tabs' BY <2>1 DEF Least, AreTabs, CommandTypeOK, TabsFit
  <2>3. Open \subseteq Open' BY <2>1 DEF Open
  <2>4. Here(t).id \in Open' BY <2>1, <2>2 DEF Open, Here
  <2>5. QED BY <2>3, <2>4, <1>0, <1>12 DEF TabsKnown
<1>13. ASSUME NEW t \in Spare, NEW url \in Urls, Navigate(t, url) PROVE TabsKnown'
  <2>1. /\ AreTabs(Pages(t)) /\ Len(Pages(t)) \in Nat \ {0}
        /\ \A i \in DOMAIN tabs : i \in DOMAIN Pages(t) /\ Pages(t)[i] = tabs[i]
    BY <1>0, PagesFit
  <2>2. active' \in DOMAIN Pages(t) /\ tabs' = [Pages(t) EXCEPT ![active'].url = url]
    BY <1>13, <2>1 DEF Navigate, Least, AreTabs, CommandTypeOK, TabsFit
  <2>3. DOMAIN tabs' = DOMAIN Pages(t) /\ \A j \in DOMAIN Pages(t) : tabs'[j].id = Pages(t)[j].id
    BY <2>1, <2>2, OneMoved
  <2>4. Open \subseteq Open' BY <2>1, <2>3 DEF Open
  <2>5. \A r \in Runners : run'[r].tab = run[r].tab BY <1>13, <1>0 DEF Navigate, Runners, Runs
  <2>6. QED BY <2>4, <2>5, <1>3, <1>13 DEF Navigate, Begins
<1>14. ASSUME NEW r \in Runners, run' = [run EXCEPT ![r] = NoRun], UNCHANGED <<page, status>> PROVE TabsKnown'
  BY <1>2, <1>0, <1>14 DEF NoRun, page
<1>15. ASSUME UNCHANGED page, status' = status \/ status' # "dead", Done(run["command"]) PROVE TabsKnown'
  <2>1. Ended(run["command"]).tab = run["command"].tab BY <1>0 DEF Ended, Runs, Runners
  <2>2. QED BY <2>1, <1>0, <1>2, <1>15 DEF Done, page
<1>16. ASSUME NEW v, tabs' = tabs, ctx' = ctx, status' = status \/ status' # "dead", v.tab \in {run["command"].tab, Nothing},
              run' = [run EXCEPT !["command"] = v]
       PROVE  TabsKnown'
  BY <1>2, <1>0, <1>16 DEF Runners
<1>17. CASE Acts
  <2> DEFINE v == Ended([NoRun EXCEPT !.left = run["command"].left])
  <2>1. v.tab = Nothing BY DEF Ended, NoRun
  <2>2. run' = [run EXCEPT !["command"] = v] /\ UNCHANGED <<page, status>> BY <1>17 DEF Acts, Done
  <2> HIDE DEF v
  <2>3. QED BY <2>1, <2>2, <1>16 DEF page
<1>18. CASE SelectsTab
  <2> DEFINE v == Ended([run["command"] EXCEPT !.tab = Nothing])
  <2>1. v.tab = Nothing BY <1>0 DEF Ended, Runs, Runners
  <2>2. run' = [run EXCEPT !["command"] = v] /\ UNCHANGED <<ctx, tabs, status>> BY <1>18 DEF SelectsTab, Done
  <2> HIDE DEF v
  <2>3. QED BY <2>1, <2>2, <1>16
<1>19. ASSUME NEW t \in Spare, NEW i \in DOMAIN descs, Act(t, descs[i]) PROVE TabsKnown'
  <2>1. \A r \in Runners : run'[r].tab \in {run[r].tab, Here(t).id} BY <1>19, <1>0 DEF Act, Runners, Runs
  <2>2. QED BY <2>1, <1>12, <1>19 DEF Act, Begins
<1>20. ASSUME NEW r \in Runners, NEW t \in Spare, NEW since, Read(r, t, since), status' = status \/ status' # "dead"
       PROVE  TabsKnown'
  <2>1. \A q \in Runners : run'[q].tab \in {run[q].tab, Here(t).id} BY <1>20, <1>0 DEF Read, NoRun
  <2>2. QED BY <2>1, <1>12, <1>20 DEF Read
<1>21. ASSUME NEW n \in 1 .. MaxSteps, Post(n) PROVE TabsKnown'
  <2> DEFINE v == [NoRun EXCEPT !.pc = "step", !.left = n]
  <2>1. v.tab = Nothing BY DEF NoRun
  <2>2. run' = [run EXCEPT !["command"] = v] /\ UNCHANGED <<page, status>> BY <1>21 DEF Post
  <2> HIDE DEF v
  <2>3. QED BY <2>1, <2>2, <1>16 DEF page
<1>22. ASSUME NEW r \in Runners, NEW els \in SUBSET Refs, Captures(r, els) PROVE TabsKnown'
  <2>1. \A q \in Runners : run'[q].tab \in {run[q].tab, Nothing} BY <1>22, <1>0 DEF Captures, Runs
  <2>2. QED BY <2>1, <1>2, <1>22 DEF Captures, page
<1>23. ASSUME NEW r \in Runners, Commits(r) PROVE TabsKnown'
  <2>1. \A q \in Runners : run'[q].tab \in {run[q].tab, Nothing} BY <1>23, <1>0 DEF Commits, NoRun
  <2>2. QED BY <2>1, <1>2, <1>23 DEF Commits, page
<1>24. CASE World
  BY <1>24, <1>4, <1>5, <1>7, <1>9, <1>10, <1>11 DEF World
<1>25. CASE Posts
  BY <1>25, <1>2, <1>20, <1>21 DEF Posts, ResumeFromPause, PostRead, Runners, page
<1>26. CASE Steps
  <2>1. PauseForHuman => TabsKnown' BY <1>15 DEF PauseForHuman
  <2>2. Navigated => TabsKnown' BY <1>15 DEF Navigated
  <2>3. ASSUME NEW i \in DOMAIN tabs, SwitchTab(i) PROVE TabsKnown'
    <3> DEFINE v == Ended(run["command"])
    <3>1. v.tab = run["command"].tab BY <1>0 DEF Ended, Runs, Runners
    <3>2. run' = [run EXCEPT !["command"] = v] /\ UNCHANGED <<ctx, tabs, status>> BY <2>3 DEF SwitchTab, Done
    <3> HIDE DEF v
    <3>3. QED BY <3>1, <3>2, <1>16
  <2>4. ASSUME NEW heard \in BOOLEAN, Answered(heard) PROVE TabsKnown' BY <2>4, <1>14 DEF Answered, Runners
  <2>5. QED BY <1>26, <2>1, <2>2, <2>3, <2>4, <1>5, <1>8, <1>13, <1>17, <1>18, <1>19 DEF Steps
<1>27. ASSUME NEW r \in Runners, Reads(r) PROVE TabsKnown'
  BY <1>27, <1>14, <1>22, <1>23 DEF Reads, Fails
<1>28. QED BY <1>24, <1>25, <1>26, <1>27 DEF CommandNext

-----------------------------------------------------------------------------
(* Refs are of the page they were read on.                                 *)

(* What runs goes on with what it knows, or is past its waits. *)
SamePlace(w, v) ==
  w.pc \in {"capture", "commit", "act"} =>
    w.pc = v.pc /\ w.place = v.place /\ w.url = v.url /\ w.tab \in {v.tab, Nothing}

LEMMA PlacesStay ==
  ASSUME CommandTypeOK, TabsFit', TabsKnown, PlacesAgree,
         "strayed" \in flaws => "strayed" \in flaws',
         "strayed" \notin flaws' => \A j \in DOMAIN tabs' : tabs'[j].id \in Open => \E i \in DOMAIN tabs : tabs'[j] = tabs[i],
         \A r \in Runners : SamePlace(run'[r], run[r]) \/ ("strayed" \notin flaws' => Placed(run[r])'),
         "strayed" \notin flaws => \A i \in DOMAIN descs' : descs'[i].read = descs'[i].url
  PROVE  PlacesAgree'
<1> SUFFICES ASSUME "strayed" \notin flaws', NEW r \in Runners PROVE Placed(run[r])'
  BY DEF PlacesAgree
<1>1. Placed(run[r]) /\ run[r].tab \in Open \cup {Nothing} BY DEF PlacesAgree, TabsKnown
<1>2. \A j \in DOMAIN tabs' : tabs'[j].id \in TabIds
  <2>1. \A j \in DOMAIN tabs' : tabs'[j] \in NewTabs BY DEF TabsFit, AreTabs
  <2>2. QED BY <2>1 DEF NewTabs
<1>3. ASSUME SamePlace(run'[r], run[r]) PROVE Placed(run[r])'
  <2> SUFFICES ASSUME run'[r].pc = "capture", NEW j \in DOMAIN tabs', tabs'[j].id = run'[r].tab
               PROVE  tabs'[j].url = run'[r].url
    BY <1>1, <1>3 DEF Placed, SamePlace
  <2>1. run'[r].tab # Nothing BY <1>2, CommandAssumption DEF CommandAssumption
  <2>2. run[r].pc = "capture" /\ run'[r].tab = run[r].tab /\ run'[r].url = run[r].url
    BY <2>1, <1>3 DEF SamePlace
  <2>3. tabs'[j].id \in Open BY <1>1, <2>1, <2>2
  <2>4. QED BY <2>2, <2>3, <1>1 DEF Placed
<1>4. QED BY <1>3

LEMMA PlacesAgreeStill ==
  ASSUME CommandTypeOK, RunsFit, TabsKnown, PlacesAgree, CommandNext
  PROVE  PlacesAgree'
<1>0. /\ TabsFit' /\ AreTabs(tabs) /\ run \in [Runners -> Runs]
      /\ \A i \in DOMAIN tabs : tabs[i].id \in Open
      /\ DOMAIN tabs = 1 .. Len(tabs) /\ Len(tabs) \in Nat
  BY TabsStayFit DEF CommandTypeOK, TabsFit, AreTabs, Open
<1>32. ASSUME NEW i \in DOMAIN tabs
      PROVE  \A j \in DOMAIN RemoveAt(tabs, i) : \E k \in DOMAIN tabs : RemoveAt(tabs, i)[j] = tabs[k]
  <2>1. \A j \in DOMAIN RemoveAt(tabs, i) : \E k \in DOMAIN tabs \ {i} : RemoveAt(tabs, i)[j] = tabs[k]
    BY <1>0, OneLess
  <2>2. QED BY <2>1
<1>1. "strayed" \notin flaws => \A i \in DOMAIN descs : descs[i].read = descs[i].url BY DEF PlacesAgree
<1>2. \A i \in DOMAIN << >> : << >>[i].read = << >>[i].url OBVIOUS
<1>3. ASSUME tabs' = tabs \/ tabs' = << >> \/ (\E i \in DOMAIN tabs : tabs' = RemoveAt(tabs, i)),
             flaws' = flaws, descs' = descs \/ descs' = << >>,
             \A r \in Runners : SamePlace(run'[r], run[r])
      PROVE  PlacesAgree'
  <2>1. \A j \in DOMAIN tabs' : \E i \in DOMAIN tabs : tabs'[j] = tabs[i]
    <3>1. CASE tabs' = tabs BY <3>1
    <3>2. CASE tabs' = << >> BY <3>2
    <3>3. ASSUME NEW i \in DOMAIN tabs, tabs' = RemoveAt(tabs, i)
          PROVE  \A j \in DOMAIN tabs' : \E k \in DOMAIN tabs : tabs'[j] = tabs[k]
      <4>1. \A j \in DOMAIN RemoveAt(tabs, i) : \E k \in DOMAIN tabs : RemoveAt(tabs, i)[j] = tabs[k] BY <1>32
      <4>2. QED BY <4>1, <3>3
    <3>4. QED BY <3>1, <3>2, <3>3, <1>3
  <2>2. QED BY <2>1, <1>0, <1>1, <1>2, <1>3, PlacesStay
<1>4. ASSUME tabs' = tabs, flaws' = flaws, descs' = descs,
             NEW r \in Runners, NEW v, run' = [run EXCEPT ![r] = v], v.pc \notin {"capture", "commit", "act"}
      PROVE  PlacesAgree'
  <2>1. \A q \in Runners : SamePlace(run'[q], run[q]) BY <1>0, <1>4 DEF SamePlace
  <2>2. QED BY <2>1, <1>3, <1>4
<1>5. ASSUME NEW t, t.id \notin Open,
             \A j \in DOMAIN tabs' : tabs'[j] = t \/ \E i \in DOMAIN tabs : tabs'[j] = tabs[i]
      PROVE  \A j \in DOMAIN tabs' : tabs'[j].id \in Open => \E i \in DOMAIN tabs : tabs'[j] = tabs[i]
  BY <1>5
<1>6. ASSUME NEW i \in DOMAIN tabs, NEW url \in Urls, PageMoves(i, url) PROVE PlacesAgree'
  <2>1. tabs' = [tabs EXCEPT ![i].url = url] /\ flaws' = Strayed(tabs[i].id) /\ run' = run /\ descs' = descs
    BY <1>6 DEF PageMoves
  <2>2. /\ DOMAIN tabs' = DOMAIN tabs
        /\ \A j \in DOMAIN tabs : tabs'[j].id = tabs[j].id /\ (j # i => tabs'[j] = tabs[j])
    BY <2>1, <1>0, OneMoved
  <2> SUFFICES ASSUME "strayed" \notin flaws' PROVE PlacesAgree' BY DEF PlacesAgree
  <2>3. "strayed" \notin flaws /\ \A r \in Runners : run[r].pc = "capture" => run[r].tab # tabs[i].id
    BY <2>1 DEF Strayed
  <2>4. \A r \in Runners : Placed(run[r]) BY <2>3 DEF PlacesAgree
  <2>5. \A r \in Runners : Placed(run[r])' BY <2>1, <2>2, <2>3, <2>4 DEF Placed
  <2>6. QED BY <2>1, <2>3, <2>5, <1>1 DEF PlacesAgree
<1>7. ASSUME NEW t \in NewTabs, PopupOpens(t) \/ OpensTab(t) PROVE PlacesAgree'
  <2>1. tabs' = Append(tabs, t) /\ t.id \notin Open /\ flaws' = flaws /\ descs' = descs
    BY <1>7 DEF PopupOpens, OpensTab
  <2>2. \A j \in DOMAIN tabs' : tabs'[j] = t \/ \E i \in DOMAIN tabs : tabs'[j] = tabs[i]
    BY <2>1, <1>0, OneMore
  <2>3. \A r \in Runners : SamePlace(run'[r], run[r])
    BY <1>7, <1>0 DEF PopupOpens, OpensTab, SamePlace, Runs, Runners
  <2>4. QED BY <2>1, <2>2, <2>3, <1>0, <1>1, <1>5, PlacesStay
<1>8. ASSUME NEW t \in NewTabs, Resume(t) PROVE PlacesAgree'
  <2>1. Open = {} /\ flaws' = flaws /\ descs' = descs /\ run' = run BY <1>8, <1>0 DEF Resume, TabsKnown, Open
  <2>2. \A r \in Runners : SamePlace(run'[r], run[r]) BY <2>1 DEF SamePlace
  <2>3. QED BY <2>1, <2>2, <1>0, <1>1, PlacesStay
<1>9. ASSUME NEW ids, run' = Losing(run, ids) PROVE \A r \in Runners : SamePlace(run'[r], run[r])
  <2>1. ASSUME NEW r \in Runners
        PROVE  Losing(run, ids)[r] = [run[r] EXCEPT !.tab = IF run[r].tab \in ids THEN Nothing ELSE run[r].tab]
    BY <1>0 DEF Losing
  <2>2. ASSUME NEW r \in Runners PROVE SamePlace(run'[r], run[r])
    <3>1. run[r] \in Runs BY <1>0
    <3>2. run'[r] = [run[r] EXCEPT !.tab = IF run[r].tab \in ids THEN Nothing ELSE run[r].tab]
      BY <1>9, <2>1
    <3>3. QED BY ONLY <3>1, <3>2 DEF SamePlace, Runs
  <2>3. QED BY <2>2
<1>10. ASSUME NEW i \in DOMAIN tabs, CloseTab(i) PROVE PlacesAgree'
  <2> DEFINE lost == Losing(run, {tabs[i].id})
  <2>1. lost \in [Runners -> Runs] /\ \A r \in Runners : SamePlace(lost[r], run[r]) /\ lost[r].pc = run[r].pc
    <3>1. lost \in [Runners -> Runs] /\ \A r \in Runners : lost[r].pc = run[r].pc BY LosingFits
    <3>2. ASSUME NEW r \in Runners
          PROVE  lost[r] = [run[r] EXCEPT !.tab = IF run[r].tab \in {tabs[i].id} THEN Nothing ELSE run[r].tab]
      BY <1>0 DEF Losing
    <3> HIDE DEF lost
    <3>3. ASSUME NEW r \in Runners PROVE SamePlace(lost[r], run[r])
      <4>1. run[r] \in Runs BY <1>0
      <4>2. QED BY ONLY <4>1, <3>2 DEF SamePlace, Runs
    <3>4. QED BY <3>1, <3>3
  <2>2. run' = [lost EXCEPT !["command"] = Ended(lost["command"])] BY <1>10 DEF CloseTab
  <2> HIDE DEF lost
  <2>3. Ended(lost["command"]).pc \in {"step", "answer"} BY <2>1 DEF Ended, Runs, Runners
  <2>4. \A r \in Runners : SamePlace(run'[r], run[r]) BY <2>1, <2>2, <2>3 DEF SamePlace
  <2>5. QED BY <2>4, <1>3, <1>10 DEF CloseTab
<1>11. CASE DeathHeard
  <2>1. \A r \in Runners : SamePlace(run'[r], run[r]) BY <1>11, <1>0 DEF DeathHeard, SamePlace, Runs
  <2>2. QED BY <2>1, <1>3, <1>11 DEF DeathHeard, page
<1>12. ASSUME NEW t \in Spare
       PROVE  \A j \in DOMAIN Pages(t) : Pages(t)[j].id \in Open => \E i \in DOMAIN tabs : Pages(t)[j] = tabs[i]
  <2>1. CASE tabs = << >> BY <2>1 DEF Open
  <2>2. CASE tabs # << >> BY <2>2 DEF Pages
  <2>3. QED BY <2>1, <2>2
<1>13. ASSUME NEW t \in Spare
       PROVE  /\ AreTabs(Pages(t)) /\ Least(active, Len(Pages(t))) \in DOMAIN Pages(t)
              /\ \A j \in DOMAIN Pages(t) : Pages(t)[j].id = Here(t).id => Pages(t)[j].url = Here(t).url
  <2>1. AreTabs(Pages(t)) /\ Len(Pages(t)) \in Nat \ {0} BY <1>0, PagesFit
  <2>2. Least(active, Len(Pages(t))) \in DOMAIN Pages(t) BY <2>1 DEF AreTabs, Least, CommandTypeOK, TabsFit
  <2>3. QED BY <2>1, <2>2 DEF AreTabs, Here
<1>14. ASSUME NEW t \in Spare, NEW i \in DOMAIN descs, Act(t, descs[i]) PROVE PlacesAgree'
  <2> DEFINE v == [run["command"] EXCEPT !.pc = "act", !.tab = Here(t).id, !.url = Here(t).url, !.place = descs[i].read]
  <2>1. tabs' = Pages(t) /\ flaws' = flaws /\ descs' = descs /\ run' = [run EXCEPT !["command"] = v] /\ descs[i].url = Here(t).url
    BY <1>14 DEF Act, Found, Resolves
  <2>2. v.pc = "act" /\ v.url = Here(t).url /\ v.place = descs[i].read BY <1>0 DEF Runs, Runners
  <2> HIDE DEF v
  <2>3. \A r \in Runners : SamePlace(run'[r], run[r]) \/ ("strayed" \notin flaws' => Placed(run[r])')
    BY <2>1, <2>2, <1>0, <1>1 DEF SamePlace, Placed, Runners
  <2>4. QED BY <2>1, <2>3, <1>0, <1>1, <1>12, PlacesStay
<1>15. ASSUME NEW t \in Spare, NEW url \in Urls, Navigate(t, url) PROVE PlacesAgree'
  <2> DEFINE i == Least(active, Len(Pages(t)))
  <2>1. /\ tabs' = [Pages(t) EXCEPT ![i].url = url] /\ flaws' = Strayed(Here(t).id) /\ descs' = descs
        /\ Here(t) = Pages(t)[i] /\ i \in DOMAIN Pages(t)
    BY <1>15, <1>13 DEF Navigate, Here
  <2> HIDE DEF i
  <2>2. /\ DOMAIN tabs' = DOMAIN Pages(t)
        /\ \A j \in DOMAIN Pages(t) : tabs'[j].id = Pages(t)[j].id /\ (j # i => tabs'[j] = Pages(t)[j])
    BY <2>1, <1>13, OneMoved
  <2> SUFFICES ASSUME "strayed" \notin flaws' PROVE PlacesAgree' BY DEF PlacesAgree
  <2>3. "strayed" \notin flaws /\ \A r \in Runners : run[r].pc = "capture" => run[r].tab # Pages(t)[i].id
    BY <2>1 DEF Strayed
  <2>4. \A r \in Runners : Placed(run[r]) /\ run[r].tab \in Open \cup {Nothing}
    BY <2>3 DEF PlacesAgree, TabsKnown
  <2>5. \A r \in Runners : SamePlace(run'[r], run[r]) /\ (run'[r].pc = "capture" => run'[r] = run[r])
    BY <1>15, <1>0 DEF Navigate, SamePlace, Runs, Runners
  <2>6. \A j \in DOMAIN Pages(t) : Pages(t)[j].id \in TabIds
    <3>1. \A j \in DOMAIN Pages(t) : Pages(t)[j] \in NewTabs BY <1>13 DEF AreTabs
    <3>2. QED BY <3>1 DEF NewTabs
  <2>7. ASSUME NEW r \in Runners, run'[r].pc = "capture", NEW j \in DOMAIN tabs', tabs'[j].id = run'[r].tab
        PROVE  tabs'[j].url = run'[r].url
    <3>1. run'[r] = run[r] /\ run[r].pc = "capture" /\ j \in DOMAIN Pages(t) /\ Pages(t)[j].id = run[r].tab
      BY <2>5, <2>2, <2>7
    <3>2. tabs'[j] = Pages(t)[j] /\ Pages(t)[j].id \in Open
      BY <3>1, <2>2, <2>3, <2>4, <2>6, CommandAssumption DEF CommandAssumption
    <3>3. PICK k \in DOMAIN tabs : Pages(t)[j] = tabs[k] BY <3>1, <3>2, <1>12
    <3>4. QED BY <3>1, <3>2, <3>3, <2>4 DEF Placed
  <2>8. \A r \in Runners : Placed(run[r])' BY <2>4, <2>5, <2>7 DEF Placed, SamePlace
  <2>9. QED BY <2>1, <2>3, <2>8, <1>1 DEF PlacesAgree
<1>16. ASSUME NEW r \in Runners, NEW t \in Spare, NEW since, Read(r, t, since) PROVE PlacesAgree'
  <2> DEFINE v == [NoRun EXCEPT !.pc = "capture", !.tab = Here(t).id, !.fresh = TRUE,
                                !.url = Here(t).url, !.id = memory'.next, !.since = since]
  <2>1. tabs' = Pages(t) /\ flaws' = flaws /\ descs' = descs /\ run' = [run EXCEPT ![r] = v]
    BY <1>16 DEF Read, Found
  <2>2. v.pc = "capture" /\ v.url = Here(t).url /\ v.tab = Here(t).id BY DEF NoRun
  <2> HIDE DEF v
  <2>3. \A q \in Runners : SamePlace(run'[q], run[q]) \/ ("strayed" \notin flaws' => Placed(run[q])')
    BY <2>1, <2>2, <1>0, <1>13 DEF SamePlace, Placed
  <2>4. QED BY <2>1, <2>3, <1>0, <1>1, <1>12, PlacesStay
<1>17. ASSUME NEW r \in Runners, NEW els \in SUBSET Refs, Captures(r, els) PROVE PlacesAgree'
  <2> DEFINE v == [run[r] EXCEPT !.pc = "commit", !.seen = els, !.tab = Nothing, !.place = tabs[TabOf(run[r].tab)].url]
  <2>1. tabs' = tabs /\ flaws' = flaws /\ descs' = descs /\ run' = [run EXCEPT ![r] = v] /\ run[r].pc = "capture" /\ run[r].tab \in Open
    BY <1>17 DEF Captures, page
  <2>2. v.pc = "commit" /\ v.url = run[r].url /\ v.place = tabs[TabOf(run[r].tab)].url BY <1>0 DEF Runs
  <2>3. "strayed" \notin flaws => v.place = v.url
    <3>1. TabOf(run[r].tab) \in DOMAIN tabs /\ tabs[TabOf(run[r].tab)].id = run[r].tab BY <2>1, <1>0, TabFound
    <3>2. QED BY <3>1, <2>1, <2>2 DEF PlacesAgree, Placed
  <2> HIDE DEF v
  <2>4. \A q \in Runners : SamePlace(run'[q], run[q]) \/ ("strayed" \notin flaws' => Placed(run[q])')
    BY <2>1, <2>2, <2>3, <1>0 DEF SamePlace, Placed
  <2>5. QED BY <2>1, <2>4, <1>0, <1>1, PlacesStay
<1>18. ASSUME NEW r \in Runners, Commits(r) PROVE PlacesAgree'
  <2>1. /\ tabs' = tabs /\ descs' = Merged(run[r]) /\ run[r].pc = "commit" /\ ("strayed" \in flaws => "strayed" \in flaws')
        /\ \A q \in Runners : SamePlace(run'[q], run[q])
    BY <1>18, <1>0 DEF Commits, page, SamePlace, NoRun
  <2>2. \A i \in DOMAIN descs' : (\E j \in DOMAIN descs : descs'[i] = descs[j]) \/ descs'[i] \in Told(run[r])
    <3>1. run[r] \in Runs /\ run[r].url # Nothing /\ run[r].place # Nothing /\ MemoryFits
      BY <2>1 DEF RunsFit, ReadsKnow, Known, CommandTypeOK
    <3>2. QED BY <3>1, <2>1, MergedFits
  <2>3. "strayed" \notin flaws => \A d \in Told(run[r]) : d.read = d.url
    BY <2>1 DEF Told, PlacesAgree, Placed
  <2>4. "strayed" \notin flaws => \A i \in DOMAIN descs' : descs'[i].read = descs'[i].url BY <2>2, <2>3, <1>1
  <2>5. QED BY <2>1, <2>4, <1>0, PlacesStay
<1>19. CASE UNCHANGED <<tabs, flaws, descs, run>> BY <1>19 DEF PlacesAgree, Placed
<1>20. ASSUME run["command"].pc \in {"step", "goto"}, UNCHANGED <<tabs, flaws, descs>>, Done(run["command"])
       PROVE  PlacesAgree'
  <2> DEFINE v == Ended(run["command"])
  <2>1. v.pc \in {"step", "answer"} BY <1>0 DEF Ended, Runs, Runners
  <2>2. run' = [run EXCEPT !["command"] = v] BY <1>20 DEF Done
  <2> HIDE DEF v
  <2>3. QED BY <2>1, <2>2, <1>4, <1>20 DEF Runners
<1>21. CASE Acts
  <2> DEFINE v == Ended([NoRun EXCEPT !.left = run["command"].left])
  <2>1. v.pc \in {"step", "answer"} BY DEF Ended, NoRun
  <2>2. run' = [run EXCEPT !["command"] = v] /\ UNCHANGED <<tabs, flaws, descs>> BY <1>21 DEF Acts, Done, page
  <2> HIDE DEF v
  <2>3. QED BY <2>1, <2>2, <1>4 DEF Runners
<1>22. CASE SelectsTab
  <2> DEFINE v == Ended([run["command"] EXCEPT !.tab = Nothing])
  <2>1. v.pc \in {"step", "answer"} BY <1>0 DEF Ended, Runs, Runners
  <2>2. run' = [run EXCEPT !["command"] = v] /\ UNCHANGED <<tabs, flaws, descs>> BY <1>22 DEF SelectsTab, Done
  <2> HIDE DEF v
  <2>3. QED BY <2>1, <2>2, <1>4 DEF Runners
<1>23. ASSUME NEW n \in 1 .. MaxSteps, Post(n) PROVE PlacesAgree'
  <2> DEFINE v == [NoRun EXCEPT !.pc = "step", !.left = n]
  <2>1. v.pc = "step" BY DEF NoRun
  <2>2. run' = [run EXCEPT !["command"] = v] /\ UNCHANGED <<tabs, flaws, descs>> BY <1>23 DEF Post, page
  <2> HIDE DEF v
  <2>3. QED BY <2>1, <2>2, <1>4 DEF Runners
<1>24. ASSUME NEW r \in Runners, run' = [run EXCEPT ![r] = NoRun], UNCHANGED <<tabs, flaws, descs>>
       PROVE  PlacesAgree'
  <2>1. NoRun.pc = "idle" BY DEF NoRun
  <2>2. QED BY <2>1, <1>4, <1>24
<1>25. ASSUME NEW i \in DOMAIN tabs, PopupCloses(i) PROVE PlacesAgree'
  BY <1>25, <1>3, <1>9 DEF PopupCloses
<1>26. CASE ContextEnds
  BY <1>26, <1>3, <1>9 DEF ContextEnds
<1>27. CASE World BY <1>27, <1>6, <1>7, <1>8, <1>11, <1>25, <1>26 DEF World
<1>28. CASE Posts BY <1>28, <1>16, <1>19, <1>23 DEF Posts, ResumeFromPause, PostRead, page, Runners
<1>29. CASE Steps
  <2>1. PauseForHuman \/ Navigated => PlacesAgree' BY <1>20 DEF PauseForHuman, Navigated, page
  <2>2. ASSUME NEW i \in DOMAIN tabs, SwitchTab(i) PROVE PlacesAgree' BY <2>2, <1>20 DEF SwitchTab, Begins
  <2>3. ASSUME NEW heard \in BOOLEAN, Answered(heard) PROVE PlacesAgree'
    BY <2>3, <1>24 DEF Answered, Runners, page
  <2>4. QED BY <1>29, <2>1, <2>2, <2>3, <1>7, <1>10, <1>14, <1>15, <1>21, <1>22 DEF Steps
<1>30. ASSUME NEW r \in Runners, Reads(r) PROVE PlacesAgree'
  BY <1>30, <1>17, <1>18, <1>24 DEF Reads, Fails, page
<1>31. QED BY <1>27, <1>28, <1>29, <1>30 DEF CommandNext

-----------------------------------------------------------------------------
(* Deltas are true.                                                        *)

(* Who is fresh was so, of the same read, and has no other answer. *)
SameRead(w, v) ==
  w.fresh => /\ v.fresh /\ w.id = v.id
             /\ w.pc = "answer" => v.pc = "answer" /\ w.seen = v.seen
             /\ w.pc # "answer" => v.pc # "answer"

LEMMA RememberedKeeps ==
  ASSUME IdsDiffer, CacheIsTold, memory'.next = memory.next,
         \A i \in DOMAIN memory'.cache : i \in DOMAIN memory.cache /\ memory'.cache[i] = memory.cache[i],
         agent' = agent \/ ~agent.fresh',
         \A r \in Runners : SameRead(run'[r], run[r])
  PROVE  IdsDiffer' /\ CacheIsTold'
<1>1. SameRead(run'["command"], run["command"]) /\ SameRead(run'["resume"], run["resume"]) BY DEF Runners
<1>2. IdsDiffer' BY <1>1 DEF IdsDiffer, SameRead, Runners
<1>3. CacheIsTold' BY <1>1 DEF CacheIsTold, SameRead
<1>4. QED BY <1>2, <1>3

LEMMA RememberedStill ==
  ASSUME CommandTypeOK, RunsFit, Remembered, CommandNext
  PROVE  Remembered'
<1>0. /\ run \in [Runners -> Runs] /\ \A r \in Runners : run[r] \in Runs /\ Known(run[r])
      /\ memory \in Memories /\ memory.next \in Nat /\ memory.cache = memory.cache
      /\ \A r \in Runners : run[r].id \in Nat
      /\ agent.last \in Nat
  BY CommandAssumption DEF RunsFit, ReadsKnow, CommandTypeOK, MemoryFits, Memories, Runs, Ids, CommandAssumption
<1>1. "late" \in flaws => "late" \in flaws'
  <2>1. flaws \subseteq flaws'
    <3>1. World => flaws \subseteq flaws'
      BY DEF World, PageMoves, PopupOpens, PopupCloses, ContextEnds, DeathHeard, Resume, Strayed
    <3>2. Posts => flaws \subseteq flaws' BY DEF Posts, Post, ResumeFromPause, PostRead, Read
    <3>3. Steps => flaws \subseteq flaws'
      BY DEF Steps, PauseForHuman, Acts, Navigated, SelectsTab, Answered, OpensTab, Act, Navigate, SwitchTab, CloseTab, Strayed
    <3>4. ASSUME NEW r \in Runners, Reads(r) PROVE flaws \subseteq flaws'
      BY <3>4 DEF Reads, Fails, Commits, Captures
    <3>5. QED BY <3>1, <3>2, <3>3, <3>4 DEF CommandNext
  <2>2. QED BY <2>1
<1> SUFFICES ASSUME "late" \notin flaws' PROVE IdsDiffer' /\ CacheIsTold' BY DEF Remembered
<1>2. "late" \notin flaws /\ IdsDiffer /\ CacheIsTold BY <1>1 DEF Remembered
<1>3. ASSUME memory' = memory, agent' = agent, \A r \in Runners : SameRead(run'[r], run[r])
      PROVE  IdsDiffer' /\ CacheIsTold'
  BY <1>2, <1>3, RememberedKeeps
<1>4. ASSUME NEW ids, run' = Losing(run, ids), memory' = memory, agent' = agent
      PROVE  IdsDiffer' /\ CacheIsTold'
  <2>1. ASSUME NEW r \in Runners
        PROVE  Losing(run, ids)[r] = [run[r] EXCEPT !.tab = IF run[r].tab \in ids THEN Nothing ELSE run[r].tab]
    BY <1>0 DEF Losing
  <2>2. ASSUME NEW r \in Runners PROVE SameRead(Losing(run, ids)[r], run[r])
    <3>1. PICK tab : Losing(run, ids)[r] = [run[r] EXCEPT !.tab = tab] BY <2>1
    <3>2. QED BY <3>1, <1>0 DEF SameRead, Runs
  <2>3. \A r \in Runners : SameRead(run'[r], run[r]) BY <2>2, <1>4
  <2>4. QED BY <2>3, <1>3, <1>4
<1>5. ASSUME NEW r \in Runners, NEW v, run' = [run EXCEPT ![r] = v], SameRead(v, run[r]), memory' = memory, agent' = agent
      PROVE  IdsDiffer' /\ CacheIsTold'
  <2>1. \A q \in Runners : SameRead(run'[q], run[q]) BY <1>5, <1>0 DEF SameRead
  <2>2. QED BY <2>1, <1>3, <1>5
<1>6. CASE DeathHeard
  <2>1. ~agent'.fresh BY <1>6 DEF DeathHeard, CommandTypeOK
  <2>2. \A r \in Runners : ~run'[r].fresh BY <1>6, <1>0 DEF DeathHeard, Runs
  <2>3. QED BY <2>1, <2>2 DEF IdsDiffer, CacheIsTold, Runners
<1>7. ASSUME NEW r \in Runners, NEW t, NEW since, Read(r, t, since) PROVE IdsDiffer' /\ CacheIsTold'
  <2> DEFINE v == [NoRun EXCEPT !.pc = "capture", !.tab = Here(t).id, !.fresh = TRUE,
                                !.url = Here(t).url, !.id = memory'.next, !.since = since]
  <2>1. memory'.next = memory.next + 1 /\ memory'.cache = memory.cache
    BY <1>7, <1>0 DEF Read, Allocated, Memories
  <2>2. run' = [run EXCEPT ![r] = v] /\ agent' = agent BY <1>7 DEF Read
  <2>3. v.pc = "capture" /\ v.id = memory.next + 1 /\ v.fresh BY <2>1 DEF NoRun
  <2> HIDE DEF v
  <2>4. run'[r] = v /\ \A q \in Runners \ {r} : run'[q] = run[q] BY <2>2, <1>0
  <2>5. IdsDiffer' BY <2>1, <2>2, <2>3, <2>4, <1>0, <1>2 DEF IdsDiffer, Runners
  <2>6. CacheIsTold' BY <2>1, <2>2, <2>3, <2>4, <1>2 DEF CacheIsTold, Runners
  <2>7. QED BY <2>5, <2>6
<1>8. ASSUME NEW r \in Runners, Commits(r) PROVE IdsDiffer' /\ CacheIsTold'
  <2>1. PICK v \in Runs : v = run[r] BY <1>0
  <2>2. v.pc = "commit" /\ memory' = Committed(memory, v) /\ v.fresh /\ agent' = agent
    BY <1>8, <2>1 DEF Commits
  <2>3. v.url # Nothing /\ v.id # 0 /\ MemoryFits BY <2>1, <2>2, <1>0 DEF Known, CommandTypeOK
  <2>4. v.id <= memory.next /\ memory.next # 0 BY <2>1, <2>2, <2>3, <1>0, <1>2 DEF IdsDiffer
  <2>5. /\ memory'.next = memory.next
        /\ DOMAIN memory'.cache \subseteq DOMAIN memory.cache \cup {v.id}
        /\ \A i \in DOMAIN memory'.cache :
             memory'.cache[i] = IF i = v.id THEN [url |-> v.url, els |-> v.seen] ELSE memory.cache[i]
    BY <2>2, <2>3, <2>4, CommittedFits
  <2>6. \A i \in DOMAIN memory'.cache : i # v.id => i \in DOMAIN memory.cache /\ memory'.cache[i] = memory.cache[i]
    BY <2>5
  <2>7. v.id \in DOMAIN memory'.cache => memory'.cache[v.id].els = v.seen BY <2>5
  <2>8. agent.fresh => agent.last # v.id BY <2>1, <2>2, <1>2 DEF IdsDiffer
  <2>9. CASE r = "resume"
    <3>1. run'["command"] = run["command"] /\ run'["resume"] = NoRun BY <2>9, <1>8, <1>0 DEF Commits, Runners
    <3>2. ~NoRun.fresh BY DEF NoRun
    <3>3. run["command"].fresh => run["command"].id # v.id BY <2>1, <2>2, <2>9, <1>2 DEF IdsDiffer
    <3>4. IdsDiffer' BY <3>1, <3>2, <2>2, <2>5, <1>2 DEF IdsDiffer, Runners
    <3>5. CacheIsTold' BY <3>1, <3>2, <3>3, <2>2, <2>6, <2>8, <1>2 DEF CacheIsTold
    <3>6. QED BY <3>4, <3>5
  <2>10. CASE r = "command"
    <3> DEFINE w == [NoRun EXCEPT !.pc = "answer", !.id = v.id, !.since = v.since,
                                  !.seen = v.seen, !.delta = DeltaOf(v), !.fresh = v.fresh]
    <3>1. run'["command"] = w /\ run'["resume"] = run["resume"]
      BY <2>10, <2>1, <1>8, <1>0 DEF Commits, Runners
    <3>2. w.pc = "answer" /\ w.id = v.id /\ w.seen = v.seen /\ w.fresh = v.fresh BY DEF NoRun
    <3> HIDE DEF w
    <3>3. run["command"] = v BY <2>1, <2>10
    <3>4. IdsDiffer' BY <3>1, <3>2, <3>3, <2>2, <2>5, <1>2 DEF IdsDiffer, Runners
    <3>5. CacheIsTold' BY <3>1, <3>2, <2>2, <2>6, <2>7, <2>8, <1>2 DEF CacheIsTold
    <3>6. QED BY <3>4, <3>5
  <2>11. QED BY <2>9, <2>10 DEF Runners
<1>9. ASSUME NEW heard \in BOOLEAN, Answered(heard) PROVE IdsDiffer' /\ CacheIsTold'
  <2> DEFINE v == run["command"]
  <2>1. v.pc = "answer" /\ memory' = memory /\ run' = [run EXCEPT !["command"] = NoRun] BY <1>9 DEF Answered
  <2>2. run'["command"] = NoRun /\ run'["resume"] = run["resume"] /\ ~NoRun.fresh
    BY <2>1, <1>0 DEF Runners, NoRun
  <2>3. CASE agent' = agent
    <3>1. \A r \in Runners : SameRead(run'[r], run[r]) BY <2>2 DEF SameRead, Runners
    <3>2. QED BY <3>1, <2>1, <2>3, <1>3
  <2>4. CASE agent' = [last |-> v.id, els |-> v.seen, fresh |-> v.fresh] /\ v.id # 0
    <3>1. IdsDiffer' BY <2>1, <2>2, <2>4, <1>2 DEF IdsDiffer, Runners
    <3>2. CacheIsTold' BY <2>1, <2>2, <2>4, <1>2 DEF CacheIsTold
    <3>3. QED BY <3>1, <3>2
  <2>5. QED BY <2>3, <2>4, <1>9 DEF Answered
<1>10. ASSUME NEW v, ~v.fresh, run' = [run EXCEPT !["command"] = v], memory' = memory, agent' = agent
       PROVE  IdsDiffer' /\ CacheIsTold'
  <2>1. SameRead(v, run["command"]) BY <1>10 DEF SameRead
  <2>2. QED BY <2>1, <1>5, <1>10 DEF Runners
<1>11. CASE UNCHANGED <<memory, run, agent>> BY <1>2, <1>11 DEF IdsDiffer, CacheIsTold
<1>12. ASSUME NEW n \in 1 .. MaxSteps, Post(n) PROVE IdsDiffer' /\ CacheIsTold'
  <2> DEFINE v == [NoRun EXCEPT !.pc = "step", !.left = n]
  <2>1. ~v.fresh BY DEF NoRun
  <2>2. run' = [run EXCEPT !["command"] = v] /\ UNCHANGED <<memory, agent>> BY <1>12 DEF Post
  <2> HIDE DEF v
  <2>3. QED BY <2>1, <2>2, <1>10
<1>13. run["command"].pc \in {"step", "goto", "act", "opened"} => ~run["command"].fresh
  BY <1>0 DEF Known, Runners
<1>14. ~Ended(run["command"]).fresh \/ run["command"].fresh BY <1>0 DEF Ended, Runs, Runners
<1>15. ASSUME PauseForHuman \/ \E i \in DOMAIN tabs : SwitchTab(i) PROVE IdsDiffer' /\ CacheIsTold'
  <2>1. run' = [run EXCEPT !["command"] = Ended(run["command"])] /\ memory' = memory /\ agent' = agent /\ run["command"].pc = "step"
    BY <1>15 DEF PauseForHuman, SwitchTab, Done, Begins
  <2>2. QED BY <2>1, <1>10, <1>13, <1>14
<1>16. CASE Navigated
  <2>1. /\ run' = [run EXCEPT !["command"] = Ended(run["command"])] /\ agent' = agent /\ run["command"].pc = "goto"
        /\ memory'.next = memory.next /\ memory'.cache = << >>
    BY <1>16, <1>0 DEF Navigated, Done, Memories
  <2>2. \A r \in Runners : SameRead(run'[r], run[r]) BY <2>1, <1>0, <1>13, <1>14 DEF SameRead
  <2>3. \A i \in DOMAIN memory'.cache : i \in DOMAIN memory.cache /\ memory'.cache[i] = memory.cache[i]
    BY <2>1
  <2>4. QED BY <2>1, <2>2, <2>3, <1>2, RememberedKeeps
<1>17. CASE Acts
  <2> DEFINE v == Ended([NoRun EXCEPT !.left = run["command"].left])
  <2>1. ~v.fresh BY DEF Ended, NoRun
  <2>2. run' = [run EXCEPT !["command"] = v] /\ UNCHANGED <<memory, agent>> BY <1>17 DEF Acts, Done
  <2> HIDE DEF v
  <2>3. QED BY <2>1, <2>2, <1>10
<1>18. CASE SelectsTab
  <2> DEFINE v == Ended([run["command"] EXCEPT !.tab = Nothing])
  <2>1. ~v.fresh BY <1>18, <1>13, <1>0 DEF SelectsTab, Ended, Runs, Runners
  <2>2. run' = [run EXCEPT !["command"] = v] /\ UNCHANGED <<memory, agent>> BY <1>18 DEF SelectsTab, Done
  <2> HIDE DEF v
  <2>3. QED BY <2>1, <2>2, <1>10
<1>19. ASSUME NEW t, NEW d, Act(t, d) PROVE IdsDiffer' /\ CacheIsTold'
  <2> DEFINE v == [run["command"] EXCEPT !.pc = "act", !.tab = Here(t).id, !.url = Here(t).url, !.place = d.read]
  <2>1. ~v.fresh BY <1>19, <1>13, <1>0 DEF Act, Begins, Runs, Runners
  <2>2. run' = [run EXCEPT !["command"] = v] /\ UNCHANGED <<memory, agent>> BY <1>19 DEF Act
  <2> HIDE DEF v
  <2>3. QED BY <2>1, <2>2, <1>10
<1>20. ASSUME NEW t, NEW url, Navigate(t, url) PROVE IdsDiffer' /\ CacheIsTold'
  <2> DEFINE v == [run["command"] EXCEPT !.pc = "goto"]
  <2>1. ~v.fresh BY <1>20, <1>13, <1>0 DEF Navigate, Begins, Runs, Runners
  <2>2. run' = [run EXCEPT !["command"] = v] /\ UNCHANGED <<memory, agent>> BY <1>20 DEF Navigate
  <2> HIDE DEF v
  <2>3. QED BY <2>1, <2>2, <1>10
<1>21. ASSUME NEW t, OpensTab(t) PROVE IdsDiffer' /\ CacheIsTold'
  <2> DEFINE v == [run["command"] EXCEPT !.pc = "opened", !.tab = t.id]
  <2>1. ~v.fresh BY <1>21, <1>13, <1>0 DEF OpensTab, Begins, Runs, Runners
  <2>2. run' = [run EXCEPT !["command"] = v] /\ UNCHANGED <<memory, agent>>
    BY <1>21, <1>0 DEF OpensTab, Runners
  <2> HIDE DEF v
  <2>3. QED BY <2>1, <2>2, <1>10
<1>22. ASSUME NEW i \in DOMAIN tabs, CloseTab(i) PROVE IdsDiffer' /\ CacheIsTold'
  <2> DEFINE lost == Losing(run, {tabs[i].id})
  <2>1. \A r \in Runners : lost[r] = [run[r] EXCEPT !.tab = IF run[r].tab \in {tabs[i].id} THEN Nothing ELSE run[r].tab]
    BY <1>0 DEF Losing
  <2>2. ASSUME NEW r \in Runners PROVE SameRead(lost[r], run[r])
    <3>1. PICK tab : lost[r] = [run[r] EXCEPT !.tab = tab] BY <2>1
    <3>2. QED BY <3>1, <1>0 DEF SameRead, Runs
  <2>3. lost \in [Runners -> Runs] BY LosingFits
  <2>4. ~lost["command"].fresh BY <2>1, <1>13, <1>22, <1>0 DEF CloseTab, Begins, Runs, Runners
  <2>5. run' = [lost EXCEPT !["command"] = Ended(lost["command"])] /\ UNCHANGED <<memory, agent>>
    BY <1>22 DEF CloseTab
  <2> HIDE DEF lost
  <2>6. ~Ended(lost["command"]).fresh BY <2>3, <2>4 DEF Ended, Runs, Runners
  <2>7. \A r \in Runners : SameRead(run'[r], run[r]) BY <2>2, <2>3, <2>5, <2>6 DEF SameRead
  <2>8. QED BY <2>5, <2>7, <1>3
<1>23. ASSUME NEW r \in Runners, NEW els \in SUBSET Refs, Captures(r, els) PROVE IdsDiffer' /\ CacheIsTold'
  <2> DEFINE v == [run[r] EXCEPT !.pc = "commit", !.seen = els, !.tab = Nothing, !.place = tabs[TabOf(run[r].tab)].url]
  <2>1. v.pc = "commit" /\ v.fresh = run[r].fresh /\ v.id = run[r].id BY <1>0 DEF Runs
  <2>2. run' = [run EXCEPT ![r] = v] /\ UNCHANGED <<memory, agent>> /\ run[r].pc = "capture"
    BY <1>23 DEF Captures
  <2> HIDE DEF v
  <2>3. SameRead(v, run[r]) BY <2>1, <2>2 DEF SameRead
  <2>4. QED BY <2>2, <2>3, <1>5
<1>24. ASSUME NEW r \in Runners, Fails(r) PROVE IdsDiffer' /\ CacheIsTold'
  <2>1. SameRead(NoRun, run[r]) BY DEF SameRead, NoRun
  <2>2. QED BY <2>1, <1>5, <1>24 DEF Fails
<1>25. CASE World
  BY <1>25, <1>4, <1>6, <1>11 DEF World, PageMoves, PopupOpens, PopupCloses, ContextEnds, Resume
<1>26. CASE Posts BY <1>26, <1>7, <1>11, <1>12 DEF Posts, ResumeFromPause, PostRead, Runners
<1>27. CASE Steps BY <1>27, <1>9, <1>15, <1>16, <1>17, <1>18, <1>19, <1>20, <1>21, <1>22 DEF Steps
<1>28. ASSUME NEW r \in Runners, Reads(r) PROVE IdsDiffer' /\ CacheIsTold'
  BY <1>28, <1>8, <1>23, <1>24 DEF Reads
<1>29. QED BY <1>25, <1>26, <1>27, <1>28 DEF CommandNext

LEMMA DeltaStaysTrue ==
  ASSUME CommandTypeOK, RunsFit, Remembered, DeltaIsTrue, CommandNext
  PROVE  DeltaIsTrue'
<1>0. /\ run \in [Runners -> Runs] /\ run["command"] \in Runs /\ Known(run["command"])
      /\ agent \in [last : Ids, els : SUBSET Refs, fresh : BOOLEAN]
  BY DEF RunsFit, ReadsKnow, CommandTypeOK, Runners
<1>1. ASSUME "late" \in flaws => "late" \in flaws', agent' = agent \/ ~agent'.fresh, NEW w, w = run'["command"],
             \/ w.pc # "answer" \/ w.delta = Nothing
             \/ /\ run["command"].pc = "answer" /\ run["command"].delta = w.delta
                /\ run["command"].since = w.since /\ run["command"].seen = w.seen
      PROVE  DeltaIsTrue'
  BY <1>1 DEF DeltaIsTrue
<1>2. CASE Commits("command")
  <2> DEFINE v == run["command"]
             w == [NoRun EXCEPT !.pc = "answer", !.id = v.id, !.since = v.since,
                                !.seen = v.seen, !.delta = DeltaOf(v), !.fresh = v.fresh]
  <2>1. run' = [run EXCEPT !["command"] = w] /\ agent' = agent /\ ("late" \in flaws => "late" \in flaws')
    BY <1>2 DEF Commits
  <2>2. w.delta = DeltaOf(v) /\ w.since = v.since /\ w.seen = v.seen BY DEF NoRun
  <2>3. run'["command"] = w BY <2>1, <1>0 DEF Runners
  <2> HIDE DEF w
  <2> SUFFICES ASSUME "late" \notin flaws', DeltaOf(v) # Nothing, agent.fresh, v.since = agent.last
               PROVE  DeltaOf(v) = Delta(agent.els, v.seen)
    BY <2>1, <2>2, <2>3 DEF DeltaIsTrue
  <2>4. v.since \in DOMAIN memory.cache /\ DeltaOf(v) = Delta(memory.cache[v.since].els, v.seen)
    BY DEF DeltaOf
  <2>5. memory.cache[agent.last].els = agent.els BY <2>1, <2>4 DEF Remembered, CacheIsTold
  <2>6. QED BY <2>4, <2>5
<1>3. "late" \in flaws => "late" \in flaws'
  <2>1. flaws \subseteq flaws'
    <3>1. World => flaws \subseteq flaws'
      BY DEF World, PageMoves, PopupOpens, PopupCloses, ContextEnds, DeathHeard, Resume, Strayed
    <3>2. Posts => flaws \subseteq flaws' BY DEF Posts, Post, ResumeFromPause, PostRead, Read
    <3>3. Steps => flaws \subseteq flaws'
      BY DEF Steps, PauseForHuman, Acts, Navigated, SelectsTab, Answered, OpensTab, Act, Navigate, SwitchTab, CloseTab, Strayed
    <3>4. ASSUME NEW r \in Runners, Reads(r) PROVE flaws \subseteq flaws'
      BY <3>4 DEF Reads, Fails, Commits, Captures
    <3>5. QED BY <3>1, <3>2, <3>3, <3>4 DEF CommandNext
  <2>2. QED BY <2>1
<1>4. ASSUME NEW w, run' = [run EXCEPT !["command"] = w], w.pc # "answer" \/ w.delta = Nothing, agent' = agent
      PROVE  DeltaIsTrue'
  BY <1>0, <1>1, <1>3, <1>4 DEF Runners
<1>5. ASSUME run'["command"] = run["command"], agent' = agent PROVE DeltaIsTrue'
  BY <1>1, <1>3, <1>5
<1>6. ASSUME NEW tab, run'["command"] = [run["command"] EXCEPT !.tab = tab], agent' = agent PROVE DeltaIsTrue'
  BY <1>0, <1>1, <1>3, <1>6 DEF Runs
<1>7. ASSUME NEW ids, run' = Losing(run, ids), agent' = agent PROVE DeltaIsTrue'
  <2>1. "command" \in Runners BY DEF Runners
  <2> DEFINE tab == IF run["command"].tab \in ids THEN Nothing ELSE run["command"].tab
  <2>2. run'["command"] = [run["command"] EXCEPT !.tab = tab] BY <1>7, <2>1 DEF Losing
  <2> HIDE DEF tab
  <2>3. QED BY <2>2, <1>6, <1>7
<1>8. CASE DeathHeard
  <2>1. ~agent'.fresh BY <1>8, <1>0 DEF DeathHeard
  <2>2. QED BY <2>1 DEF DeltaIsTrue
<1>9. ASSUME NEW heard \in BOOLEAN, Answered(heard) PROVE DeltaIsTrue'
  <2>1. run'["command"] = NoRun /\ NoRun.pc = "idle" BY <1>9, <1>0 DEF Answered, Runners, NoRun
  <2>2. QED BY <2>1 DEF DeltaIsTrue
<1>10. ASSUME NEW v \in Runs, v.delta = Nothing PROVE Ended(v).delta = Nothing BY <1>10 DEF Ended, Runs
<1>11. ASSUME run["command"].pc \in {"step", "goto"}, Done(run["command"]), agent' = agent PROVE DeltaIsTrue'
  <2>1. Ended(run["command"]).delta = Nothing BY <1>0, <1>10, <1>11 DEF Known
  <2>2. QED BY <2>1, <1>4, <1>11 DEF Done
<1>12. CASE Acts
  <2> DEFINE v == [NoRun EXCEPT !.left = run["command"].left]
  <2>1. v \in Runs /\ v.delta = Nothing BY <1>0, NoRunFits DEF NoRun, Runs
  <2>2. Ended(v).delta = Nothing BY <2>1, <1>10
  <2>3. run' = [run EXCEPT !["command"] = Ended(v)] /\ agent' = agent BY <1>12 DEF Acts, Done
  <2> HIDE DEF v
  <2>4. QED BY <2>2, <2>3, <1>4
<1>13. CASE SelectsTab
  <2> DEFINE v == [run["command"] EXCEPT !.tab = Nothing]
  <2>1. v \in Runs /\ v.delta = Nothing BY <1>0, <1>13 DEF SelectsTab, Runs, Known
  <2>2. Ended(v).delta = Nothing BY <2>1, <1>10
  <2>3. run' = [run EXCEPT !["command"] = Ended(v)] /\ agent' = agent BY <1>13 DEF SelectsTab, Done
  <2> HIDE DEF v
  <2>4. QED BY <2>2, <2>3, <1>4
<1>14. ASSUME NEW i \in DOMAIN tabs, CloseTab(i) PROVE DeltaIsTrue'
  <2> DEFINE lost == Losing(run, {tabs[i].id})
  <2>1. lost \in [Runners -> Runs] /\ Known(lost["command"]) /\ lost["command"].pc = run["command"].pc
    BY LosingFits DEF Runners
  <2>2. run' = [lost EXCEPT !["command"] = Ended(lost["command"])] /\ agent' = agent /\ run["command"].pc = "step"
    BY <1>14 DEF CloseTab, Begins
  <2> HIDE DEF lost
  <2>3. Ended(lost["command"]).delta = Nothing BY <2>1, <2>2, <1>10 DEF Known, Runners
  <2>4. run'["command"] = Ended(lost["command"]) BY <2>1, <2>2 DEF Runners
  <2>5. QED BY <2>2, <2>3, <2>4, <1>1, <1>3
<1>15. ASSUME run["command"].pc = "step" \/ run["command"].pc = "idle", NEW w, run' = [run EXCEPT !["command"] = w], agent' = agent,
              w.pc # "answer"
       PROVE  DeltaIsTrue'
  BY <1>4, <1>15
<1>16. ASSUME NEW t, NEW d, Act(t, d) PROVE DeltaIsTrue'
  <2> DEFINE v == [run["command"] EXCEPT !.pc = "act", !.tab = Here(t).id, !.url = Here(t).url, !.place = d.read]
  <2>1. v.pc # "answer" BY <1>0 DEF Runs
  <2>2. run' = [run EXCEPT !["command"] = v] /\ agent' = agent BY <1>16 DEF Act
  <2> HIDE DEF v
  <2>3. QED BY <2>1, <2>2, <1>4
<1>17. ASSUME NEW t, NEW url, Navigate(t, url) PROVE DeltaIsTrue'
  <2> DEFINE v == [run["command"] EXCEPT !.pc = "goto"]
  <2>1. v.pc # "answer" BY <1>0 DEF Runs
  <2>2. run' = [run EXCEPT !["command"] = v] /\ agent' = agent BY <1>17 DEF Navigate
  <2> HIDE DEF v
  <2>3. QED BY <2>1, <2>2, <1>4
<1>18. ASSUME NEW t, OpensTab(t) PROVE DeltaIsTrue'
  <2> DEFINE v == [run["command"] EXCEPT !.pc = "opened", !.tab = t.id]
  <2>1. v.pc # "answer" BY <1>0 DEF Runs
  <2>2. run' = [run EXCEPT !["command"] = v] /\ agent' = agent BY <1>18, <1>0 DEF OpensTab, Runners
  <2> HIDE DEF v
  <2>3. QED BY <2>1, <2>2, <1>4
<1>19. ASSUME NEW n \in 1 .. MaxSteps, Post(n) PROVE DeltaIsTrue'
  <2> DEFINE v == [NoRun EXCEPT !.pc = "step", !.left = n]
  <2>1. v.pc # "answer" BY DEF NoRun
  <2>2. run' = [run EXCEPT !["command"] = v] /\ agent' = agent BY <1>19 DEF Post
  <2> HIDE DEF v
  <2>3. QED BY <2>1, <2>2, <1>4
<1>20. ASSUME NEW r \in Runners, NEW v, run' = [run EXCEPT ![r] = v], v.pc # "answer", agent' = agent
       PROVE  DeltaIsTrue'
  <2>1. CASE r = "command" BY <2>1, <1>4, <1>20
  <2>2. CASE r = "resume"
    <3>1. run'["command"] = run["command"] BY <2>2, <1>0, <1>20 DEF Runners
    <3>2. QED BY <3>1, <1>5, <1>20
  <2>3. QED BY <2>1, <2>2 DEF Runners
<1>21. ASSUME NEW r \in Runners, NEW t, NEW since, Read(r, t, since) PROVE DeltaIsTrue'
  <2> DEFINE v == [NoRun EXCEPT !.pc = "capture", !.tab = Here(t).id, !.fresh = TRUE,
                                !.url = Here(t).url, !.id = memory'.next, !.since = since]
  <2>1. v.pc # "answer" BY DEF NoRun
  <2>2. run' = [run EXCEPT ![r] = v] /\ agent' = agent BY <1>21 DEF Read
  <2> HIDE DEF v
  <2>3. QED BY <2>1, <2>2, <1>20
<1>22. ASSUME NEW r \in Runners, NEW els, Captures(r, els) PROVE DeltaIsTrue'
  <2> DEFINE v == [run[r] EXCEPT !.pc = "commit", !.seen = els, !.tab = Nothing, !.place = tabs[TabOf(run[r].tab)].url]
  <2>1. v.pc # "answer" BY <1>0 DEF Runs
  <2>2. run' = [run EXCEPT ![r] = v] /\ agent' = agent BY <1>22 DEF Captures
  <2> HIDE DEF v
  <2>3. QED BY <2>1, <2>2, <1>20
<1>23. ASSUME NEW r \in Runners, run' = [run EXCEPT ![r] = NoRun], agent' = agent PROVE DeltaIsTrue'
  <2>1. NoRun.pc # "answer" BY DEF NoRun
  <2>2. QED BY <2>1, <1>20, <1>23
<1>24. CASE UNCHANGED <<run, agent>> BY <1>5, <1>24
<1>25. CASE World
  BY <1>25, <1>7, <1>8, <1>24 DEF World, PageMoves, PopupOpens, PopupCloses, ContextEnds, Resume
<1>26. CASE Posts BY <1>26, <1>19, <1>21, <1>24 DEF Posts, ResumeFromPause, PostRead, Runners
<1>27. CASE Steps
  <2>1. PauseForHuman \/ Navigated => DeltaIsTrue' BY <1>11 DEF PauseForHuman, Navigated
  <2>2. ASSUME NEW i \in DOMAIN tabs, SwitchTab(i) PROVE DeltaIsTrue' BY <2>2, <1>11 DEF SwitchTab, Begins
  <2>3. QED BY <1>27, <2>1, <2>2, <1>9, <1>12, <1>13, <1>14, <1>16, <1>17, <1>18 DEF Steps
<1>28. ASSUME NEW r \in Runners, Reads(r) PROVE DeltaIsTrue'
  <2>1. CASE Fails(r) BY <2>1, <1>23 DEF Fails
  <2>2. CASE Commits(r)
    <3>1. r = "command" \/ (r = "resume" /\ run' = [run EXCEPT ![r] = NoRun] /\ agent' = agent)
      BY <2>2 DEF Commits, Runners
    <3>2. QED BY <3>1, <2>2, <1>2, <1>23
  <2>3. QED BY <1>28, <2>1, <2>2, <1>22 DEF Reads
<1>29. QED BY <1>25, <1>26, <1>27, <1>28 DEF CommandNext

LEMMA RestStaysFit ==
  ASSUME CommandTypeOK, RunsFit, CommandNext
  PROVE  /\ ctx' \in BOOLEAN /\ status' \in {"active", "paused", "dead"} /\ flaws' \subseteq {"strayed", "late"}
         /\ agent' \in [last : Ids, els : SUBSET Refs, fresh : BOOLEAN]
<1> DEFINE Fit == /\ ctx' \in BOOLEAN /\ status' \in {"active", "paused", "dead"} /\ flaws' \subseteq {"strayed", "late"}
                  /\ agent' \in [last : Ids, els : SUBSET Refs, fresh : BOOLEAN]
<1>0. run["command"] \in Runs BY DEF CommandTypeOK, Runners
<1>1. World => Fit
  BY DEF CommandTypeOK, World, PageMoves, PopupOpens, PopupCloses, ContextEnds, DeathHeard, Resume, Strayed, page
<1>2. Posts => Fit BY DEF CommandTypeOK, Posts, Post, ResumeFromPause, PostRead, Read, page
<1>3. Steps => Fit
  <2>1. ASSUME NEW heard \in BOOLEAN, Answered(heard) PROVE Fit
    BY <2>1, <1>0 DEF CommandTypeOK, Answered, Runs, page
  <2>2. QED
    BY <2>1 DEF CommandTypeOK, Steps, PauseForHuman, Acts, Navigated, SelectsTab, OpensTab, Act, Navigate, SwitchTab, CloseTab, Strayed, page
<1>4. ASSUME NEW r \in Runners, Reads(r) PROVE Fit
  BY <1>4 DEF CommandTypeOK, Reads, Fails, Commits, Captures, page
<1>5. QED BY <1>1, <1>2, <1>3, <1>4 DEF CommandNext

-----------------------------------------------------------------------------
LEMMA RunInvInit == CommandInit => RunInv /\ DeltaIsTrue
<1> SUFFICES ASSUME CommandInit PROVE RunInv /\ DeltaIsTrue OBVIOUS
<1>1. PICK t \in NewTabs : tabs = <<t>> BY DEF CommandInit
<1>2. /\ memory = [next |-> 0, cache |-> << >>] /\ descs = << >> /\ flaws = {} /\ ctx = TRUE /\ active = 1
      /\ chosen = Nothing /\ status = "active"
      /\ run = [r \in Runners |-> NoRun] /\ agent = [last |-> 0, els |-> {}, fresh |-> FALSE]
  BY DEF CommandInit, NoMemory
<1>4. 1 <= Cardinality(TabIds) /\ Cardinality(TabIds) \in Nat
  <2>1. Cardinality(TabIds) \in Nat BY FS_CardinalityType, CommandAssumption DEF CommandAssumption
  <2>2. t.id \in TabIds BY DEF NewTabs
  <2>3. Cardinality(TabIds) # 0 BY <2>2, FS_EmptySet, CommandAssumption DEF CommandAssumption
  <2>4. QED BY <2>1, <2>3
<1>5. TabsFit BY <1>1, <1>2, <1>4 DEF TabsFit, AreTabs
<1>6. MemoryFits
  <2>1. << >> \in [{} -> Entries] /\ DOMAIN << >> = {} OBVIOUS
  <2>2. << >> \in UNION {[ids -> Entries] : ids \in SUBSET (Ids \ {0})} BY <2>1
  <2>3. 0 \in Ids BY CommandAssumption DEF Ids, CommandAssumption
  <2>4. memory \in Memories BY <1>2, <2>2, <2>3 DEF Memories
  <2>5. Cardinality(DOMAIN memory.cache) <= CacheSize
    <3>1. memory.cache = << >> BY <1>2
    <3>2. Cardinality(DOMAIN memory.cache) = 0 BY <2>1, <3>1, FS_EmptySet
    <3>3. QED BY <3>2, CommandAssumption DEF CommandAssumption
  <2>6. QED BY <2>4, <2>5, <1>2, CommandAssumption DEF MemoryFits, CommandAssumption
<1>7. run \in [Runners -> Runs] /\ ReadsKnow
  <2>1. NoRun.pc = "idle" BY DEF NoRun
  <2>2. QED BY <2>1, <1>2, NoRunFits DEF ReadsKnow, Runners
<1>8. CommandTypeOK
  <2>1. 0 \in Ids BY CommandAssumption DEF Ids, CommandAssumption
  <2>2. QED BY <2>1, <1>2, <1>5, <1>6, <1>7 DEF CommandTypeOK
<1>9. TabKept /\ TabsKnown BY <1>2 DEF TabKept, TabsKnown, NoRun, Runners
<1>10. PlacesAgree BY <1>2 DEF PlacesAgree, Placed, NoRun, Runners
<1>11. Remembered BY <1>2 DEF Remembered, IdsDiffer, CacheIsTold, NoRun, Runners
<1>12. DeltaIsTrue BY <1>2 DEF DeltaIsTrue, NoRun, Runners
<1>13. QED BY <1>7, <1>8, <1>9, <1>10, <1>11, <1>12 DEF RunInv

LEMMA RunInvStep == RunInv /\ DeltaIsTrue /\ [CommandNext]_commandVars => (RunInv /\ DeltaIsTrue)'
<1> SUFFICES ASSUME RunInv, DeltaIsTrue, [CommandNext]_commandVars PROVE RunInv' /\ DeltaIsTrue' OBVIOUS
<1>1. CASE CommandNext
  <2>1. CommandTypeOK /\ TabKept /\ TabsKnown /\ ReadsKnow /\ PlacesAgree /\ Remembered BY DEF RunInv
  <2>2. RunsFit BY <2>1 DEF RunsFit, CommandTypeOK
  <2>3. TabsFit' /\ MemoryFits' BY <2>1, <1>1, TabsStayFit, MemoryStaysFit
  <2>4. RunsFit' BY <2>1, <2>2, <1>1, RunsStayFit
  <2>5. CommandTypeOK' BY <2>1, <2>2, <2>3, <2>4, <1>1, RestStaysFit DEF CommandTypeOK, RunsFit
  <2>6. TabKept' /\ TabsKnown' BY <2>1, <2>2, <1>1, TabStaysKept, TabsStayKnown
  <2>7. PlacesAgree' /\ Remembered' /\ DeltaIsTrue'
    BY <2>1, <2>2, <1>1, PlacesAgreeStill, RememberedStill, DeltaStaysTrue
  <2>8. QED BY <2>4, <2>5, <2>6, <2>7 DEF RunInv, RunsFit
<1>2. CASE UNCHANGED commandVars
  BY <1>2 DEF commandVars, RunInv, DeltaIsTrue, CommandTypeOK, TabsFit, MemoryFits, TabKept, TabsKnown, Open, ReadsKnow,
              PlacesAgree, Placed, Remembered, IdsDiffer, CacheIsTold
<1>3. QED BY <1>1, <1>2

LEMMA RunInvHolds == CommandSpec => [](RunInv /\ DeltaIsTrue)
  BY RunInvInit, RunInvStep, PTL DEF CommandSpec

(* Commands stay on the tab that was opened or chosen last                 *)
(* (tab.handlers.ts), the ids, cache and descriptors keep to their caps,    *)
(* and the cache holds under an id what the agent was told under it        *)
(* (snapshot-memory.ts), whatever pages, reads and deaths interleave.      *)
THEOREM CommandsCorrect == CommandSpec => []RunInv
  BY RunInvHolds, PTL

(* A delta is the difference from what the agent was told under the id it  *)
(* names, unless a read outlived its session's death (takeSnapshot,        *)
(* computeDelta): navigations and the read of resume_from_pause included.  *)
THEOREM DeltasAreTrue == CommandSpec => []DeltaIsTrue
  BY RunInvHolds, PTL

(* An action is given a ref only on the page where the ref was read, if no *)
(* page moved under a read (resolveRef's guard on the URL).                *)
THEOREM RefsHitTheirPage == CommandSpec => []ActsWhereRead
<1>1. RunInv => ActsWhereRead
  BY DEF RunInv, PlacesAgree, Placed, ActsWhereRead, Runners
<1>2. QED BY <1>1, RunInvHolds, PTL
=============================================================================
