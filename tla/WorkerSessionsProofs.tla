------------------------- MODULE WorkerSessionsProofs -------------------------
(***************************************************************************)
(* Theorems about WorkerSessions, for any number of sessions and requests: *)
(* an active session has a context or somebody who answers for it, and no  *)
(* browser is closed under a command; and about the governor's judgement   *)
(* of the load.                                                            *)
(***************************************************************************)
EXTENDS WorkerSessions, ResourceGovernor, TLAPS

Records == [op : Ops, s : Sessions \cup {None},
            pc : {"idle", "queued", "decided", "context", "navigate", "health",
                  "closing", "undo", "running"},
            trigger : {None, "end", "crash", "resume", "pause", "resume_from_pause"},
            to : {None, "active", "paused", "dead", "closed"}, held : BOOLEAN]

-----------------------------------------------------------------------------
(* The invariant.  What an actor can be in the middle of: with ids, those  *)
(* handed out.                                                             *)
TargetOf(trigger) == CASE trigger = "end" -> "closed" [] trigger = "crash" -> "dead"
                       [] trigger = "pause" -> "paused" [] OTHER -> "active"
Shape(q, ids) ==
  /\ q.pc # "idle" => q.s \in ids
  /\ q.op = "command" => /\ q.pc \in {"running", "queued", "decided"}
                         /\ q.pc # "running" => q.trigger = "pause"
  /\ q.pc = "running" => q.op = "command"
  /\ q.pc \in {"queued", "decided"} =>
       q.trigger \in (IF q.op = "command" THEN {"pause"}
                      ELSE {"end", "crash", "resume", "resume_from_pause"})
  /\ q.pc \in {"queued", "decided"} /\ q.trigger \in {"resume", "resume_from_pause"} =>
       q.op \in {"resume", "resume_from_pause"}
  /\ q.pc = "decided" => q.to = TargetOf(q.trigger)
  /\ q.pc = "closing" => q.op \in {"create", "delete"}
  /\ q.pc \in {"undo", "navigate"} => q.op = "create"
  /\ q.pc = "context" => q.op \in {"create", "resume", "resume_from_pause"}
  /\ q.pc = "health" => q.op = "resume_from_pause"
Shapes == \A a \in Actors : Shape(req[a], used)

Handler(q, s) == q # Idle => /\ q.op = "dead" /\ q.s = s /\ q.trigger = "crash"
                             /\ q.pc \in {"queued", "decided"}
Handlers == \A s \in Sessions : Handler(req[s], s)

(* A record of the map, of the disk or of the flush is of an id given out. *)
Known == /\ \A s \in Sessions : status[s] # None \/ disk[s] # None => s \in used
         /\ flushing # None => /\ flushing.s \in used
                               /\ flushing.st \in {"active", "paused", "dead"}

(* A context that is being closed has somebody closing it; a POST that is  *)
(* being undone has abandoned its record.                                  *)
Closers == \A s \in Sessions :
  ctx[s] = "closing" => \E a \in Actors : req[a].s = s /\ req[a].pc = "closing"
Abandoned == \A a \in Actors :
  (req[a].op = "create" /\ req[a].pc \in {"undo", "closing"})
    => status[req[a].s] = None \/ req[a].s \in revived

(* Who answers for an active session without a context.  A navigation and  *)
(* a health check don't count: they may end with the context gone.         *)
Serving(q) == \/ q.pc \in {"context", "closing"}
              \/ q.pc \in {"queued", "decided"} /\ q.trigger \in {"end", "crash"}
Serves(a, s) == req[a].s = s /\ Serving(req[a])
Cared(s) == \/ ctx[s] = "open" \/ s \in restored \cup revived \/ stop = "flush"
            \/ \E a \in Actors : Serves(a, s)
Served == up => \A s \in Sessions : status[s] = "active" => Cared(s)

SessionsInv == /\ TypeOK /\ Shapes /\ Handlers /\ Known /\ Closers /\ Abandoned /\ Served
               /\ DrainedBeforeClosing

(* A worker that is down is in the middle of nothing.                      *)
Down == ~up => /\ stop = "no" /\ \A s \in Sessions : ctx[s] = "none"
               /\ \A a \in Actors : req[a] = Idle

-----------------------------------------------------------------------------
(* One actor moves; of another at most the queue it holds is dropped.      *)
Unheld(q) == [q EXCEPT !.held = FALSE]
Moves(a, q) == /\ q \in Records /\ req' \in [Actors -> Records]
               /\ req'[a] = q
               /\ \A b \in Actors \ {a} :
                    req'[b] = req[b] \/ (req[b] # Idle /\ req'[b] = Unheld(req[b]))

LEMMA Moved == ASSUME TypeOK, NEW a \in Actors, NEW q \in Records, req' = [req EXCEPT ![a] = q]
               PROVE  Moves(a, q)
<1>1. req \in [Actors -> Records]
  BY DEF TypeOK, Records
<1>2. /\ req' \in [Actors -> Records] /\ req'[a] = q
      /\ \A b \in Actors \ {a} : req'[b] = req[b]
  BY <1>1
<1> QED BY <1>2 DEF Moves

LEMMA SameButQueue ==
  ASSUME TypeOK, NEW a, NEW q, Moves(a, q), NEW b \in Actors \ {a}
  PROVE  /\ req'[b].op = req[b].op /\ req'[b].s = req[b].s /\ req'[b].pc = req[b].pc
         /\ req'[b].trigger = req[b].trigger /\ req'[b].to = req[b].to
         /\ req'[b].held => req[b].held
         /\ req[b] = Idle => req'[b] = Idle
         /\ Serving(req'[b]) <=> Serving(req[b])
<1>1. /\ req[b] \in Records
      /\ req'[b] = req[b] \/ (req[b] # Idle /\ req'[b] = Unheld(req[b]))
  BY DEF TypeOK, Records, Moves
<1>2. CASE req'[b] = req[b]
  BY <1>2
<1>3. CASE req[b] # Idle /\ req'[b] = Unheld(req[b])
  <2>1. /\ req'[b].op = req[b].op /\ req'[b].s = req[b].s /\ req'[b].pc = req[b].pc
        /\ req'[b].trigger = req[b].trigger /\ req'[b].to = req[b].to /\ ~req'[b].held
    BY <1>1, <1>3 DEF Unheld, Records
  <2> QED BY <1>3, <2>1 DEF Serving
<1> QED BY <1>1, <1>2, <1>3

(* Where the actor has been and goes to decides about its own state ...    *)
LEMMA MoveKeeps ==
  ASSUME SessionsInv, NEW a \in Actors, NEW q, Moves(a, q), Shape(q, used'), used \subseteq used',
         a \in Sessions => Handler(q, a)
  PROVE  Shapes' /\ Handlers'
<1>1. ASSUME NEW b \in Actors PROVE Shape(req'[b], used')
  <2>1. CASE b = a
    BY <2>1 DEF Moves
  <2>2. CASE b # a
    <3>1. Shape(req[b], used) /\ b \in Actors \ {a}
      BY <2>2 DEF SessionsInv, Shapes
    <3> QED BY <3>1, SameButQueue DEF Shape, SessionsInv
  <2> QED BY <2>1, <2>2
<1>2. ASSUME NEW s \in Sessions PROVE Handler(req'[s], s)
  <2>1. CASE s = a
    BY <2>1 DEF Moves
  <2>2. CASE s # a
    <3>1. Handler(req[s], s) /\ s \in Actors \ {a}
      BY <2>2 DEF SessionsInv, Handlers, Actors
    <3> QED BY <3>1, SameButQueue DEF Handler, SessionsInv
  <2> QED BY <2>1, <2>2
<1> QED BY <1>1, <1>2 DEF Shapes, Handlers

(* ... and with what becomes of its session s about the session's.  The    *)
(* last of the conditions is how s is still cared for.                     *)
MovesOn(a, q, s) ==
  /\ req[a].pc = "idle" \/ req[a].s = s
  /\ q.pc = "idle" \/ q.s = s
  /\ UNCHANGED <<up, stop, flushing>> /\ used \subseteq used'
  /\ \A t \in Sessions \ {s} : /\ status'[t] = status[t] /\ disk'[t] = disk[t] /\ ctx'[t] = ctx[t]
                               /\ t \in restored \cup revived => t \in restored' \cup revived'
  /\ revived \subseteq revived'
  /\ q.held => stop = "no" \/ (req[a].held /\ q.s = req[a].s)
  /\ status'[s] # None \/ disk'[s] # None => s \in used'
  /\ ctx'[s] = "closing" => \/ q.s = s /\ q.pc = "closing"
                            \/ ctx[s] = "closing" /\ req[a].pc # "closing"
  /\ status'[s] # None => s \in revived' \/ status[s] # None \/ s \notin used
  /\ q.op = "create" /\ q.pc \in {"undo", "closing"} => status'[s] = None \/ s \in revived'
  /\ status'[s] = "active" =>
       \/ ctx'[s] = "open" \/ s \in restored' \cup revived'
       \/ q.s = s /\ Serving(q)
       \/ /\ status[s] = "active" /\ ctx'[s] = ctx[s] /\ ~Serving(req[a])
          /\ s \in restored \cup revived => s \in restored' \cup revived'
       \/ \E b \in Actors \ {a} : Serves(b, s)

LEMMA StepKeeps ==
  ASSUME SessionsInv, TypeOK', NEW a \in Actors, NEW q, Moves(a, q), NEW s \in Sessions,
         Shape(q, used'), a \in Sessions => Handler(q, a), MovesOn(a, q, s)
  PROVE  SessionsInv'
<1> USE DEF SessionsInv
<1>0. q.pc \in {"undo", "closing"} => q.s = s
  BY DEF MovesOn
<1>1. Shapes' /\ Handlers'
  BY MoveKeeps DEF MovesOn
<1>2. Known'
  BY DEF Known, MovesOn
<1>3. DrainedBeforeClosing'
  <2> SUFFICES ASSUME stop \in {"close", "flush"}, NEW t \in Sessions, NEW r \in Requests,
                      req'[r].s = t, req'[r].held
               PROVE  FALSE
    BY DEF DrainedBeforeClosing, LockedBy, MovesOn
  <2>1. ~(req[r].s = t /\ req[r].held) /\ r \in Actors
    BY DEF DrainedBeforeClosing, LockedBy, Actors
  <2>2. CASE r = a
    BY <2>1, <2>2 DEF Moves, MovesOn
  <2>3. CASE r # a
    BY <2>1, <2>3, SameButQueue
  <2> QED BY <2>2, <2>3
<1>4. ASSUME NEW t \in Sessions, ctx'[t] = "closing"
      PROVE  \E b \in Actors : req'[b].s = t /\ req'[b].pc = "closing"
  <2>1. CASE ctx[t] = "closing" /\ (t # s \/ req[a].pc # "closing")
    <3>1. PICK b \in Actors : req[b].s = t /\ req[b].pc = "closing"
      BY <2>1 DEF Closers
    <3>2. b # a
      BY <2>1, <3>1 DEF MovesOn
    <3> QED BY <3>1, <3>2, SameButQueue
  <2>2. CASE t = s /\ q.s = s /\ q.pc = "closing"
    BY <2>2 DEF Moves
  <2> QED BY <1>4, <2>1, <2>2 DEF MovesOn
<1>5. Closers'
  BY <1>4 DEF Closers
<1>6. ASSUME NEW b \in Actors, req'[b].op = "create", req'[b].pc \in {"undo", "closing"}
      PROVE  status'[req'[b].s] = None \/ req'[b].s \in revived'
  <2>1. CASE b = a
    BY <1>0, <1>6, <2>1 DEF Moves, MovesOn
  <2>2. CASE b # a
    <3>1. /\ req[b].op = "create" /\ req[b].pc \in {"undo", "closing"} /\ req'[b].s = req[b].s
          /\ b \in Actors \ {a}
      BY <1>6, <2>2, SameButQueue
    <3>2. /\ status[req[b].s] = None \/ req[b].s \in revived
          /\ req[b].s \in used
      BY <3>1 DEF Abandoned, Shapes, Shape
    <3>3. req[b].s \in Sessions
      BY <3>2 DEF TypeOK
    <3> QED BY <3>1, <3>2, <3>3 DEF MovesOn
  <2> QED BY <2>1, <2>2
<1>7. Abandoned'
  BY <1>6 DEF Abandoned
<1>8. ASSUME NEW t \in Sessions, NEW b \in Actors \ {a}, Serves(b, t)
      PROVE  b \in Actors /\ req'[b].s = t /\ Serving(req'[b])
  BY <1>8, SameButQueue DEF Serves
<1>9. ASSUME up, NEW t \in Sessions, status'[t] = "active", stop # "flush",
             ctx'[t] # "open", t \notin restored' \cup revived'
      PROVE  \E b \in Actors : req'[b].s = t /\ Serving(req'[b])
  <2>1. CASE t # s
    <3>1. PICK b \in Actors : Serves(b, t)
      BY <1>9, <2>1 DEF MovesOn, Served, Cared
    <3>2. b # a
      BY <2>1, <3>1 DEF Serves, MovesOn, Serving
    <3> QED BY <1>8, <3>1, <3>2
  <2>2. CASE t = s
    <3>1. CASE q.s = s /\ Serving(q)
      BY <2>2, <3>1 DEF Moves
    <3>2. CASE \E b \in Actors \ {a} : Serves(b, s)
      BY <1>8, <2>2, <3>2
    <3>3. CASE /\ status[s] = "active" /\ ctx'[s] = ctx[s] /\ ~Serving(req[a])
               /\ s \in restored \cup revived => s \in restored' \cup revived'
      <4>1. PICK b \in Actors : Serves(b, s)
        BY <1>9, <2>2, <3>3 DEF Served, Cared
      <4>2. b # a
        BY <3>3, <4>1 DEF Serves
      <4> QED BY <1>8, <2>2, <4>1, <4>2
    <3> QED BY <1>9, <2>2, <3>1, <3>2, <3>3 DEF MovesOn
  <2> QED BY <2>1, <2>2
<1>10. Served'
  BY <1>9 DEF Served, Cared, Serves, MovesOn
<1> QED BY <1>1, <1>2, <1>3, <1>5, <1>7, <1>10

-----------------------------------------------------------------------------
(* The steps of a request.                                                 *)
LEMMA IdRecord ==
  /\ Idle \in Records
  /\ \A a \in Actors : req[a] = Idle => req[a].pc = "idle" /\ ~Serving(req[a]) /\ ~req[a].held
BY DEF Idle, Records, Ops, Serving

LEMMA Where ==
  ASSUME SessionsInv, NEW a \in Actors, req[a].pc # "idle"
  PROVE  /\ req[a] \in Records /\ req[a].s \in Sessions /\ req[a].s \in used
         /\ Shape(req[a], used)
BY DEF SessionsInv, TypeOK, Records, Shapes, Shape

LEMMA PostSessionKeeps ==
  ASSUME SessionsInv, NEW r \in Requests, NEW s \in Sessions, PostSession(r, s)
  PROVE  SessionsInv'
<1> DEFINE q == [Idle EXCEPT !.op = "create", !.s = s, !.pc = "context", !.trigger = None]
<1>1. /\ r \in Actors /\ r \notin Sessions /\ req[r] = Idle /\ s \notin used
      /\ req' = [req EXCEPT ![r] = q] /\ q \in Records
      /\ q.op = "create" /\ q.s = s /\ q.pc = "context" /\ ~q.held
  BY WorkerAssumption DEF WorkerAssumption, Actors, PostSession, Free, Begin, Idle, Records, Ops
<1> HIDE DEF q
<1>2. Moves(r, q)
  BY <1>1, Moved DEF SessionsInv
<1>3. TypeOK' /\ s \in used' /\ used \subseteq used'
  BY <1>2 DEF SessionsInv, TypeOK, PostSession, Moves, Records, history
<1>4. MovesOn(r, q, s)
  <2>1. \A t \in Sessions \ {s} : status'[t] = status[t] /\ disk'[t] = disk[t]
    BY DEF SessionsInv, TypeOK, PostSession
  <2> QED BY <1>1, <1>3, <2>1, IdRecord DEF MovesOn, PostSession, history, Serving, SessionsInv, Known
<1>5. Shape(q, used')
  BY <1>1, <1>3 DEF Shape
<1> QED BY <1>1, <1>2, <1>3, <1>4, <1>5, StepKeeps

LEMMA MakeContextKeeps == ASSUME SessionsInv, NEW r \in Requests, MakeContext(r) PROVE SessionsInv'
<1> DEFINE s == req[r].s
           q == CASE req[r].op = "create" -> [req[r] EXCEPT !.pc = "navigate"]
                  [] req[r].op = "resume_from_pause" /\ ctx[s] # "none" -> [req[r] EXCEPT !.pc = "health"]
                  [] OTHER -> Idle
<1>1. /\ r \in Actors /\ r \notin Sessions /\ req[r].pc = "context"
      /\ req[r] \in Records /\ s \in Sessions /\ s \in used /\ Shape(req[r], used)
  BY Where, WorkerAssumption DEF WorkerAssumption, Actors, MakeContext, At
<1>2. /\ req' = [req EXCEPT ![r] = q] /\ q \in Records
      /\ q.held => req[r].held
      /\ q.pc \in {"navigate", "health", "idle"}
      /\ q.pc # "idle" => q.s = s
      /\ q.held => q.pc # "idle"
      /\ q.pc = "navigate" => q.op = "create"
      /\ q.pc = "health" => q.op = "resume_from_pause"
      /\ q.op # "command"
  BY <1>1 DEF MakeContext, Goto, Done, Idle, Records, Ops, Shape
<1>3. /\ ctx'[s] = (IF ctx[s] = "none" THEN "open" ELSE ctx[s])
      /\ \A t \in Sessions \ {s} : ctx'[t] = ctx[t]
      /\ ctx' \in [Sessions -> {"none", "open", "closing"}] /\ ctx[s] \in {"none", "open", "closing"}
  BY <1>1 DEF MakeContext, SessionsInv, TypeOK
<1>u. UNCHANGED <<up, stop, used, flushing, unflushed, status, disk, restored, revived>>
  BY DEF MakeContext, process, store, history
<1> HIDE DEF q, s
<1>4. Moves(r, q)
  BY <1>1, <1>2, Moved, Zenon DEF SessionsInv
<1>5. TypeOK'
  BY <1>3, <1>4, <1>u DEF SessionsInv, TypeOK, Moves, Records
<1>6. ctx'[s] = "closing" => \E b \in Actors \ {r} : Serves(b, s)
  BY <1>1, <1>3 DEF SessionsInv, Closers, Serves, Serving
<1>7. MovesOn(r, q, s)
  <2>1. status[s] = "active" => \/ ctx'[s] = "open" \/ \E b \in Actors \ {r} : Serves(b, s)
    BY <1>1, <1>3, <1>6
  <2>2. q.held => stop = "no" \/ (req[r].held /\ q.s = req[r].s)
    BY <1>2 DEF s
  <2> QED BY <1>1, <1>2, <1>3, <1>6, <1>u, <2>1, <2>2 DEF MovesOn, s
<1>8. Shape(q, used')
  BY <1>1, <1>2, <1>u DEF Shape
<1> QED BY <1>1, <1>4, <1>5, <1>7, <1>8, StepKeeps

Quiet == UNCHANGED <<up, stop, used, flushing, unflushed, status, disk, restored, revived>>

(* A step that changes neither the map nor the bridge: the actor may go on *)
(* unless it was the one to close the context, or to answer for s.         *)
LEMMA QuietKeeps ==
  ASSUME SessionsInv, NEW a \in Actors, NEW q, Moves(a, q), NEW s \in Sessions,
         Quiet, ctx' = ctx, Shape(q, used), a \in Sessions => Handler(q, a),
         req[a].pc = "idle" \/ req[a].s = s, q.pc = "idle" \/ q.s = s,
         q.held => stop = "no" \/ (req[a].held /\ q.s = req[a].s),
         req[a].pc = "closing" => q.s = s /\ q.pc = "closing",
         q.op = "create" /\ q.pc \in {"undo", "closing"} => status[s] = None \/ s \in revived,
         status[s] = "active" => \/ ~Serving(req[a]) \/ (q.s = s /\ Serving(q))
                                 \/ ctx[s] = "open" \/ \E b \in Actors \ {a} : Serves(b, s)
  PROVE  SessionsInv'
<1>1. TypeOK'
  BY DEF SessionsInv, TypeOK, Quiet, Moves, Records
<1>2. status[s] # None \/ disk[s] # None => s \in used
  BY DEF SessionsInv, Known
<1>3. MovesOn(a, q, s)
  <2>1. /\ up' = up /\ stop' = stop /\ flushing' = flushing /\ used' = used /\ status' = status
        /\ disk' = disk /\ restored' = restored /\ revived' = revived
    BY DEF Quiet
  <2>2. ctx'[s] = "closing" => \/ q.s = s /\ q.pc = "closing"
                               \/ ctx[s] = "closing" /\ req[a].pc # "closing"
    OBVIOUS
  <2>3. status'[s] = "active" =>
       \/ ctx'[s] = "open"
       \/ q.s = s /\ Serving(q)
       \/ /\ status[s] = "active" /\ ctx'[s] = ctx[s] /\ ~Serving(req[a])
          /\ s \in restored \cup revived => s \in restored' \cup revived'
       \/ \E b \in Actors \ {a} : Serves(b, s)
    BY <2>1
  <2>4. q.op = "create" /\ q.pc \in {"undo", "closing"} => status'[s] = None \/ s \in revived'
    BY <2>1
  <2> QED BY <1>2, <2>1, <2>2, <2>3, <2>4 DEF MovesOn
<1> QED BY <1>1, <1>3, StepKeeps DEF Quiet

LEMMA ResumeKeeps ==
  ASSUME SessionsInv, NEW r \in Requests, NEW s \in Sessions, Resume(r, s) PROVE SessionsInv'
<1>1. PICK op \in {"resume", "resume_from_pause"} :
        req' = [req EXCEPT ![r] = [Idle EXCEPT !.op = op, !.s = s, !.pc = "queued", !.trigger = op]]
  BY DEF Resume, Begin
<1> DEFINE q == [Idle EXCEPT !.op = op, !.s = s, !.pc = "queued", !.trigger = op]
<1>2. /\ q \in Records /\ ~q.held /\ q.pc = "queued" /\ q.s = s /\ q.op = op /\ q.trigger = op
      /\ req' = [req EXCEPT ![r] = q]
  BY <1>1 DEF Idle, Records, Ops
<1> HIDE DEF q
<1>3. r \in Actors /\ r \notin Sessions /\ req[r] = Idle /\ s \in used /\ Quiet /\ ctx' = ctx
  BY WorkerAssumption DEF WorkerAssumption, Actors, Resume, Free, SessionsInv, Known, Quiet,
                          process, store, history
<1>4. Moves(r, q)
  BY <1>2, <1>3, Moved DEF SessionsInv
<1>5. Shape(q, used)
  BY <1>2, <1>3 DEF Shape
<1>6. req[r].pc = "idle" /\ ~Serving(req[r])
  BY <1>3, IdRecord
<1> QED BY <1>2, <1>3, <1>4, <1>5, <1>6, QuietKeeps

LEMMA CommandKeeps ==
  ASSUME SessionsInv, NEW r \in Requests, NEW s \in Sessions, Command(r, s) PROVE SessionsInv'
<1> DEFINE q == [Idle EXCEPT !.op = "command", !.s = s, !.pc = "running", !.held = TRUE]
<1>2. /\ q \in Records /\ q.pc = "running" /\ q.s = s /\ q.op = "command"
      /\ req' = [req EXCEPT ![r] = q] /\ stop = "no"
  BY DEF Idle, Records, Ops, Command
<1> HIDE DEF q
<1>3. r \in Actors /\ r \notin Sessions /\ req[r] = Idle /\ s \in used /\ Quiet /\ ctx' = ctx
  BY WorkerAssumption DEF WorkerAssumption, Actors, Command, Free, SessionsInv, Known, Quiet,
                          process, store, history
<1>4. Moves(r, q)
  BY <1>2, <1>3, Moved DEF SessionsInv
<1>5. Shape(q, used)
  BY <1>2, <1>3 DEF Shape
<1>6. req[r].pc = "idle" /\ ~Serving(req[r])
  BY <1>3, IdRecord
<1> QED BY <1>2, <1>3, <1>4, <1>5, <1>6, QuietKeeps

(* A step of a command: a pause it asks for, and its end.                  *)
LEMMA RunningKeeps ==
  ASSUME SessionsInv, NEW r \in Requests, PauseStep(r) \/ CommandEnds(r) PROVE SessionsInv'
<1> DEFINE s == req[r].s
           q == IF PauseStep(r) THEN [req[r] EXCEPT !.pc = "queued", !.trigger = "pause"] ELSE Idle
<1>1. /\ r \in Actors /\ r \notin Sessions /\ req[r].pc = "running"
      /\ req[r] \in Records /\ s \in Sessions /\ s \in used /\ Shape(req[r], used)
  BY Where, WorkerAssumption DEF WorkerAssumption, Actors, PauseStep, CommandEnds, At
<1>2. /\ q \in Records /\ req' = [req EXCEPT ![r] = q] /\ Quiet /\ ctx' = ctx
      /\ \/ q.pc = "idle" /\ ~q.held
         \/ /\ q.pc = "queued" /\ q.s = s /\ q.trigger = "pause"
            /\ q.op = req[r].op /\ q.held = req[r].held
      /\ q.pc = "idle" => q.op = "none"
  BY <1>1 DEF PauseStep, CommandEnds, Trigger, Done, Idle, Records, Ops, Quiet, process, store, history
<1> HIDE DEF q
<1>3. req[r].op = "command" /\ ~Serving(req[r])
  BY <1>1 DEF Shape, Serving
<1>4. Moves(r, q)
  BY <1>1, <1>2, Moved DEF SessionsInv
<1>5. Shape(q, used)
  BY <1>1, <1>2, <1>3 DEF Shape
<1> HIDE DEF s
<1>6. s = req[r].s
  BY DEF s
<1> QED BY <1>1, <1>2, <1>3, <1>4, <1>5, <1>6, QuietKeeps

(* ensureHealthyContext, DELETE, and the undoing of a POST.                *)
LEMMA HealthyKeeps == ASSUME SessionsInv, NEW r \in Requests, Healthy(r) PROVE SessionsInv'
<1> DEFINE s == req[r].s
<1>1. /\ r \in Actors /\ r \notin Sessions /\ req[r].pc = "health"
      /\ req[r] \in Records /\ s \in Sessions /\ s \in used /\ Shape(req[r], used)
  BY Where, WorkerAssumption DEF WorkerAssumption, Actors, Healthy, At
<1>2. Quiet /\ ~Serving(req[r])
  BY <1>1 DEF Healthy, Quiet, process, store, history, Serving
<1>3. CASE req' = [req EXCEPT ![r] = Idle] /\ ctx' = ctx
  <2>1. Idle \in Records /\ Idle.pc = "idle" /\ Idle.op = "none" /\ ~Idle.held
    BY DEF Idle, Records, Ops
  <2>2. Shape(Idle, used)
    BY <2>1 DEF Shape
  <2>3. Moves(r, Idle)
    BY <1>1, <1>3, <2>1, Moved DEF SessionsInv
  <2> QED BY <1>1, <1>2, <1>3, <2>1, <2>2, <2>3, QuietKeeps
<1>4. CASE ctx' = [ctx EXCEPT ![s] = "none"] /\ req' = [req EXCEPT ![r].pc = "context"]
  <2> DEFINE q == [req[r] EXCEPT !.pc = "context"]
  <2>1. /\ q \in Records /\ q.pc = "context" /\ q.s = s /\ q.op = req[r].op /\ q.held = req[r].held
        /\ req' = [req EXCEPT ![r] = q]
    BY <1>1, <1>4 DEF Records
  <2> HIDE DEF q
  <2>2. Moves(r, q)
    BY <1>1, <2>1, Moved DEF SessionsInv
  <2>3. Shape(q, used')
    BY <1>1, <1>2, <2>1 DEF Shape, Quiet
  <2>4. /\ ctx'[s] = "none" /\ \A t \in Sessions \ {s} : ctx'[t] = ctx[t]
        /\ ctx' \in [Sessions -> {"none", "open", "closing"}]
    BY <1>1, <1>4 DEF SessionsInv, TypeOK
  <2>5. TypeOK'
    BY <1>2, <2>2, <2>4 DEF SessionsInv, TypeOK, Moves, Records, Quiet
  <2>6. MovesOn(r, q, s)
    BY <1>1, <1>2, <2>1, <2>4 DEF MovesOn, Quiet, Serving
  <2> QED BY <1>1, <2>2, <2>3, <2>5, <2>6, StepKeeps
<1> QED BY <1>3, <1>4 DEF Healthy, Done, Goto

(* abandon: a POST whose context or first page cannot be had.              *)
LEMMA AbandonKeeps ==
  ASSUME SessionsInv, NEW r \in Requests, req[r].pc \in {"context", "navigate"}, req[r].op = "create",
         status' = [status EXCEPT ![req[r].s] = None], disk' = [disk EXCEPT ![req[r].s] = None],
         req' = [req EXCEPT ![r].pc = "undo"],
         UNCHANGED <<up, stop, used, flushing, unflushed, ctx, restored, revived>>
  PROVE  SessionsInv'
<1> DEFINE s == req[r].s
           q == [req[r] EXCEPT !.pc = "undo"]
<1>1. /\ r \in Actors /\ r \notin Sessions
      /\ req[r] \in Records /\ s \in Sessions /\ s \in used /\ Shape(req[r], used)
  BY Where, WorkerAssumption DEF WorkerAssumption, Actors
<1>2. /\ q \in Records /\ q.pc = "undo" /\ q.s = s /\ q.op = "create" /\ q.held = req[r].held
      /\ req' = [req EXCEPT ![r] = q]
  BY <1>1 DEF Records
<1> HIDE DEF q
<1>3. Moves(r, q) /\ Shape(q, used') /\ ~Serving(q)
  BY <1>1, <1>2, Moved DEF SessionsInv, Shape, Serving
<1>4. /\ status'[s] = None /\ disk'[s] = None
      /\ \A t \in Sessions \ {s} : status'[t] = status[t] /\ disk'[t] = disk[t]
  BY <1>1 DEF SessionsInv, TypeOK
<1>5. TypeOK'
  BY <1>1, <1>3 DEF SessionsInv, TypeOK, Moves, Records
<1>6. s = req[r].s
  OBVIOUS
<1> HIDE DEF s
<1>7. status'[s] # "active"
  BY <1>4, WorkerAssumption DEF WorkerAssumption
<1>8. MovesOn(r, q, s)
  BY <1>1, <1>2, <1>4, <1>6, <1>7 DEF MovesOn
<1> QED BY <1>1, <1>3, <1>5, <1>8, StepKeeps

LEMMA ContextFailsKeeps == ASSUME SessionsInv, NEW r \in Requests, ContextFails(r) PROVE SessionsInv'
<1>1. CASE req[r].op = "create"
  BY <1>1, AbandonKeeps DEF ContextFails, At, Goto, process, history
<1>2. CASE req[r].op # "create"
  <2> DEFINE s == req[r].s
             q == [req[r] EXCEPT !.pc = "queued", !.trigger = "crash"]
  <2>1. /\ r \in Actors /\ r \notin Sessions /\ req[r].pc = "context"
        /\ req[r] \in Records /\ s \in Sessions /\ s \in used /\ Shape(req[r], used)
    BY Where, WorkerAssumption DEF WorkerAssumption, Actors, ContextFails, At
  <2>2. /\ q \in Records /\ q.pc = "queued" /\ q.trigger = "crash" /\ q.s = s /\ q.op = req[r].op
        /\ q.held = req[r].held /\ req' = [req EXCEPT ![r] = q] /\ Quiet /\ ctx' = ctx
    BY <1>2, <2>1 DEF Records, ContextFails, Trigger, Quiet, process, history
  <2>3. s = req[r].s
    OBVIOUS
  <2> HIDE DEF q, s
  <2>4. Moves(r, q) /\ Shape(q, used) /\ Serving(q)
    BY <1>2, <2>1, <2>2, Moved DEF SessionsInv, Shape, Serving
  <2> QED BY <2>1, <2>2, <2>3, <2>4, QuietKeeps
<1> QED BY <1>1, <1>2

LEMMA NavigatedKeeps == ASSUME SessionsInv, NEW r \in Requests, Navigated(r) PROVE SessionsInv'
<1>1. /\ r \in Actors /\ r \notin Sessions /\ req[r].pc = "navigate"
      /\ req[r] \in Records /\ req[r].s \in Sessions /\ Shape(req[r], used)
  BY Where, WorkerAssumption DEF WorkerAssumption, Actors, Navigated, At
<1>2. CASE Done(r) /\ UNCHANGED <<status, disk>>
  <2>1. Idle \in Records /\ Idle.pc = "idle" /\ Idle.op = "none" /\ ~Idle.held
    BY DEF Idle, Records, Ops
  <2>2. Shape(Idle, used) /\ ~Serving(req[r])
    BY <1>1, <2>1 DEF Shape, Serving
  <2>3. Moves(r, Idle) /\ Quiet /\ ctx' = ctx
    BY <1>1, <1>2, <2>1, Moved DEF SessionsInv, Navigated, Done, Quiet, process, history
  <2> QED BY <1>1, <2>1, <2>2, <2>3, QuietKeeps
<1>3. req[r].op = "create"
  BY <1>1 DEF Shape
<1> QED BY <1>1, <1>2, <1>3, AbandonKeeps DEF Navigated, Goto, process, history

LEMMA UndoKeeps == ASSUME SessionsInv, NEW r \in Requests, Undo(r) PROVE SessionsInv'
<1> DEFINE s == req[r].s
           q == [req[r] EXCEPT !.pc = "closing"]
<1>1. /\ r \in Actors /\ r \notin Sessions /\ req[r].pc = "undo"
      /\ req[r] \in Records /\ s \in Sessions /\ s \in used /\ Shape(req[r], used)
  BY Where, WorkerAssumption DEF WorkerAssumption, Actors, Undo, At
<1>2. /\ q \in Records /\ q.pc = "closing" /\ q.s = s /\ q.op = req[r].op /\ q.held = req[r].held
      /\ req' = [req EXCEPT ![r] = q] /\ Quiet /\ req[r].op = "create"
  BY <1>1 DEF Records, Undo, Goto, Quiet, process, store, history, Shape
<1>3. /\ \A t \in Sessions \ {s} : ctx'[t] = ctx[t]
      /\ ctx' \in [Sessions -> {"none", "open", "closing"}]
  BY <1>1 DEF SessionsInv, TypeOK, Undo
<1>4. s = req[r].s /\ (status[s] = None \/ s \in revived)
  BY <1>1, <1>2 DEF SessionsInv, Abandoned
<1> HIDE DEF q, s
<1>5. Moves(r, q) /\ Shape(q, used') /\ Serving(q)
  BY <1>1, <1>2, Moved DEF SessionsInv, Shape, Serving, Quiet
<1>6. TypeOK'
  BY <1>2, <1>3, <1>5 DEF SessionsInv, TypeOK, Moves, Records, Quiet
<1>7. MovesOn(r, q, s)
  BY <1>1, <1>2, <1>3, <1>4, <1>5 DEF MovesOn, Quiet
<1> QED BY <1>1, <1>5, <1>6, <1>7, StepKeeps

LEMMA DeleteKeeps ==
  ASSUME SessionsInv, NEW r \in Requests, NEW s \in Sessions, Delete(r, s) PROVE SessionsInv'
<1> DEFINE q == [Idle EXCEPT !.op = "delete", !.s = s, !.pc = "closing", !.trigger = None]
<1>1. /\ q \in Records /\ q.pc = "closing" /\ q.s = s /\ q.op = "delete" /\ ~q.held
      /\ req' = [req EXCEPT ![r] = q]
  BY DEF Idle, Records, Ops, Delete, Begin
<1>2. r \in Actors /\ r \notin Sessions /\ req[r] = Idle /\ s \in used /\ Quiet
  BY WorkerAssumption DEF WorkerAssumption, Actors, Delete, Free, SessionsInv, Known, Quiet,
                          process, store, history
<1>3. /\ \A t \in Sessions \ {s} : ctx'[t] = ctx[t]
      /\ ctx' \in [Sessions -> {"none", "open", "closing"}]
  BY DEF SessionsInv, TypeOK, Delete
<1> HIDE DEF q
<1>4. req[r].pc = "idle"
  BY <1>2, IdRecord
<1>5. Moves(r, q) /\ Shape(q, used') /\ Serving(q)
  BY <1>1, <1>2, Moved DEF SessionsInv, Shape, Serving, Quiet
<1>6. TypeOK'
  BY <1>2, <1>3, <1>5 DEF SessionsInv, TypeOK, Moves, Records, Quiet
<1>7. MovesOn(r, q, s)
  BY <1>1, <1>2, <1>3, <1>4, <1>5 DEF MovesOn, Quiet
<1> QED BY <1>2, <1>5, <1>6, <1>7, StepKeeps

LEMMA TornDownKeeps == ASSUME SessionsInv, NEW r \in Requests, TornDown(r) PROVE SessionsInv'
<1> DEFINE s == req[r].s
           q == IF req[r].op = "create" \/ status[s] = None THEN Idle
                ELSE [req[r] EXCEPT !.pc = "queued", !.trigger = "end"]
<1>1. /\ r \in Actors /\ r \notin Sessions /\ req[r].pc = "closing"
      /\ req[r] \in Records /\ s \in Sessions /\ s \in used /\ Shape(req[r], used)
  BY Where, WorkerAssumption DEF WorkerAssumption, Actors, TornDown, At
<1>2. /\ q \in Records
      /\ \/ q = Idle /\ (req[r].op = "create" \/ status[s] = None)
         \/ /\ q.pc = "queued" /\ q.trigger = "end" /\ q.s = s /\ q.held = req[r].held
            /\ q.op = req[r].op /\ req[r].op = "delete"
  BY <1>1 DEF Records, Idle, Ops, Shape
<1>3. /\ Quiet /\ ctx'[s] = "none" /\ \A t \in Sessions \ {s} : ctx'[t] = ctx[t]
      /\ ctx' \in [Sessions -> {"none", "open", "closing"}]
  BY <1>1 DEF SessionsInv, TypeOK, TornDown, Quiet, process, store, history
<1>4. req'[r] = q
  BY <1>1 DEF TornDown
<1>5. ASSUME NEW b \in Actors \ {r}
      PROVE  req'[b] = req[b] \/ (req[b] # Idle /\ req'[b] = Unheld(req[b]))
  <2>1. req'[b] = IF req[r].op = "delete" /\ req[b].s = s THEN Unheld(req[b]) ELSE req[b]
    BY DEF TornDown, Unheld
  <2>2. CASE req[b].s = s
    <3>1. req[b] # Idle
      BY <1>1, <2>2, WorkerAssumption DEF Idle, WorkerAssumption, Actors
    <3> QED BY <2>1, <3>1
  <2> QED BY <2>1, <2>2
<1>6. req' \in [Actors -> Records]
  <2>1. \A b \in Actors : Unheld(req[b]) \in Records /\ req[b] \in Records
    <3> SUFFICES ASSUME NEW b \in Actors PROVE Unheld(req[b]) \in Records /\ req[b] \in Records
      OBVIOUS
    <3>1. req[b] \in Records
      BY DEF SessionsInv, TypeOK, Records
    <3> QED BY <3>1 DEF Records, Unheld
  <2>2. \A b \in Actors : req'[b] \in Records
    BY <1>2, <1>4, <1>5, <2>1
  <2> QED BY <2>2 DEF TornDown
<1>7. s = req[r].s /\ (req[r].op = "create" => status[s] = None \/ s \in revived)
  BY <1>1 DEF SessionsInv, Abandoned
<1> HIDE DEF q, s
<1>8. Moves(r, q)
  BY <1>2, <1>4, <1>5, <1>6 DEF Moves
<1>9. Idle.pc = "idle" /\ Idle.op = "none" /\ ~Idle.held
  BY DEF Idle
<1>10. Shape(q, used') /\ (q # Idle => Serving(q) /\ q.s = s /\ q.op = "delete" /\ q.pc = "queued")
  BY <1>1, <1>2, <1>3, <1>9 DEF Shape, Serving, Quiet
<1>11. TypeOK'
  BY <1>3, <1>6 DEF SessionsInv, TypeOK, Records, Quiet
<1>12. status[s] = "active" => q # Idle \/ s \in revived
  BY <1>2, <1>7, <1>9, WorkerAssumption DEF WorkerAssumption
<1>13. q.held => req[r].held /\ q.s = req[r].s
  BY <1>2, <1>7, <1>9
<1>14. status[s] # None => s \in used
  BY <1>1
<1>15. MovesOn(r, q, s)
  BY <1>1, <1>3, <1>7, <1>9, <1>10, <1>12, <1>13 DEF MovesOn, Quiet
<1> QED BY <1>1, <1>8, <1>10, <1>11, <1>15, StepKeeps

-----------------------------------------------------------------------------
(* applyTrigger: refused, decided, installed.                              *)
LEMMA RefusedKeeps == ASSUME SessionsInv, NEW a \in Actors, Refused(a) PROVE SessionsInv'
<1> DEFINE s == req[a].s
<1>1. /\ req[a].pc = "queued" /\ s \in Sessions /\ s \in used /\ Shape(req[a], used)
      /\ Target(status[s], req[a].trigger) = "invalid"
  BY Where DEF Refused, At
<1>2. Idle \in Records /\ Idle.pc = "idle" /\ Idle.op = "none" /\ ~Idle.held
  BY DEF Idle, Records, Ops
<1>3. Shape(Idle, used) /\ (a \in Sessions => Handler(Idle, a))
  BY <1>2 DEF Shape, Handler
<1>4. Moves(a, Idle) /\ Quiet /\ ctx' = ctx
  BY <1>2, Moved DEF SessionsInv, Refused, Done, Quiet, process, store, history
<1>5. status[s] = "active" => ~Serving(req[a])
  BY <1>1 DEF Target, Serving
<1> QED BY <1>1, <1>2, <1>3, <1>4, <1>5, QuietKeeps

LEMMA DecideKeeps == ASSUME SessionsInv, NEW a \in Actors, Decide(a) PROVE SessionsInv'
<1> DEFINE s == req[a].s
           to == Target(status[s], req[a].trigger)
           q == [req[a] EXCEPT !.pc = "decided", !.to = to]
<1>1. /\ req[a].pc = "queued" /\ s \in Sessions /\ s \in used /\ Shape(req[a], used)
      /\ req[a] \in Records
  BY Where DEF Decide, At
<1>2. /\ to \in {"active", "paused", "dead", "closed"} /\ to = TargetOf(req[a].trigger)
      /\ disk' = [disk EXCEPT ![s] = IF to = "closed" THEN None ELSE to]
      /\ UNCHANGED <<up, stop, used, flushing, unflushed, status, ctx, restored, revived>>
  BY <1>1 DEF Decide, Target, TargetOf, process, history
<1> HIDE DEF to
<1>3. /\ q \in Records /\ q.pc = "decided" /\ q.to = to /\ q.s = s /\ q.op = req[a].op
      /\ q.trigger = req[a].trigger /\ q.held = req[a].held
  BY <1>1, <1>2 DEF Records
<1>4. req' = [req EXCEPT ![a] = q]
  BY DEF Decide, to
<1>5. s = req[a].s
  OBVIOUS
<1> HIDE DEF q, s
<1>6. Moves(a, q)
  BY <1>3, <1>4, Moved DEF SessionsInv
<1>7. Shape(q, used')
  BY <1>1, <1>2, <1>3 DEF Shape
<1>8. a \in Sessions => Handler(q, a)
  <2>1. req[a] # Idle
    BY <1>1, IdRecord
  <2> QED BY <1>1, <1>3, <1>5, <2>1 DEF SessionsInv, Handlers, Handler
<1>9. /\ \A t \in Sessions \ {s} : disk'[t] = disk[t]
      /\ disk' \in [Sessions -> {None, "active", "paused", "dead"}]
  BY <1>1, <1>2 DEF SessionsInv, TypeOK
<1>10. TypeOK'
  BY <1>2, <1>6, <1>9 DEF SessionsInv, TypeOK, Moves, Records
<1>11. Serving(req[a]) => Serving(q)
  BY <1>1, <1>3 DEF Serving
<1>12. MovesOn(a, q, s)
  BY <1>1, <1>2, <1>3, <1>5, <1>9, <1>11 DEF MovesOn
<1> QED BY <1>1, <1>6, <1>7, <1>8, <1>10, <1>12, StepKeeps

LEMMA InstallKeeps == ASSUME SessionsInv, NEW a \in Actors, Install(a) PROVE SessionsInv'
<1> DEFINE s == req[a].s
           to == req[a].to
           q == CASE req[a].op = "command" -> [req[a] EXCEPT !.pc = "running", !.to = None, !.trigger = None]
                  [] req[a].trigger \in {"resume", "resume_from_pause"} ->
                       [req[a] EXCEPT !.pc = "context", !.to = None, !.trigger = None]
                  [] OTHER -> Idle
<1>1. /\ req[a].pc = "decided" /\ s \in Sessions /\ s \in used /\ Shape(req[a], used)
      /\ req[a] \in Records
  BY Where DEF Install, At
<1>2. to \in {"active", "paused", "dead", "closed"} /\ to = TargetOf(req[a].trigger)
  BY <1>1 DEF Shape, TargetOf
<1>3. /\ q \in Records /\ req' = [req EXCEPT ![a] = q]
  BY <1>1 DEF Records, Install, Idle, Ops
<1>4. \/ q.pc = "running" /\ q.s = s /\ q.op = "command" /\ q.held = req[a].held
         /\ req[a].op = "command" /\ req[a].trigger = "pause"
      \/ q.pc = "context" /\ q.s = s /\ q.op \in {"resume", "resume_from_pause"} /\ q.held = req[a].held
         /\ q.op = req[a].op /\ req[a].trigger \in {"resume", "resume_from_pause"}
      \/ q = Idle /\ req[a].trigger \in {"end", "crash"}
  BY <1>1 DEF Shape, Records
<1>5. Idle.pc = "idle" /\ Idle.op = "none" /\ ~Idle.held
  BY DEF Idle
<1>6. s = req[a].s /\ to = req[a].to
  OBVIOUS
<1>7. /\ status' = [status EXCEPT ![s] = IF to = "closed" THEN None ELSE to]
      /\ restored' = (IF to = "paused" THEN restored ELSE restored \ {s})
      /\ revived' = (IF status[s] = None /\ to # "closed" THEN revived \cup {s} ELSE revived)
      /\ UNCHANGED <<up, stop, used, flushing, unflushed, disk, ctx>>
  BY DEF Install, process
<1> HIDE DEF q, s, to
<1>8. Moves(a, q)
  BY <1>3, Moved DEF SessionsInv
<1>9. Shape(q, used')
  BY <1>1, <1>4, <1>5, <1>7 DEF Shape
<1>10. a \in Sessions => Handler(q, a)
  <2> SUFFICES ASSUME a \in Sessions PROVE Handler(q, a)
    OBVIOUS
  <2>1. req[a] # Idle
    BY <1>1, IdRecord
  <2>2. req[a].op = "dead" /\ req[a].trigger = "crash"
    BY <2>1 DEF SessionsInv, Handlers, Handler
  <2>3. q = Idle
    BY <1>4, <2>2
  <2> QED BY <2>3 DEF Handler
<1>11. /\ status'[s] = (IF to = "closed" THEN None ELSE to)
       /\ \A t \in Sessions \ {s} : status'[t] = status[t]
       /\ status' \in [Sessions -> {None, "active", "paused", "dead"}]
       /\ restored' \subseteq Sessions /\ revived' \subseteq Sessions
  BY <1>1, <1>2, <1>7 DEF SessionsInv, TypeOK
<1>12. TypeOK'
  BY <1>7, <1>8, <1>11 DEF SessionsInv, TypeOK, Moves, Records
<1>13. status'[s] = "active" => q.s = s /\ Serving(q)
  <2> SUFFICES ASSUME status'[s] = "active" PROVE q.s = s /\ Serving(q)
    OBVIOUS
  <2>1. to = "active"
    BY <1>2, <1>11, WorkerAssumption DEF WorkerAssumption
  <2>2. req[a].trigger \notin {"end", "crash", "pause"}
    BY <1>2, <2>1 DEF TargetOf
  <2> QED BY <1>4, <2>2 DEF Serving
<1>14. status'[s] # None => s \in revived' \/ status[s] # None
  BY <1>7, <1>11
<1>15. \A t \in Sessions \ {s} : t \in restored \cup revived => t \in restored' \cup revived'
  BY <1>7
<1>16. revived \subseteq revived' /\ ctx'[s] = ctx[s]
  BY <1>7
<1>17. req[a].pc # "closing" /\ q.pc \notin {"closing", "undo"}
  BY <1>1, <1>4, <1>5
<1>18. (q.held => req[a].held /\ q.s = req[a].s) /\ (q.pc = "idle" \/ q.s = s)
  BY <1>4, <1>5, <1>6
<1>19. MovesOn(a, q, s)
  BY <1>1, <1>6, <1>7, <1>11, <1>13, <1>14, <1>15, <1>16, <1>17, <1>18 DEF MovesOn
<1> QED BY <1>1, <1>8, <1>9, <1>10, <1>12, <1>19, StepKeeps

-----------------------------------------------------------------------------
(* The death of a context: the handler starts, or one is at work already.  *)
DeadRecord(s) == [Idle EXCEPT !.op = "dead", !.s = s, !.pc = "queued", !.trigger = "crash"]

LEMMA DeadRecordFacts ==
  ASSUME NEW s \in Sessions
  PROVE  LET q == DeadRecord(s)
         IN  /\ q \in Records /\ q.op = "dead" /\ q.s = s /\ q.pc = "queued" /\ q.trigger = "crash"
             /\ ~q.held /\ Serving(q) /\ Handler(q, s) /\ \A ids : s \in ids => Shape(q, ids)
<1> DEFINE q == DeadRecord(s)
<1>1. /\ q \in Records /\ q.op = "dead" /\ q.s = s /\ q.pc = "queued" /\ q.trigger = "crash" /\ ~q.held
  BY DEF DeadRecord, Idle, Records, Ops
<1> HIDE DEF q
<1>2. Serving(q) /\ Handler(q, s) /\ \A ids : s \in ids => Shape(q, ids)
  BY <1>1 DEF Serving, Handler, Shape
<1> QED BY <1>1, <1>2 DEF q

LEMMA DeadHandlersFacts ==
  ASSUME SessionsInv, NEW S \in SUBSET Sessions, DeadHandlers(S)
  PROVE  /\ req' \in [Actors -> Records]
         /\ \A b \in Actors :
              IF b \in S /\ req[b] = Idle /\ status[b] \in {"active", "paused"}
              THEN req'[b] = DeadRecord(b) ELSE req'[b] = req[b]
<1>1. \A b \in Actors : req[b] \in Records
  BY DEF SessionsInv, TypeOK, Records
<1>2. req' = [b \in Actors |-> IF b \in S /\ req[b] = Idle /\ status[b] \in {"active", "paused"}
                             THEN DeadRecord(b) ELSE req[b]]
  BY DEF DeadHandlers, DeadRecord
<1>3. \A b \in S : DeadRecord(b) \in Records
  BY DeadRecordFacts
<1> QED BY <1>1, <1>2, <1>3

LEMMA ContextDiesKeeps == ASSUME SessionsInv, NEW s \in Sessions, ContextDies(s) PROVE SessionsInv'
<1> DEFINE dies == req[s] = Idle /\ status[s] \in {"active", "paused"}
           q == IF dies THEN DeadRecord(s) ELSE req[s]
<1>1. s \in Actors /\ Quiet /\ DeadHandlers({s}) /\ ctx[s] = "open"
  BY DEF Actors, ContextDies, Quiet, process, store, history
<1>2. /\ ctx'[s] = "none" /\ \A t \in Sessions \ {s} : ctx'[t] = ctx[t]
      /\ ctx' \in [Sessions -> {"none", "open", "closing"}]
  BY DEF SessionsInv, TypeOK, ContextDies
<1>3. /\ req' \in [Actors -> Records] /\ req'[s] = q /\ \A b \in Actors \ {s} : req'[b] = req[b]
  BY <1>1, DeadHandlersFacts
<1>4. Moves(s, q)
  BY <1>1, <1>3 DEF Moves
<1>5. Idle.pc = "idle" /\ Idle.op = "none" /\ ~Idle.held
  BY DEF Idle
<1>6. /\ Handler(q, s) /\ Shape(q, used) /\ q.pc # "closing"
      /\ q.pc = "idle" \/ q.s = s
      /\ q.op # "create"
      /\ q.held => req[s].held /\ q.s = req[s].s
      /\ req[s].pc = "idle" \/ req[s].s = s
      /\ req[s].pc # "closing"
      /\ status[s] = "active" => q.s = s /\ Serving(q)
  <2>1. CASE dies
    <3>1. q = DeadRecord(s) /\ req[s].pc = "idle" /\ s \in used
      BY <1>5, <2>1, WorkerAssumption DEF SessionsInv, Known, WorkerAssumption
    <3> QED BY <3>1, DeadRecordFacts
  <2>2. CASE ~dies /\ req[s] = Idle
    <3>1. q = Idle /\ status[s] # "active" /\ Handler(Idle, s) /\ Shape(Idle, used)
      BY <1>5, <2>2 DEF Handler, Shape
    <3> QED BY <1>5, <2>2, <3>1
  <2>3. CASE req[s] # Idle
    <3>1. q = req[s] /\ Handler(req[s], s) /\ Shape(req[s], used)
      BY <1>1, <2>3 DEF SessionsInv, Handlers, Shapes
    <3>2. req[s].op = "dead" /\ req[s].s = s /\ req[s].trigger = "crash" /\ req[s].pc \in {"queued", "decided"}
      BY <2>3, <3>1 DEF Handler
    <3> QED BY <3>1, <3>2 DEF Serving
  <2> QED BY <2>1, <2>2, <2>3
<1> HIDE DEF q, dies
<1>7. TypeOK'
  BY <1>1, <1>2, <1>4 DEF SessionsInv, TypeOK, Moves, Records, Quiet
<1>8. MovesOn(s, q, s)
  BY <1>1, <1>2, <1>6 DEF MovesOn, Quiet, SessionsInv, Known
<1> QED BY <1>1, <1>4, <1>6, <1>7, <1>8, StepKeeps DEF Quiet

-----------------------------------------------------------------------------
(* Shutdown, death, restart.                                               *)
LEMMA CloseAllKeeps == ASSUME SessionsInv, CloseAll PROVE SessionsInv'
<1> USE DEF SessionsInv
<1>1. /\ stop = "close" /\ stop' = "flush" /\ ctx' = [s \in Sessions |-> "none"]
      /\ unflushed' = Sessions
      /\ UNCHANGED <<up, used, flushing, status, disk, restored, revived>>
  BY DEF CloseAll, store, history
<1>2. /\ req' \in [Actors -> Records]
      /\ \A b \in Actors : \/ b \in Sessions /\ req[b] = Idle /\ status[b] \in {"active", "paused"}
                             /\ req'[b] = DeadRecord(b)
                          \/ req'[b] = req[b]
  <2>1. DeadHandlers({s \in Sessions : ctx[s] = "open"})
    BY DEF CloseAll
  <2>2. {s \in Sessions : ctx[s] = "open"} \in SUBSET Sessions
    OBVIOUS
  <2> QED BY <2>1, <2>2, DeadHandlersFacts
<1>3. TypeOK'
  BY <1>1, <1>2 DEF TypeOK, Records
<1>4. ASSUME NEW b \in Actors PROVE Shape(req'[b], used') /\ (b \in Sessions => Handler(req'[b], b))
  <2>1. CASE req'[b] = req[b]
    BY <1>1, <2>1 DEF Shapes, Handlers
  <2>2. CASE /\ b \in Sessions /\ req[b] = Idle /\ status[b] \in {"active", "paused"}
             /\ req'[b] = DeadRecord(b)
    <3>1. b \in used
      BY <2>2, WorkerAssumption DEF Known, WorkerAssumption
    <3> QED BY <1>1, <2>2, <3>1, DeadRecordFacts
  <2> QED BY <1>2, <2>1, <2>2
<1>5. Shapes' /\ Handlers'
  BY <1>4 DEF Shapes, Handlers, Actors
<1>6. Known' /\ Closers' /\ Served'
  BY <1>1 DEF Known, Closers, Served, Cared
<1>7. ASSUME NEW b \in Actors, req'[b].op = "create" PROVE req'[b] = req[b]
  BY <1>2, <1>7, DeadRecordFacts
<1>8. Abandoned'
  BY <1>1, <1>7 DEF Abandoned
<1>9. ASSUME NEW r \in Requests PROVE req'[r] = req[r]
  BY <1>2, WorkerAssumption DEF WorkerAssumption, Actors
<1>10. DrainedBeforeClosing'
  BY <1>1, <1>9 DEF DrainedBeforeClosing, LockedBy
<1> QED BY <1>3, <1>5, <1>6, <1>8, <1>10

LEMMA ShutdownKeeps ==
  ASSUME SessionsInv, ShutdownBegins \/ Drained \/ UNCHANGED vars PROVE SessionsInv'
<1> USE DEF SessionsInv
<1>1. /\ UNCHANGED <<up, used, flushing, unflushed, status, disk, restored, revived, ctx, req>>
      /\ stop' \in {"no", "drain", "close", "flush"}
      /\ stop = "flush" => stop' = "flush"
      /\ stop' \in {"close", "flush"} => \/ stop \in {"close", "flush"}
                                       \/ \A s \in Sessions : LockedBy(s) = {}
  BY DEF ShutdownBegins, Drained, vars, process, store, history, TypeOK
<1>2. TypeOK' /\ Shapes' /\ Handlers' /\ Known' /\ Closers' /\ Abandoned'
  BY <1>1 DEF TypeOK, Shapes, Handlers, Known, Closers, Abandoned
<1>3. Served'
  BY <1>1 DEF Served, Cared, Serves
<1>4. DrainedBeforeClosing'
  BY <1>1 DEF DrainedBeforeClosing, LockedBy
<1> QED BY <1>2, <1>3, <1>4

LEMMA FlushKeeps ==
  ASSUME SessionsInv, FlushLands \/ \E s \in Sessions : FlushOne(s) PROVE SessionsInv'
<1> USE DEF SessionsInv
<1>1. UNCHANGED <<up, stop, used, status, restored, revived, ctx, req>>
  BY DEF FlushLands, FlushOne, store, history
<1>2. TypeOK' /\ Known'
  <2>1. CASE FlushLands
    <3>1. /\ flushing # None /\ flushing' = None /\ UNCHANGED unflushed
          /\ disk' = [disk EXCEPT ![flushing.s] = flushing.st]
          /\ flushing.s \in used /\ flushing.st \in {"active", "paused", "dead"}
      BY <2>1 DEF FlushLands, Known
    <3>2. disk' \in [Sessions -> {None, "active", "paused", "dead"}]
          /\ \A t \in Sessions : disk'[t] # None => disk[t] # None \/ t = flushing.s
      BY <3>1 DEF TypeOK
    <3> QED BY <1>1, <3>1, <3>2 DEF TypeOK, Known
  <2>2. ASSUME NEW s \in Sessions, FlushOne(s) PROVE TypeOK' /\ Known'
    <3>1. /\ flushing'.s = s /\ flushing'.st = status[s] /\ status[s] # None
          /\ unflushed' = unflushed \ {s} /\ UNCHANGED disk
      BY <2>2 DEF FlushOne, store
    <3> QED BY <1>1, <3>1 DEF TypeOK, Known
  <2> QED BY <2>1, <2>2
<1>3. Shapes' /\ Handlers' /\ Closers' /\ Abandoned' /\ Served' /\ DrainedBeforeClosing'
  BY <1>1 DEF Shapes, Handlers, Closers, Abandoned, Served, Cared, Serves, DrainedBeforeClosing, LockedBy
<1> QED BY <1>2, <1>3

(* A worker that has ended or has not begun is in the middle of nothing.   *)
LEMMA AtRest ==
  /\ Idle \in Records /\ ~Idle.held /\ Idle.op # "create" /\ Idle.pc = "idle"
  /\ \A ids : Shape(Idle, ids) /\ \A s : Handler(Idle, s)
<1>1. Idle \in Records /\ ~Idle.held /\ Idle.op = "none" /\ Idle.pc = "idle"
  BY DEF Idle, Records, Ops
<1> QED BY <1>1 DEF Shape, Handler

LEMMA GoneKeeps == ASSUME SessionsInv, Gone PROVE SessionsInv'
<1> USE DEF SessionsInv
<1>1. /\ up' = FALSE /\ stop' = "no" /\ status' = [s \in Sessions |-> None]
      /\ ctx' = [s \in Sessions |-> "none"] /\ req' = [a \in Actors |-> Idle]
      /\ flushing' = None /\ unflushed' = {} /\ restored' = {} /\ revived' = {}
      /\ UNCHANGED <<used, disk>>
  BY DEF Gone
<1>2. req' \in [Actors -> Records]
  BY <1>1, AtRest
<1>3. TypeOK'
  BY <1>1, <1>2 DEF TypeOK, Records
<1>4. Shapes' /\ Handlers' /\ Abandoned'
  BY <1>1, AtRest DEF Shapes, Handlers, Abandoned, Actors
<1>5. Known' /\ Closers' /\ Served' /\ DrainedBeforeClosing'
  BY <1>1 DEF Known, Closers, Served, DrainedBeforeClosing
<1> QED BY <1>3, <1>4, <1>5

LEMMA BootKeeps == ASSUME SessionsInv, Down, Boot PROVE SessionsInv'
<1> USE DEF SessionsInv
<1>1. /\ ~up /\ up' = TRUE /\ status' = disk /\ restored' = {s \in Sessions : disk[s] # None}
      /\ UNCHANGED <<revived, stop, used, disk, ctx, req, flushing, unflushed>>
  BY DEF Boot
<1>2. TypeOK' /\ Shapes' /\ Handlers' /\ Known' /\ Closers'
  BY <1>1 DEF TypeOK, Shapes, Handlers, Known, Closers
<1>3. \A a \in Actors : req'[a].op # "create"
  BY <1>1, AtRest DEF Down
<1>4. Abandoned'
  BY <1>3 DEF Abandoned
<1>5. ASSUME NEW s \in Sessions, status'[s] = "active" PROVE s \in restored'
  BY <1>1, <1>5, WorkerAssumption DEF WorkerAssumption
<1>6. Served'
  BY <1>5 DEF Served, Cared
<1>7. DrainedBeforeClosing'
  BY <1>1 DEF DrainedBeforeClosing, LockedBy
<1> QED BY <1>2, <1>4, <1>6, <1>7

LEMMA DownKeeps == ASSUME Down, [Next]_vars PROVE Down'
<1>1. CASE up /\ UNCHANGED up
  BY <1>1 DEF Down
<1>2. CASE up /\ Gone
  BY <1>2 DEF Gone, Down
<1>3. CASE Boot
  BY <1>3 DEF Boot, Down
<1>4. CASE FlushLands \/ UNCHANGED vars
  BY <1>4 DEF FlushLands, Down, vars, process
<1>5. CASE ~up /\ Next /\ ~Boot /\ ~FlushLands
  <2>1. /\ stop = "no" /\ \A s \in Sessions : ctx[s] = "none"
        /\ \A a \in Actors : req[a] = Idle /\ req[a].pc = "idle"
    BY <1>5, AtRest DEF Down
  <2>2. \A r \in Requests : ~RequestStep(r)
    BY <1>5, <2>1 DEF RequestStep, PostSession, Delete, Resume, Command, Free, MakeContext, ContextFails,
                      Navigated, Undo, TornDown, Healthy, PauseStep, CommandEnds, At, Actors
  <2>3. \A a \in Actors : ~TriggerStep(a)
    BY <2>1 DEF TriggerStep, Refused, Decide, Install, At
  <2>4. \A s \in Sessions : ~ContextDies(s) /\ ~FlushOne(s)
    BY <2>1 DEF ContextDies, FlushOne
  <2>5. ~(ShutdownBegins \/ Drained \/ CloseAll \/ Die \/ Exit)
    BY <1>5, <2>1 DEF ShutdownBegins, Drained, CloseAll, Die, Exit
  <2> QED BY <1>5, <2>2, <2>3, <2>4, <2>5 DEF Next, Stopping
<1>6. ASSUME Next PROVE Boot \/ Gone \/ UNCHANGED up
  <2>1. ASSUME NEW r \in Requests, RequestStep(r) PROVE UNCHANGED up
    BY <2>1 DEF RequestStep, PostSession, Delete, Resume, Command, MakeContext, ContextFails,
                Navigated, Undo, TornDown, Healthy, PauseStep, CommandEnds, process
  <2>2. ASSUME NEW a \in Actors, TriggerStep(a) PROVE UNCHANGED up
    BY <2>2 DEF TriggerStep, Refused, Decide, Install, process
  <2>3. ASSUME NEW s \in Sessions, ContextDies(s) PROVE UNCHANGED up
    BY <2>3 DEF ContextDies, process
  <2>4. ASSUME Stopping PROVE Boot \/ Gone \/ UNCHANGED up
    BY <2>4 DEF Stopping, ShutdownBegins, Drained, CloseAll, FlushLands, FlushOne, Die, Exit
  <2> QED BY <1>6, <2>1, <2>2, <2>3, <2>4 DEF Next
<1> QED BY <1>1, <1>2, <1>3, <1>4, <1>5, <1>6

-----------------------------------------------------------------------------
(* The theorems.                                                           *)
LEMMA Inductive ==
  /\ Init => SessionsInv /\ Down
  /\ SessionsInv /\ Down /\ [Next]_vars => (SessionsInv /\ Down)'
<1>1. ASSUME Init PROVE SessionsInv /\ Down
  <2> USE <1>1 DEF Init
  <2>1. TypeOK
    BY AtRest DEF TypeOK, Records
  <2>2. Shapes /\ Handlers /\ Abandoned
    BY AtRest DEF Shapes, Handlers, Abandoned, Actors
  <2>3. Known /\ Closers /\ DrainedBeforeClosing /\ Down
    BY DEF Known, Closers, DrainedBeforeClosing, Down
  <2>4. Served
    BY WorkerAssumption DEF Served, WorkerAssumption
  <2> QED BY <2>1, <2>2, <2>3, <2>4 DEF SessionsInv
<1>2. ASSUME SessionsInv, Down, [Next]_vars PROVE SessionsInv'
  <2>1. ASSUME NEW r \in Requests, RequestStep(r) PROVE SessionsInv'
    BY <1>2, <2>1, PostSessionKeeps, DeleteKeeps, ResumeKeeps, CommandKeeps, MakeContextKeeps,
       ContextFailsKeeps, NavigatedKeeps, UndoKeeps, TornDownKeeps, HealthyKeeps, RunningKeeps
       DEF RequestStep
  <2>2. ASSUME NEW a \in Actors, TriggerStep(a) PROVE SessionsInv'
    BY <1>2, <2>2, RefusedKeeps, DecideKeeps, InstallKeeps DEF TriggerStep
  <2>3. ASSUME Stopping PROVE SessionsInv'
    BY <1>2, <2>3, ShutdownKeeps, CloseAllKeeps, FlushKeeps, GoneKeeps, BootKeeps DEF Stopping, Die, Exit
  <2> QED BY <1>2, <2>1, <2>2, <2>3, ContextDiesKeeps, ShutdownKeeps DEF Next
<1> QED BY <1>1, <1>2, DownKeeps

(* Whatever requests, deaths of contexts, triggers and restarts interleave *)
(* (session.routes.ts, main.ts): the invariant.                            *)
THEOREM SessionsCorrect == Spec => [](SessionsInv /\ Down)
BY Inductive, PTL DEF Spec

(* A session the store calls active has an open context, or a handler is   *)
(* at work on it, but for the sessions a restart or a revival leaves so    *)
(* (session.routes.ts:140-287, main.ts:101-117).                           *)
THEOREM StoreAgrees == Spec => []StoreMatchesBridge
<1>1. ASSUME SessionsInv PROVE StoreMatchesBridge
  <2> SUFFICES ASSUME up, NEW s \in Sessions, status[s] = "active"
               PROVE  ctx[s] = "open" \/ Busy(s) \/ s \in restored \cup revived \/ stop = "flush"
    BY DEF StoreMatchesBridge
  <2>1. ASSUME NEW a \in Actors, Serves(a, s) PROVE Busy(s)
    BY <1>1, <2>1, WorkerAssumption DEF SessionsInv, Shapes, Shape, Serves, Serving, Busy
  <2> QED BY <1>1, <2>1 DEF SessionsInv, Served, Cared
<1> QED BY <1>1, SessionsCorrect, PTL

(* No browser is closed under a command that holds its session's queue     *)
(* (shutdown.ts:40-41).                                                    *)
THEOREM DrainsFirst == Spec => []DrainedBeforeClosing
<1>1. SessionsInv => DrainedBeforeClosing
  BY DEF SessionsInv
<1> QED BY <1>1, SessionsCorrect, PTL

-----------------------------------------------------------------------------
(* The load under which the worker takes commands (ResourceGovernor).      *)

(* A steady load is judged once: the next sample of it changes nothing, so *)
(* the governor publishes no further change, whatever the thresholds are,  *)
(* also those where a warning begins above a rejection.                    *)
THEOREM SteadyLoadSettles ==
  ASSUME NEW t \in Thresholds, NEW cpu \in Int, NEW mem \in Int, NEW s \in GovernorStates
  PROVE  GovernorState(t, cpu, mem, GovernorState(t, cpu, mem, s)) = GovernorState(t, cpu, mem, s)
BY DEF Thresholds, GovernorStates, GovernorState, RejectEnter, RejectExit, WarnEnter, WarnExit,
       WarnMargin, RejectMargin

(* Of two samples the heavier is never judged the milder, from the same    *)
(* state: the margins do not invert the order of the thresholds.           *)
THEOREM HeavierLoadIsNotMilder ==
  ASSUME NEW t \in Thresholds, NEW s \in GovernorStates,
         NEW cpu \in Int, NEW mem \in Int, NEW cpu2 \in Int, NEW mem2 \in Int,
         cpu <= cpu2, mem <= mem2
  PROVE  Severity(GovernorState(t, cpu, mem, s)) <= Severity(GovernorState(t, cpu2, mem2, s))
BY DEF Thresholds, GovernorStates, GovernorState, RejectEnter, RejectExit, WarnEnter, WarnExit,
       WarnMargin, RejectMargin, Severity
=============================================================================
