---------------------------- MODULE SessionStore ----------------------------
(***************************************************************************)
(* BrowserSessionStore (session.store.ts) over SessionDiskStore: the       *)
(* in-memory map, the blobs on disk, the per-session lock, the TTL sweep,  *)
(* the flush of a graceful shutdown, and the death and restart of the      *)
(* worker process.                                                         *)
(*                                                                         *)
(* An action is what runs between two awaits.  A persist is three steps:   *)
(* the write has been asked for, writeFile has opened the file (which      *)
(* truncates it), the content has landed; only then does the awaiting code *)
(* go on.                                                                  *)
(***************************************************************************)
EXTENDS Naturals, FiniteSets

CONSTANTS Sessions,   \* session ids
          Calls,      \* store methods that may be under way together
          None,       \* no record, no blob, no lock holder
          TTL,        \* VINDICATE_SESSION_TTL_HOURS, in clock units
          MaxNow      \* bound on the clock

VARIABLES up,         \* the worker process is alive and has loaded the disk
          now,        \* Date.now()
          used,       \* ids randomUUID() has returned so far
          memory,     \* the `memory` map
          disk,       \* what the file of a session holds
          call,       \* the store methods under way
          sweep,      \* the cleanup() under way
          flushTodo,  \* sessions the iterator of flush() has not visited
          tail, ahead, lockKey,   \* the per-session AsyncLock
          \* History, read by properties only:
          ended,      \* sessions closed since the worker started
          touched,    \* sessions in doubt when the sweep began, or called since
          doubt       \* sessions that a failed write, or a write or delete outside
                      \* the lock beside another call, has hit

INSTANCE AsyncLock WITH Keys <- Sessions

lock == <<tail, ahead, lockKey>>
history == <<ended, touched, doubt>>
vars == <<up, now, used, memory, disk, call, sweep, flushTodo, lock, history>>

-----------------------------------------------------------------------------
(* Records, blobs and the pure state machine.                              *)

Live == {"active", "paused", "dead"}      \* the statuses a stored record has
Final == {"closed", "expired"}            \* those that remove the record
(* The triggers some caller applies; ttl_elapsed and paused_ttl_elapsed    *)
(* are in the table, and no code applies them.                             *)
Triggers == {"end", "crash", "resume", "pause", "resume_from_pause"}

Records == [status : Live, at : Nat]
Torn == [status |-> "torn", at |-> 0]     \* truncated: not JSON, or null once decrypted

ASSUME StoreAssumption ==
  /\ None \notin Sessions /\ None \notin Calls
  /\ None \notin Records  /\ None # Torn
  /\ TTL \in Nat /\ MaxNow \in Nat

(* A slip: one pair too many. *)
EdgesDeadToPaused ==
  {<<"active", "end", "closed">>,  <<"active", "crash", "dead">>,
   <<"active", "pause", "paused">>, <<"paused", "resume_from_pause", "active">>,
   <<"paused", "end", "closed">>, <<"paused", "crash", "dead">>,
   <<"dead", "pause", "paused">>, <<"dead", "resume", "active">>,
   <<"dead", "ttl_elapsed", "expired">>, <<"dead", "end", "closed">>}

(* The `transitions` table of session.state-machine.ts. *)
Edges ==
  {<<"active", "end", "closed">>,  <<"active", "crash", "dead">>,
   <<"active", "pause", "paused">>, <<"paused", "resume_from_pause", "active">>,
   <<"paused", "paused_ttl_elapsed", "dead">>, <<"paused", "end", "closed">>,
   <<"paused", "crash", "dead">>,  <<"dead", "resume", "active">>,
   <<"dead", "ttl_elapsed", "expired">>, <<"dead", "end", "closed">>}

(* A slip: the listing forgets to test the status. *)
BlobExpiredAnyStatus(b, at) == b \in {None, Torn} \/ at - b.at > TTL

(* The two TTL tests, which differ at the boundary: the one on blobs       *)
(* (session-disk-store.ts:107) is strict, the one on the map (>=) is not.  *)
BlobExpired(b, at) ==
  b \in {None, Torn} \/ (b.status = "dead" /\ at - b.at > TTL)
RecordExpired(r, at) == r # None /\ r.status = "dead" /\ at - r.at >= TTL

Idle == [op |-> "none", s |-> None, pc |-> "idle", rec |-> None, linked |-> FALSE]
CallStates == [op : {"none", "create", "abandon", "trigger", "flush"},
               s : Sessions \cup {None},
               pc : {"idle", "queued", "write", "open", "landed", "unlink", "remove"},
               rec : Records \cup {None}, linked : BOOLEAN]

NoSweep == [pc |-> "idle", at |-> 0, todo |-> {}, doomed |-> {}, cut |-> {}]
SweepStates == [pc : {"idle", "list", "first", "second"}, at : Nat,
                todo : SUBSET Sessions,      \* ids the listing has still to read
                doomed : SUBSET Sessions,    \* ids it has decided to remove
                cut : SUBSET Sessions]       \* unlinked, not yet out of the map

TypeOK == /\ up \in BOOLEAN /\ now \in Nat /\ used \in SUBSET Sessions
          /\ memory \in [Sessions -> Records \cup {None}]
          /\ disk \in [Sessions -> Records \cup {None, Torn}]
          /\ call \in [Calls -> CallStates]
          /\ sweep \in SweepStates
          /\ flushTodo \in SUBSET Sessions
          /\ LockTypeOK
          /\ ended \in SUBSET Sessions /\ touched \in SUBSET Sessions
          /\ doubt \in SUBSET Sessions

Flushing == \E c \in Calls : call[c].op = "flush"
CallsOn(s) == {c \in Calls : call[c].s = s}

(* A trigger between reading the record and installing its outcome. *)
Deciding(c) == call[c].op = "trigger" /\ call[c].pc \notin {"idle", "queued"}

Init == /\ up = TRUE /\ now = 0 /\ used = {}
        /\ memory = [s \in Sessions |-> None]
        /\ disk = [s \in Sessions |-> None]
        /\ call = [c \in Calls |-> Idle]
        /\ sweep = NoSweep /\ flushTodo = {}
        /\ LockInit
        /\ ended = {} /\ touched = {} /\ doubt = {}

-----------------------------------------------------------------------------
(* create, applyTrigger and abandon up to their first await.               *)

Begin(c, op, s, pc, rec) ==
  /\ up /\ call[c] = Idle
  /\ call' = [call EXCEPT ![c] = [op |-> op, s |-> s, pc |-> pc, rec |-> rec,
                                  linked |-> FALSE]]
  /\ touched' = touched \cup {s}
  /\ doubt' = IF \A d \in CallsOn(s) : call[d].op = "trigger" THEN doubt ELSE doubt \cup {s}
  /\ UNCHANGED <<up, now, disk, sweep, flushTodo, ended>>

(* create(): the record is in the map before its first write is. *)
Create(c, s) ==
  /\ s \notin used
  /\ used' = used \cup {s}
  /\ LET r == [status |-> "active", at |-> now]
     IN  /\ Begin(c, "create", s, "write", r)
         /\ memory' = [memory EXCEPT ![s] = r]
  /\ UNCHANGED lock

(* applyTrigger() joins the session's lock queue.  Which trigger it        *)
(* carries is chosen when it runs: nothing looks at it before.             *)
ApplyTrigger(c, s) ==
  /\ s \in used
  /\ Begin(c, "trigger", s, "queued", None)
  /\ Request(c, s)
  /\ UNCHANGED <<used, memory>>

(* abandon(): outside the lock; the routes call it when the browser part   *)
(* of POST /sessions has failed, so after create() has returned.           *)
Abandon(c, s) ==
  /\ memory[s] # None
  /\ \A d \in CallsOn(s) : call[d].op # "create"
  /\ Begin(c, "abandon", s, "unlink", None)
  /\ memory' = [memory EXCEPT ![s] = None]
  /\ UNCHANGED <<used, lock>>

-----------------------------------------------------------------------------
(* The lock is granted: read the record, apply the table.                  *)

(* applyTrigger's continuation after `await prev`. *)
Decide(c, trigger) ==
  LET s == call[c].s
      next == {t \in Live \cup Final :
                 memory[s] # None /\ <<memory[s].status, trigger, t>> \in Edges}
  IN  /\ call[c].op = "trigger" /\ call[c].pc = "queued" /\ MayRun(c)
      /\ \/ /\ next = {}            \* SessionNotFoundError, InvalidTransitionError
            /\ call' = [call EXCEPT ![c] = Idle]
            /\ Release(c)
         \/ /\ next \cap Final # {}
            /\ call' = [call EXCEPT ![c].pc = "unlink"]
            /\ UNCHANGED lock
         \/ \E t \in next \cap Live :
               /\ call' = [call EXCEPT ![c] =
                             [@ EXCEPT !.pc = "write",
                                       !.rec = [status |-> t, at |-> now]]]
               /\ UNCHANGED lock
      /\ UNCHANGED <<up, now, used, memory, disk, sweep, flushTodo, history>>

(* A closing trigger, or abandon, has the blob unlinked. *)
Unlink(c) ==
  LET s == call[c].s
  IN  /\ call[c].pc = "unlink"
      /\ disk' = [disk EXCEPT ![s] = None]
      /\ call' = [d \in Calls |->
           IF d = c THEN IF call[c].op = "abandon" THEN Idle
                         ELSE [call[c] EXCEPT !.pc = "remove"]
           ELSE IF call[d].s = s THEN [call[d] EXCEPT !.linked = FALSE]
           ELSE call[d]]
      /\ doubt' = IF call[c].op = "abandon" THEN doubt \cup {s} ELSE doubt
      /\ UNCHANGED <<up, now, used, memory, sweep, flushTodo, lock, ended, touched>>

(* ... and then leaves the map and the lock. *)
Remove(c) ==
  LET s == call[c].s
  IN  /\ call[c].pc = "remove"
      /\ memory' = [memory EXCEPT ![s] = None]
      /\ ended' = ended \cup {s}
      /\ call' = [call EXCEPT ![c] = Idle]
      /\ Release(c)
      /\ UNCHANGED <<up, now, used, disk, sweep, flushTodo, touched, doubt>>

-----------------------------------------------------------------------------
(* persist(): mkdir and encrypt, writeFile's open, its content.            *)

(* Opening for writing truncates the blob in place. *)
OpenFile(c) ==
  LET s == call[c].s
  IN  /\ call[c].pc = "write"
      /\ disk' = [disk EXCEPT ![s] = Torn]
      /\ call' = [call EXCEPT ![c] = [@ EXCEPT !.pc = "open", !.linked = TRUE]]
      /\ UNCHANGED <<up, now, used, memory, sweep, flushTodo, lock, history>>

(* The content lands, unless the file has been unlinked meanwhile.  On top *)
(* of another write's content it may leave a mixture of the two.           *)
LandWrite(c) ==
  LET s == call[c].s
  IN  /\ call[c].pc = "open"
      /\ IF call[c].linked
         THEN \E b \in {call[c].rec} \cup (IF disk[s] = Torn THEN {} ELSE {Torn}) :
                 disk' = [disk EXCEPT ![s] = b]
         ELSE UNCHANGED disk
      /\ call' = [call EXCEPT ![c] = [@ EXCEPT !.pc = "landed", !.linked = FALSE]]
      /\ UNCHANGED <<up, now, used, memory, sweep, flushTodo, lock, history>>

(* What follows the await: a trigger installs the record and leaves the    *)
(* lock, create returns, flush goes on to its next record.                 *)
Commit(c) ==
  /\ call[c].pc = "landed"
  /\ CASE call[c].op = "trigger" ->
            /\ memory' = [memory EXCEPT ![call[c].s] = call[c].rec]
            /\ call' = [call EXCEPT ![c] = Idle]
            /\ Release(c)
       [] call[c].op = "create" ->
            /\ call' = [call EXCEPT ![c] = Idle]
            /\ UNCHANGED <<memory, lock>>
       [] OTHER ->
            /\ call' = [call EXCEPT ![c] = [Idle EXCEPT !.op = "flush"]]
            /\ UNCHANGED <<memory, lock>>
  /\ UNCHANGED <<up, now, used, disk, sweep, flushTodo, history>>

(* A persist rejects: a trigger leaves the record as it was, create leaves *)
(* the one it has put in the map.  What open truncated stays truncated.    *)
WriteFails(c) ==
  /\ call[c].pc \in {"write", "open"} /\ call[c].op # "flush"
  /\ IF call[c].op = "trigger" THEN Release(c) ELSE UNCHANGED lock
  /\ call' = [call EXCEPT ![c] = Idle]
  /\ doubt' = doubt \cup {call[c].s}
  /\ UNCHANGED <<up, now, used, memory, disk, sweep, flushTodo, ended, touched>>

-----------------------------------------------------------------------------
(* cleanup(): not under the session lock.                                  *)

SweepBegin ==
  /\ up /\ sweep = NoSweep
  /\ sweep' = [NoSweep EXCEPT !.pc = "list", !.at = now,
                              !.todo = {s \in Sessions : disk[s] # None}]
  /\ touched' = doubt \cup {s \in Sessions : CallsOn(s) # {}}
  /\ UNCHANGED <<up, now, used, memory, disk, call, flushTodo, lock, ended, doubt>>

(* listExpiredDeadSessions reads one file.  None is a file unlinked since  *)
(* the listing, Torn one caught between a write's open and its content.    *)
SweepRead(s) ==
  /\ sweep.pc = "list" /\ s \in sweep.todo
  /\ sweep' = [sweep EXCEPT !.todo = @ \ {s},
                            !.doomed = IF BlobExpired(disk[s], sweep.at)
                                       THEN @ \cup {s} ELSE @]
  /\ UNCHANGED <<up, now, used, memory, disk, call, flushTodo, lock, history>>

SweepListed ==
  /\ sweep.pc = "list" /\ sweep.todo = {}
  /\ sweep' = [sweep EXCEPT !.pc = "first"]
  /\ UNCHANGED <<up, now, used, memory, disk, call, flushTodo, lock, history>>

(* Both loops of cleanup: await disk.delete(id), ... *)
SweepUnlink(s) ==
  /\ sweep.pc \in {"first", "second"} /\ sweep.cut = {} /\ s \in sweep.doomed
  /\ disk' = [disk EXCEPT ![s] = None]
  /\ call' = [d \in Calls |-> IF call[d].s = s THEN [call[d] EXCEPT !.linked = FALSE]
                                               ELSE call[d]]
  /\ sweep' = [sweep EXCEPT !.doomed = @ \ {s}, !.cut = {s}]
  /\ doubt' = doubt \cup {s}
  /\ UNCHANGED <<up, now, used, memory, flushTodo, lock, ended, touched>>

(* ... memory.delete(id). *)
SweepForget(s) ==
  /\ s \in sweep.cut
  /\ memory' = [memory EXCEPT ![s] = None]
  /\ sweep' = [sweep EXCEPT !.cut = {}]
  /\ UNCHANGED <<up, now, used, disk, call, flushTodo, lock, history>>

(* The second loop judges a copy of the map's records taken once. *)
SweepCopy ==
  /\ sweep.pc = "first" /\ sweep.doomed = {} /\ sweep.cut = {}
  /\ sweep' = [sweep EXCEPT !.pc = "second", !.at = now,
                            !.doomed = {s \in Sessions : RecordExpired(memory[s], now)}]
  /\ UNCHANGED <<up, now, used, memory, disk, call, flushTodo, lock, history>>

SweepEnd ==
  /\ sweep.pc = "second" /\ sweep.doomed = {} /\ sweep.cut = {}
  /\ sweep' = NoSweep
  /\ UNCHANGED <<up, now, used, memory, disk, call, flushTodo, lock, history>>

-----------------------------------------------------------------------------
(* Shutdown, death, restart.                                               *)

(* Everything the process held is gone; the blobs are as they are. *)
ProcessGone ==
  /\ up' = FALSE
  /\ memory' = [s \in Sessions |-> None]
  /\ call' = [c \in Calls |-> Idle]
  /\ sweep' = NoSweep /\ flushTodo' = {}
  /\ tail' = [s \in Sessions |-> None]
  /\ ahead' = [c \in Calls |-> {}]
  /\ lockKey' = [c \in Calls |-> None]
  /\ UNCHANGED <<now, used, disk, history>>

(* flush() of runDefaultShutdown, outside the lock. *)
FlushBegin(c) ==
  /\ up /\ call[c] = Idle /\ ~Flushing
  /\ call' = [call EXCEPT ![c].op = "flush"]
  /\ flushTodo' = Sessions
  /\ UNCHANGED <<up, now, used, memory, disk, sweep, lock, history>>

FlushNext(c, s) ==
  /\ call[c].op = "flush" /\ call[c].pc = "idle"
  /\ s \in flushTodo /\ memory[s] # None
  /\ call' = [call EXCEPT ![c] = [op |-> "flush", s |-> s, pc |-> "write",
                                  rec |-> memory[s], linked |-> FALSE]]
  /\ flushTodo' = flushTodo \ {s}
  /\ touched' = touched \cup {s}
  /\ doubt' = doubt \cup {s}
  /\ UNCHANGED <<up, now, used, memory, disk, sweep, lock, ended>>

(* process.exit(0), or exit(1) when a persist of the flush rejects. *)
FlushExit(c) ==
  /\ call[c].op = "flush"
  /\ \/ call[c].pc = "idle" /\ \A s \in flushTodo : memory[s] = None
     \/ call[c].pc \in {"write", "open"}
  /\ ProcessGone

Die == up /\ ProcessGone

(* A slip: a blob that can't be used is skipped, and stays. *)
BootKeepingBlobs ==
  /\ ~up /\ up' = TRUE
  /\ memory' = [s \in Sessions |-> IF BlobExpired(disk[s], now) THEN None ELSE disk[s]]
  /\ ended' = {} /\ touched' = {} /\ doubt' = {}
  /\ UNCHANGED <<now, used, disk, call, sweep, flushTodo, lock>>

(* initializeFromDisk, before the server listens: its cleanup() takes out  *)
(* unreadable and expired blobs, the rest fill the map as they are.        *)
Boot ==
  /\ ~up /\ up' = TRUE
  /\ disk' = [s \in Sessions |-> IF BlobExpired(disk[s], now) THEN None ELSE disk[s]]
  /\ memory' = disk'
  /\ ended' = {} /\ touched' = {} /\ doubt' = {}
  /\ UNCHANGED <<now, used, call, sweep, flushTodo, lock>>

Tick == /\ now < MaxNow /\ now' = now + 1
        /\ UNCHANGED <<up, used, memory, disk, call, sweep, flushTodo, lock, history>>

-----------------------------------------------------------------------------
CallStep(c) ==
  \/ \E s \in Sessions : Create(c, s) \/ ApplyTrigger(c, s) \/ Abandon(c, s)
                         \/ FlushNext(c, s)
  \/ \E t \in Triggers : Decide(c, t)
  \/ Unlink(c) \/ Remove(c)
  \/ OpenFile(c) \/ LandWrite(c) \/ Commit(c) \/ WriteFails(c)
  \/ FlushBegin(c) \/ FlushExit(c)

SweepStep == \/ SweepBegin \/ SweepListed \/ SweepCopy \/ SweepEnd
             \/ \E s \in Sessions : SweepRead(s) \/ SweepUnlink(s) \/ SweepForget(s)

Next == (\E c \in Calls : CallStep(c)) \/ SweepStep \/ Die \/ Boot \/ Tick

Spec == Init /\ [][Next]_vars

-----------------------------------------------------------------------------
(* The store as SessionLifecycle sees it.                                  *)

lifeOf == [s \in Sessions |-> IF memory[s] # None THEN memory[s].status
                              ELSE IF s \in used THEN "gone" ELSE "unborn"]
OutcomeOf(c) == IF call[c].pc \in {"unlink", "remove"} THEN "gone" ELSE call[c].rec.status
decidedOf == [s \in Sessions |->
                IF \E c \in CallsOn(s) : Deciding(c)
                THEN OutcomeOf(CHOOSE c \in CallsOn(s) : Deciding(c))
                ELSE "none"]

Lifecycle == INSTANCE SessionLifecycle WITH life <- lifeOf, decided <- decidedOf

(* The store implements SessionLifecycle: every step of it is a step of    *)
(* the life of one session, a stop, a restart, or invisible.               *)
ImplementsLifecycle == Lifecycle!Spec

-----------------------------------------------------------------------------
(* What the store promises.                                                *)

(* A session closed through the state machine stays closed for as long as  *)
(* the worker runs: no trigger, sweep, abandon or flush that was under way *)
(* puts the record back (session.store.ts:161-163).                        *)
ClosedStaysClosed == up => \A s \in ended : memory[s] = None

(* A status changes only along an edge of the table, from the status the   *)
(* map holds at that moment: two triggers can't both be judged against     *)
(* the same old status (session.store.ts:150-166).                         *)
LegalMove(s) ==
  memory[s] # None /\ memory'[s] # None /\ memory[s] # memory'[s]
    => \E t \in Triggers : <<memory[s].status, t, memory'[s].status>> \in Edges
LegalTransitions == [][\A s \in Sessions : LegalMove(s)]_vars

(* Write-ahead: while nothing is under way for a session, the map and the  *)
(* disk agree, so a death of the process at that moment loses nothing of   *)
(* it.  Excepted are sessions hit by a failed write, or by a write or      *)
(* delete outside the lock (create, abandon, sweep, flush) beside a call.  *)
MapIsOnDisk ==
  up => \A s \in Sessions :
          (s \notin doubt /\ CallsOn(s) = {}) => memory[s] = disk[s]

(* The facts that make these inductive.  A call's program counter, its     *)
(* place in the lock queue and its record fit together; what a trigger is  *)
(* about to install is a legal move from what the map holds, unless the    *)
(* record has been dropped; nothing is known of an id before it is used.   *)
CallShape ==
  \A c \in Calls :
    /\ call[c].op = "none" => call[c].pc = "idle" /\ call[c].s = None
    /\ call[c].op = "trigger" => call[c].pc # "idle" /\ lockKey[c] = call[c].s
    /\ call[c].op # "trigger" => lockKey[c] = None /\ call[c].pc \notin {"queued", "remove"}
    /\ call[c].pc = "unlink" => call[c].op \in {"trigger", "abandon"}
    /\ call[c].op = "abandon" => call[c].pc = "unlink"
    /\ call[c].pc # "idle" => call[c].s \in used
    /\ call[c].pc \in {"write", "open", "landed"} => call[c].rec \in Records
    /\ Deciding(c) => ahead[c] = {}

LegalFor(s, rec) ==
  /\ s \notin ended
  /\ memory[s] # None => \E t \in Triggers : <<memory[s].status, t, rec.status>> \in Edges

DecisionsAreLegal ==
  \A c \in Calls :
    (call[c].op = "trigger" /\ call[c].pc \in {"write", "open", "landed"})
      => LegalFor(call[c].s, call[c].rec)

KnownIds ==
  /\ \A s \in Sessions : memory[s] # None \/ disk[s] # None => s \in used
  /\ ended \subseteq used
  /\ ~up => \A s \in Sessions : memory[s] = None
  /\ ~up => \A c \in Calls : call[c] = Idle

StoreInv == TypeOK /\ QueueOrdered /\ CallShape /\ DecisionsAreLegal /\ KnownIds
              /\ (\A s \in ended : memory[s] = None)

(* The sweep takes a record out of the map only if it is dead and past its *)
(* TTL, or if some store call ran for the session during the sweep, or its *)
(* blob was in doubt before (session.store.ts:94-116).                     *)
SweepTakesOnlyExpired ==
  [][\A s \in sweep.cut :
       (s \notin sweep'.cut /\ up' /\ memory[s] # None /\ s \notin touched)
         => memory[s].status = "dead" /\ now - memory[s].at >= TTL]_vars

=============================================================================
