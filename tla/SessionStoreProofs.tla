------------------------- MODULE SessionStoreProofs -------------------------
(***************************************************************************)
(* For every set of sessions and of concurrent calls, and every TTL: the   *)
(* promise-tail lock excludes, StoreInv is inductive, a closed session     *)
(* stays closed and statuses move only along the table.  What is written   *)
(* ahead of the map keeps both in agreement, the sweep spares what has not *)
(* expired, and the store implements SessionLifecycle.                     *)
(***************************************************************************)
EXTENDS SessionStore, TLAPS

-----------------------------------------------------------------------------
(* The lock.                                                               *)

(* Two calls of one key can't both have an empty set of calls ahead. *)
LEMMA OrderedExcludes == QueueOrdered => Exclusive
BY DEF QueueOrdered, Exclusive, MayRun

(* Joining a queue keeps it ordered: the joiner waits for all the others. *)
LEMMA RequestKeepsOrder ==
  ASSUME LockTypeOK, QueueOrdered, None \notin Calls, None \notin Sessions,
         NEW c \in Calls, NEW s \in Sessions, Request(c, s)
  PROVE  LockTypeOK' /\ QueueOrdered'
<1>1. LockTypeOK'
  BY DEF LockTypeOK, Request
<1>2. ahead'[c] = Queued(s)
  BY DEF LockTypeOK, Request, QueueOrdered, Queued
<1>3. \A d \in Calls : d # c => ahead'[d] = ahead[d] /\ lockKey'[d] = lockKey[d]
  BY DEF LockTypeOK, Request
<1>4. lockKey'[c] = s /\ tail'[s] = c /\ c \notin Queued(s)
  BY DEF LockTypeOK, Request, Queued
<1>5. \A k \in Sessions : k # s => tail'[k] = tail[k]
  BY DEF LockTypeOK, Request
<1>6. \A d \in Calls : c \notin ahead[d]
  BY DEF LockTypeOK, Request, QueueOrdered
<1>7. /\ Queued(s)' = Queued(s) \cup {c}
      /\ \A k \in Sessions : k # s => Queued(k)' = Queued(k)
  <2>1. lockKey[c] = None
    BY DEF Request
  <2>q. QED BY <2>1, <1>3, <1>4 DEF Queued
<1>8. c # None
  OBVIOUS
<1>a. (\A d \in Calls : lockKey[d] = None => ahead[d] = {})'
  BY <1>3, <1>4 DEF QueueOrdered
<1>b. (\A d \in Calls : \A e \in ahead[d] : e # d /\ lockKey[e] = lockKey[d])'
  <2> SUFFICES ASSUME NEW d \in Calls, NEW e \in ahead'[d]
               PROVE  e # d /\ lockKey'[e] = lockKey'[d]
    OBVIOUS
  <2>1. CASE d = c
    BY <2>1, <1>2, <1>3, <1>4 DEF Queued
  <2>2. CASE d # c
    <3>1. e \in ahead[d] /\ e # c /\ e \in Calls
      BY <2>2, <1>3, <1>6 DEF LockTypeOK
    <3>q. QED BY <3>1, <2>2, <1>3 DEF QueueOrdered
  <2>q. QED BY <2>1, <2>2
<1>c. (\A d, e \in Calls :
         (d # e /\ lockKey[d] # None /\ lockKey[d] = lockKey[e])
           => (d \in ahead[e] \/ e \in ahead[d]))'
  BY <1>2, <1>3, <1>4 DEF QueueOrdered, Queued
<1>d. (\A k \in Sessions : tail[k] = None => Queued(k) = {})'
  BY <1>4, <1>5, <1>7, <1>8 DEF QueueOrdered
<1>e. (\A k \in Sessions : tail[k] # None =>
          /\ lockKey[tail[k]] = k
          /\ Queued(k) \ {tail[k]} \subseteq ahead[tail[k]])'
  <2> SUFFICES ASSUME NEW k \in Sessions, tail'[k] # None
               PROVE  /\ lockKey'[tail'[k]] = k
                      /\ Queued(k)' \ {tail'[k]} \subseteq ahead'[tail'[k]]
    OBVIOUS
  <2>1. CASE k = s
    BY <2>1, <1>2, <1>4, <1>7
  <2>2. CASE k # s
    <3>1. tail'[k] = tail[k] /\ tail[k] \in Calls
      BY <2>2, <1>5 DEF LockTypeOK
    <3>2. lockKey[tail[k]] = k /\ Queued(k) \ {tail[k]} \subseteq ahead[tail[k]]
      BY <3>1 DEF QueueOrdered
    <3>3. tail[k] # c
      BY <3>2, <1>4, <2>2 DEF Request
    <3>q. QED BY <3>1, <3>2, <3>3, <1>3, <1>7, <2>2
  <2>q. QED BY <2>1, <2>2
<1>q. QED BY <1>1, <1>a, <1>b, <1>c, <1>d, <1>e DEF QueueOrdered

(* Leaving a queue keeps the rest ordered. *)
LEMMA ReleaseKeepsOrder ==
  ASSUME LockTypeOK, QueueOrdered, None \notin Calls, None \notin Sessions,
         NEW c \in Calls, Release(c)
  PROVE  LockTypeOK' /\ QueueOrdered'
<1>1. LockTypeOK'
  BY DEF LockTypeOK, Release
<1> DEFINE k == lockKey[c]
<1>2. k \in Sessions /\ ahead[c] = {} /\ lockKey'[c] = None /\ ahead'[c] = {}
  BY DEF LockTypeOK, Release, MayRun
<1>3. \A d \in Calls : /\ ahead'[d] = ahead[d] \ {c}
                       /\ d # c => lockKey'[d] = lockKey[d]
  BY DEF LockTypeOK, Release
<1>4. /\ tail'[k] = IF tail[k] = c THEN None ELSE tail[k]
      /\ \A j \in Sessions : j # k => tail'[j] = tail[j]
  BY <1>2 DEF LockTypeOK, Release
<1>5. \A d \in Queued(k) : d # c => c \in ahead[d]
  BY <1>2 DEF QueueOrdered, Queued
<1>6. tail[k] # None
  BY <1>2 DEF QueueOrdered, Queued
<1>7. tail[k] = c => Queued(k) = {c}
  BY <1>2 DEF QueueOrdered, Queued
<1>8. \A j \in Sessions : Queued(j)' = Queued(j) \ {c}
  BY <1>2, <1>3 DEF Queued
<1>9. \A j \in Sessions : j # k => c \notin Queued(j)
  BY DEF Queued
<1>a. (\A d \in Calls : lockKey[d] = None => ahead[d] = {})'
  BY <1>2, <1>3 DEF QueueOrdered
<1>b. (\A d \in Calls : \A e \in ahead[d] : e # d /\ lockKey[e] = lockKey[d])'
  BY <1>2, <1>3, LockTypeOK DEF QueueOrdered, LockTypeOK
<1>c. (\A d, e \in Calls :
         (d # e /\ lockKey[d] # None /\ lockKey[d] = lockKey[e])
           => (d \in ahead[e] \/ e \in ahead[d]))'
  BY <1>2, <1>3 DEF QueueOrdered
<1>d. (\A j \in Sessions : tail[j] = None => Queued(j) = {})'
  BY <1>2, <1>4, <1>6, <1>7, <1>8, <1>9 DEF QueueOrdered
<1>e. (\A j \in Sessions : tail[j] # None =>
          /\ lockKey[tail[j]] = j
          /\ Queued(j) \ {tail[j]} \subseteq ahead[tail[j]])'
  <2> SUFFICES ASSUME NEW j \in Sessions, tail'[j] # None
               PROVE  /\ lockKey'[tail'[j]] = j
                      /\ Queued(j)' \ {tail'[j]} \subseteq ahead'[tail'[j]]
    OBVIOUS
  <2>1. tail'[j] = tail[j] /\ tail[j] \in Calls /\ tail[j] # c
    BY <1>2, <1>4 DEF QueueOrdered, LockTypeOK
  <2>2. lockKey'[tail[j]] = j
    BY <2>1, <1>3 DEF QueueOrdered
  <2>3. Queued(j) \ {tail[j]} \subseteq ahead[tail[j]]
    BY <2>1 DEF QueueOrdered, LockTypeOK
  <2>q. QED BY <2>1, <2>2, <2>3, <1>3, <1>8
<1>q. QED BY <1>1, <1>a, <1>b, <1>c, <1>d, <1>e DEF QueueOrdered

-----------------------------------------------------------------------------
(* The store.  One lemma per family of actions, one step per conjunct.     *)

LEMMA InitInv == Init => StoreInv
<1> SUFFICES ASSUME Init PROVE StoreInv
  OBVIOUS
<1> USE StoreAssumption
<1>1. TypeOK
  BY DEF Init, TypeOK, LockInit, LockTypeOK, Idle, CallStates, NoSweep, SweepStates
<1>2. QueueOrdered
  BY DEF Init, QueueOrdered, LockInit, Queued
<1>3. CallShape
  BY DEF Init, CallShape, LockInit, Idle, Deciding
<1>4. DecisionsAreLegal
  BY DEF Init, DecisionsAreLegal, Idle
<1>5. KnownIds /\ \A s \in ended : memory[s] = None
  BY DEF Init, KnownIds
<1>q. QED BY <1>1, <1>2, <1>3, <1>4, <1>5 DEF StoreInv

(* An idle call, and what the record of any call looks like. *)
LEMMA IdleIsTyped ==
  /\ Idle \in CallStates /\ Idle.op = "none" /\ Idle.pc = "idle" /\ Idle.s = None
  /\ NoSweep \in SweepStates /\ Torn \notin Records
BY DEF Idle, CallStates, NoSweep, SweepStates, Torn, Records, Live

(* Clock ticks, sweep bookkeeping and stutters leave all that StoreInv      *)
(* relates alone.                                                          *)
LEMMA QuietKeeps ==
  ASSUME StoreInv, UNCHANGED <<up, used, memory, disk, call, flushTodo, lock, ended>>,
         now' \in Nat, sweep' \in SweepStates,
         touched' \in SUBSET Sessions, doubt' \in SUBSET Sessions
  PROVE  StoreInv'
<1> USE DEF StoreInv
<1>1. LockTypeOK' /\ QueueOrdered'
  BY DEF TypeOK, LockTypeOK, QueueOrdered, Queued, lock
<1>2. TypeOK'
  BY <1>1 DEF TypeOK
<1>3. CallShape'
  BY DEF CallShape, Deciding, lock
<1>4. DecisionsAreLegal'
  BY DEF DecisionsAreLegal, LegalFor
<1>5. KnownIds' /\ (\A r \in ended : memory[r] = None)'
  BY DEF KnownIds
<1>q. QED BY <1>1, <1>2, <1>3, <1>4, <1>5

(* The steps QuietKeeps is about. *)
LEMMA SweepBookkeepingIsQuiet ==
  ASSUME StoreInv,
         \/ SweepBegin \/ SweepListed \/ SweepCopy \/ SweepEnd \/ Tick
         \/ \E s \in Sessions : SweepRead(s)
         \/ UNCHANGED vars
  PROVE  StoreInv'
<1> USE IdleIsTyped DEF StoreInv, TypeOK
<1>1. CASE SweepBegin
  <2>1. sweep' \in SweepStates
    BY <1>1 DEF SweepBegin, NoSweep, SweepStates
  <2>2. touched' \in SUBSET Sessions
    BY <1>1 DEF SweepBegin
  <2>q. QED BY <1>1, <2>1, <2>2, QuietKeeps DEF SweepBegin
<1>2. CASE SweepListed \/ SweepCopy \/ SweepEnd
  <2>1. sweep' \in SweepStates
    BY <1>2, ZenonT(40) DEF SweepListed, SweepCopy, SweepEnd, SweepStates
  <2>q. QED BY <1>2, <2>1, QuietKeeps DEF SweepListed, SweepCopy, SweepEnd, history
<1>3. CASE Tick
  BY <1>3, QuietKeeps DEF Tick, history
<1>4. CASE \E s \in Sessions : SweepRead(s)
  <2> PICK s \in Sessions : SweepRead(s)
    BY <1>4
  <2>1. sweep' \in SweepStates
    BY DEF SweepRead, SweepStates
  <2>q. QED BY <2>1, QuietKeeps DEF SweepRead, history
<1>5. CASE UNCHANGED vars
  BY <1>5, QuietKeeps DEF vars, history
<1>q. QED BY <1>1, <1>2, <1>3, <1>4, <1>5

(* create(): the id is fresh, so nothing refers to it yet. *)
LEMMA CreateKeeps ==
  ASSUME StoreInv, NEW c \in Calls, NEW s \in Sessions, Create(c, s)
  PROVE  StoreInv'
<1> USE StoreAssumption, IdleIsTyped DEF StoreInv
<1>1. LockTypeOK' /\ QueueOrdered'
  BY DEF TypeOK, LockTypeOK, QueueOrdered, Queued, lock, Create, Begin
<1>2. TypeOK'
  BY <1>1 DEF TypeOK, CallStates, SweepStates, Records, Live, lock, history, Create, Begin
<1>3. CallShape'
  BY DEF CallShape, Deciding, CallStates, TypeOK, LockTypeOK, KnownIds, Records, Live, lock, history, Create, Begin
<1>4. DecisionsAreLegal'
  BY DEF DecisionsAreLegal, LegalFor, CallShape, CallStates, TypeOK, LockTypeOK, KnownIds, lock, history, Create, Begin
<1>5. KnownIds'
  BY DEF KnownIds, CallShape, CallStates, TypeOK, lock, history, Create, Begin
<1>6. (\A r \in ended : memory[r] = None)'
  BY DEF DecisionsAreLegal, LegalFor, CallShape, KnownIds, TypeOK, lock, history, Create, Begin
<1>q. QED BY <1>1, <1>2, <1>3, <1>4, <1>5, <1>6

(* applyTrigger() queues for the lock. *)
LEMMA ApplyTriggerKeeps ==
  ASSUME StoreInv, NEW c \in Calls, NEW s \in Sessions, ApplyTrigger(c, s)
  PROVE  StoreInv'
<1> USE StoreAssumption, IdleIsTyped DEF StoreInv
<1>1. LockTypeOK' /\ QueueOrdered'
  BY RequestKeepsOrder DEF TypeOK, ApplyTrigger, Begin
<1>2. TypeOK'
  BY <1>1 DEF TypeOK, CallStates, SweepStates, Records, Live, lock, history, ApplyTrigger, Begin
<1>3. CallShape'
  BY DEF CallShape, Deciding, CallStates, TypeOK, LockTypeOK, KnownIds, Records, Live, Release, Request, MayRun, lock, history, ApplyTrigger, Begin
<1>4. DecisionsAreLegal'
  BY DEF DecisionsAreLegal, LegalFor, CallShape, CallStates, TypeOK, LockTypeOK, KnownIds, lock, history, ApplyTrigger, Begin
<1>5. KnownIds'
  BY DEF KnownIds, CallShape, CallStates, TypeOK, lock, history, ApplyTrigger, Begin
<1>6. (\A r \in ended : memory[r] = None)'
  BY DEF DecisionsAreLegal, LegalFor, CallShape, KnownIds, TypeOK, lock, history, ApplyTrigger, Begin
<1>q. QED BY <1>1, <1>2, <1>3, <1>4, <1>5, <1>6

(* abandon() takes the record out of the map. *)
LEMMA AbandonKeeps ==
  ASSUME StoreInv, NEW c \in Calls, NEW s \in Sessions, Abandon(c, s)
  PROVE  StoreInv'
<1> USE StoreAssumption, IdleIsTyped DEF StoreInv
<1>1. LockTypeOK' /\ QueueOrdered'
  BY DEF TypeOK, LockTypeOK, QueueOrdered, Queued, lock, Abandon, Begin
<1>2. TypeOK'
  BY <1>1 DEF TypeOK, CallStates, SweepStates, Records, Live, lock, history, Abandon, Begin
<1>3. CallShape'
  BY DEF CallShape, Deciding, CallStates, TypeOK, LockTypeOK, KnownIds, Records, Live, lock, history, Abandon, Begin
<1>4. DecisionsAreLegal'
  BY DEF DecisionsAreLegal, LegalFor, CallShape, CallStates, TypeOK, LockTypeOK, KnownIds, lock, history, Abandon, Begin
<1>5. KnownIds'
  BY DEF KnownIds, CallShape, CallStates, TypeOK, lock, history, Abandon, Begin
<1>6. (\A r \in ended : memory[r] = None)'
  BY DEF DecisionsAreLegal, LegalFor, CallShape, KnownIds, TypeOK, lock, history, Abandon, Begin
<1>q. QED BY <1>1, <1>2, <1>3, <1>4, <1>5, <1>6

(* A blob is unlinked. *)
LEMMA UnlinkKeeps ==
  ASSUME StoreInv, NEW c \in Calls, Unlink(c)
  PROVE  StoreInv'
<1> USE StoreAssumption, IdleIsTyped DEF StoreInv
<1>1. LockTypeOK' /\ QueueOrdered'
  BY DEF TypeOK, LockTypeOK, QueueOrdered, Queued, lock, Unlink
<1>s. call[c].s \in Sessions /\ call[c].op \in {"trigger", "abandon"}
  BY DEF TypeOK, CallShape, KnownIds, CallStates, Unlink
<1>2. TypeOK'
  <2>1. call' \in [Calls -> CallStates]
    <3>1. \A d \in Calls : /\ [call[d] EXCEPT !.pc = "remove"] \in CallStates
                           /\ [call[d] EXCEPT !.linked = FALSE] \in CallStates
      BY DEF TypeOK, CallStates
    <3>q. QED BY <3>1 DEF TypeOK, Unlink
  <2>2. disk' \in [Sessions -> Records \cup {None, Torn}]
    BY <1>s DEF TypeOK, Unlink
  <2>q. QED BY <1>1, <1>s, <2>1, <2>2 DEF TypeOK, lock, Unlink
<1>d. /\ \A d \in Calls : d # c =>
            /\ call'[d].op = call[d].op /\ call'[d].s = call[d].s
            /\ call'[d].rec = call[d].rec /\ call'[d].pc = call[d].pc
      /\ call[c].op = "abandon" => call'[c] = Idle
      /\ call[c].op = "trigger" => /\ call'[c].op = "trigger" /\ call'[c].s = call[c].s
                                   /\ call'[c].pc = "remove"
  <2>1. \A d \in Calls :
          /\ [call[d] EXCEPT !.pc = "remove"].op = call[d].op
          /\ [call[d] EXCEPT !.pc = "remove"].s = call[d].s
          /\ [call[d] EXCEPT !.pc = "remove"].pc = "remove"
          /\ [call[d] EXCEPT !.linked = FALSE].op = call[d].op
          /\ [call[d] EXCEPT !.linked = FALSE].s = call[d].s
          /\ [call[d] EXCEPT !.linked = FALSE].rec = call[d].rec
          /\ [call[d] EXCEPT !.linked = FALSE].pc = call[d].pc
    BY DEF TypeOK, CallStates
  <2>q. QED BY <2>1, <1>s DEF Unlink
<1>3. CallShape'
  BY <1>s, <1>d DEF CallShape, Deciding, lock, Unlink
<1>4. DecisionsAreLegal'
  BY <1>s, <1>d DEF DecisionsAreLegal, LegalFor, Unlink
<1>5. KnownIds'
  BY DEF KnownIds, CallShape, CallStates, TypeOK, lock, history, Unlink
<1>6. (\A r \in ended : memory[r] = None)'
  BY DEF DecisionsAreLegal, LegalFor, CallShape, KnownIds, TypeOK, lock, history, Unlink
<1>q. QED BY <1>1, <1>2, <1>3, <1>4, <1>5, <1>6

(* A write truncates its file. *)
LEMMA OpenFileKeeps ==
  ASSUME StoreInv, NEW c \in Calls, OpenFile(c)
  PROVE  StoreInv'
<1> USE StoreAssumption, IdleIsTyped DEF StoreInv
<1>1. LockTypeOK' /\ QueueOrdered'
  BY DEF TypeOK, LockTypeOK, QueueOrdered, Queued, lock, OpenFile
<1>2. TypeOK'
  <2>1. call' \in [Calls -> CallStates]
    <3>1. [call[c] EXCEPT !.pc = "open", !.linked = TRUE] \in CallStates
      BY DEF TypeOK, CallStates
    <3>q. QED BY <3>1 DEF TypeOK, OpenFile
  <2>2. disk' \in [Sessions -> Records \cup {None, Torn}]
    BY DEF TypeOK, CallShape, OpenFile
  <2>q. QED BY <1>1, <2>1, <2>2 DEF TypeOK, lock, history, OpenFile
<1>3. CallShape'
  BY DEF CallShape, Deciding, CallStates, TypeOK, LockTypeOK, KnownIds, Records, Live, lock, history, OpenFile
<1>d. /\ \A d \in Calls : /\ call'[d].op = call[d].op /\ call'[d].s = call[d].s
                           /\ call'[d].rec = call[d].rec
      /\ \A d \in Calls : d # c => call'[d].pc = call[d].pc
      /\ call[c].pc \in {"write", "open"}
  BY DEF TypeOK, CallStates, OpenFile
<1>4. DecisionsAreLegal'
  <2>1. \A s \in Sessions \cup {None}, r \in Records : LegalFor(s, r) => LegalFor(s, r)'
    BY DEF LegalFor, history, OpenFile
  <2>2. \A d \in Calls : /\ call[d].s \in Sessions \cup {None}
                         /\ call[d].pc \in {"write", "open", "landed"} => call[d].rec \in Records
    BY DEF TypeOK, CallStates, CallShape
  <2>q. QED BY <1>d, <2>1, <2>2 DEF DecisionsAreLegal
<1>5. KnownIds'
  BY DEF KnownIds, CallShape, CallStates, TypeOK, lock, history, OpenFile
<1>6. (\A r \in ended : memory[r] = None)'
  BY DEF DecisionsAreLegal, LegalFor, CallShape, KnownIds, TypeOK, lock, history, OpenFile
<1>q. QED BY <1>1, <1>2, <1>3, <1>4, <1>5, <1>6

(* A write's content lands. *)
LEMMA LandWriteKeeps ==
  ASSUME StoreInv, NEW c \in Calls, LandWrite(c)
  PROVE  StoreInv'
<1> USE StoreAssumption, IdleIsTyped DEF StoreInv
<1>1. LockTypeOK' /\ QueueOrdered'
  BY DEF TypeOK, LockTypeOK, QueueOrdered, Queued, lock, LandWrite
<1>2. TypeOK'
  <2>1. call' \in [Calls -> CallStates]
    <3>1. [call[c] EXCEPT !.pc = "landed", !.linked = FALSE] \in CallStates
      BY DEF TypeOK, CallStates
    <3>q. QED BY <3>1 DEF TypeOK, LandWrite
  <2>2. disk' \in [Sessions -> Records \cup {None, Torn}]
    BY DEF TypeOK, CallShape, LandWrite
  <2>q. QED BY <1>1, <2>1, <2>2 DEF TypeOK, lock, history, LandWrite
<1>3. CallShape'
  BY DEF CallShape, Deciding, CallStates, TypeOK, LockTypeOK, KnownIds, Records, Live, lock, history, LandWrite
<1>d. /\ \A d \in Calls : /\ call'[d].op = call[d].op /\ call'[d].s = call[d].s
                           /\ call'[d].rec = call[d].rec
      /\ \A d \in Calls : d # c => call'[d].pc = call[d].pc
      /\ call[c].pc \in {"write", "open"}
  BY DEF TypeOK, CallStates, LandWrite
<1>4. DecisionsAreLegal'
  <2>1. \A s \in Sessions \cup {None}, r \in Records : LegalFor(s, r) => LegalFor(s, r)'
    BY DEF LegalFor, history, LandWrite
  <2>2. \A d \in Calls : /\ call[d].s \in Sessions \cup {None}
                         /\ call[d].pc \in {"write", "open", "landed"} => call[d].rec \in Records
    BY DEF TypeOK, CallStates, CallShape
  <2>q. QED BY <1>d, <2>1, <2>2 DEF DecisionsAreLegal
<1>5. KnownIds'
  BY DEF KnownIds, CallShape, CallStates, TypeOK, lock, history, LandWrite
<1>6. (\A r \in ended : memory[r] = None)'
  BY DEF DecisionsAreLegal, LegalFor, CallShape, KnownIds, TypeOK, lock, history, LandWrite
<1>q. QED BY <1>1, <1>2, <1>3, <1>4, <1>5, <1>6

(* The sweep unlinks a blob. *)
LEMMA SweepUnlinkKeeps ==
  ASSUME StoreInv, NEW s \in Sessions, SweepUnlink(s)
  PROVE  StoreInv'
<1> USE StoreAssumption, IdleIsTyped DEF StoreInv
<1>1. LockTypeOK' /\ QueueOrdered'
  BY DEF TypeOK, LockTypeOK, QueueOrdered, Queued, lock, SweepUnlink
<1>2. TypeOK'
  <2>1. call' \in [Calls -> CallStates]
    <3>1. \A d \in Calls : [call[d] EXCEPT !.linked = FALSE] \in CallStates
      BY DEF TypeOK, CallStates
    <3>q. QED BY <3>1 DEF TypeOK, SweepUnlink
  <2>2. sweep' \in SweepStates
    BY DEF TypeOK, SweepStates, SweepUnlink
  <2>3. disk' \in [Sessions -> Records \cup {None, Torn}]
    BY DEF TypeOK, SweepUnlink
  <2>q. QED BY <1>1, <2>1, <2>2, <2>3 DEF TypeOK, lock, SweepUnlink
<1>3. CallShape'
  BY DEF CallShape, Deciding, CallStates, TypeOK, LockTypeOK, KnownIds, Records, Live, lock, history, SweepUnlink
<1>4. DecisionsAreLegal'
  BY DEF DecisionsAreLegal, LegalFor, CallShape, CallStates, TypeOK, LockTypeOK, KnownIds, lock, history, SweepUnlink
<1>5. KnownIds'
  BY DEF KnownIds, CallShape, CallStates, TypeOK, lock, history, SweepUnlink
<1>6. (\A r \in ended : memory[r] = None)'
  BY DEF DecisionsAreLegal, LegalFor, CallShape, KnownIds, TypeOK, lock, history, SweepUnlink
<1>q. QED BY <1>1, <1>2, <1>3, <1>4, <1>5, <1>6

(* The sweep drops a record. *)
LEMMA SweepForgetKeeps ==
  ASSUME StoreInv, NEW s \in Sessions, SweepForget(s)
  PROVE  StoreInv'
<1> USE StoreAssumption, IdleIsTyped DEF StoreInv
<1>1. LockTypeOK' /\ QueueOrdered'
  BY DEF TypeOK, LockTypeOK, QueueOrdered, Queued, lock, SweepForget
<1>2. TypeOK'
  BY <1>1 DEF TypeOK, CallStates, SweepStates, Records, Live, lock, history, SweepForget
<1>3. CallShape'
  BY DEF CallShape, Deciding, CallStates, TypeOK, LockTypeOK, KnownIds, Records, Live, lock, history, SweepForget
<1>4. DecisionsAreLegal'
  BY DEF DecisionsAreLegal, LegalFor, CallShape, CallStates, TypeOK, LockTypeOK, KnownIds, lock, history, SweepForget
<1>5. KnownIds'
  BY DEF KnownIds, CallShape, CallStates, TypeOK, lock, history, SweepForget
<1>6. (\A r \in ended : memory[r] = None)'
  BY DEF DecisionsAreLegal, LegalFor, CallShape, KnownIds, TypeOK, lock, history, SweepForget
<1>q. QED BY <1>1, <1>2, <1>3, <1>4, <1>5, <1>6

(* The map is filled from disk. *)
LEMMA BootKeeps ==
  ASSUME StoreInv, Boot
  PROVE  StoreInv'
<1> USE StoreAssumption, IdleIsTyped DEF StoreInv
<1>1. LockTypeOK' /\ QueueOrdered'
  BY DEF TypeOK, LockTypeOK, QueueOrdered, Queued, lock, Boot, BlobExpired
<1>2. TypeOK'
  BY <1>1 DEF TypeOK, CallStates, SweepStates, Records, Live, lock, history, Boot, BlobExpired
<1>3. CallShape'
  BY DEF CallShape, Deciding, CallStates, TypeOK, LockTypeOK, KnownIds, Records, Live, lock, history, Boot, BlobExpired
<1>4. DecisionsAreLegal'
  BY DEF DecisionsAreLegal, LegalFor, CallShape, CallStates, TypeOK, LockTypeOK, KnownIds, lock, history, Boot, BlobExpired
<1>5. KnownIds'
  BY DEF KnownIds, CallShape, CallStates, TypeOK, lock, history, Boot, BlobExpired
<1>6. (\A r \in ended : memory[r] = None)'
  BY DEF DecisionsAreLegal, LegalFor, CallShape, KnownIds, TypeOK, lock, history, Boot, BlobExpired
<1>q. QED BY <1>1, <1>2, <1>3, <1>4, <1>5, <1>6

(* flush() begins. *)
LEMMA FlushBeginKeeps ==
  ASSUME StoreInv, NEW c \in Calls, FlushBegin(c)
  PROVE  StoreInv'
<1> USE StoreAssumption, IdleIsTyped DEF StoreInv
<1>1. LockTypeOK' /\ QueueOrdered'
  BY DEF TypeOK, LockTypeOK, QueueOrdered, Queued, lock, FlushBegin, Idle
<1>2. TypeOK'
  BY <1>1 DEF TypeOK, CallStates, SweepStates, Records, Live, lock, history, FlushBegin, Idle
<1>3. CallShape'
  BY DEF CallShape, Deciding, CallStates, TypeOK, LockTypeOK, KnownIds, Records, Live, lock, history, FlushBegin, Idle
<1>d. call'[c].op = "flush" /\ \A d \in Calls : d # c => call'[d] = call[d]
  BY DEF TypeOK, CallStates, FlushBegin
<1>4. DecisionsAreLegal'
  <2>1. \A s, r : LegalFor(s, r) => LegalFor(s, r)'
    BY DEF LegalFor, history, FlushBegin
  <2>q. QED BY <1>d, <2>1 DEF DecisionsAreLegal
<1>5. KnownIds'
  BY DEF KnownIds, CallShape, CallStates, TypeOK, lock, history, FlushBegin, Idle
<1>6. (\A r \in ended : memory[r] = None)'
  BY DEF DecisionsAreLegal, LegalFor, CallShape, KnownIds, TypeOK, lock, history, FlushBegin, Idle
<1>q. QED BY <1>1, <1>2, <1>3, <1>4, <1>5, <1>6

(* flush() takes a record. *)
LEMMA FlushNextKeeps ==
  ASSUME StoreInv, NEW c \in Calls, NEW s \in Sessions, FlushNext(c, s)
  PROVE  StoreInv'
<1> USE StoreAssumption, IdleIsTyped DEF StoreInv
<1>1. LockTypeOK' /\ QueueOrdered'
  BY DEF TypeOK, LockTypeOK, QueueOrdered, Queued, lock, FlushNext
<1>2. TypeOK'
  BY <1>1 DEF TypeOK, CallStates, SweepStates, Records, Live, lock, history, FlushNext
<1>3. CallShape'
  BY DEF CallShape, Deciding, CallStates, TypeOK, LockTypeOK, KnownIds, Records, Live, lock, history, FlushNext
<1>4. DecisionsAreLegal'
  BY DEF DecisionsAreLegal, LegalFor, CallShape, CallStates, TypeOK, LockTypeOK, KnownIds, lock, history, FlushNext
<1>5. KnownIds'
  BY DEF KnownIds, CallShape, CallStates, TypeOK, lock, history, FlushNext
<1>6. (\A r \in ended : memory[r] = None)'
  BY DEF DecisionsAreLegal, LegalFor, CallShape, KnownIds, TypeOK, lock, history, FlushNext
<1>q. QED BY <1>1, <1>2, <1>3, <1>4, <1>5, <1>6

(* The process is gone. *)
LEMMA ProcessGoneKeeps ==
  ASSUME StoreInv, ProcessGone
  PROVE  StoreInv'
<1> USE StoreAssumption, IdleIsTyped DEF StoreInv
<1>1. LockTypeOK' /\ QueueOrdered'
  BY DEF TypeOK, LockTypeOK, QueueOrdered, Queued, lock, ProcessGone
<1>2. TypeOK'
  BY <1>1 DEF TypeOK, CallStates, SweepStates, Records, Live, lock, history, ProcessGone
<1>3. CallShape'
  BY DEF CallShape, Deciding, CallStates, TypeOK, LockTypeOK, KnownIds, Records, Live, lock, history, ProcessGone
<1>4. DecisionsAreLegal'
  BY DEF DecisionsAreLegal, LegalFor, CallShape, CallStates, TypeOK, LockTypeOK, KnownIds, lock, history, ProcessGone
<1>5. KnownIds'
  BY DEF KnownIds, CallShape, CallStates, TypeOK, lock, history, ProcessGone
<1>6. (\A r \in ended : memory[r] = None)'
  BY DEF DecisionsAreLegal, LegalFor, CallShape, KnownIds, TypeOK, lock, history, ProcessGone
<1>q. QED BY <1>1, <1>2, <1>3, <1>4, <1>5, <1>6

(* A call that leaves the lock and ends keeps the calls in shape. *)
LEMMA LeavingKeepsShape ==
  ASSUME StoreInv, NEW c \in Calls, Release(c),
         call' = [call EXCEPT ![c] = Idle], used' = used
  PROVE  /\ CallShape' /\ LockTypeOK' /\ QueueOrdered'
         /\ call' \in [Calls -> CallStates]
         /\ \A d \in Calls : d # c => call'[d] = call[d]
         /\ call'[c] = Idle
<1> USE StoreAssumption, IdleIsTyped DEF StoreInv
<1>1. LockTypeOK' /\ QueueOrdered'
  BY ReleaseKeepsOrder DEF TypeOK
<1>2. /\ call' \in [Calls -> CallStates] /\ call'[c] = Idle
      /\ \A d \in Calls : d # c => call'[d] = call[d]
  BY DEF TypeOK
<1>3. /\ lockKey'[c] = None
      /\ \A d \in Calls : d # c => lockKey'[d] = lockKey[d]
      /\ \A d \in Calls : ahead[d] = {} => ahead'[d] = {}
  BY DEF TypeOK, LockTypeOK, Release
<1>4. CallShape'
  BY <1>2, <1>3 DEF CallShape, Deciding
<1>q. QED BY <1>1, <1>2, <1>4

(* At most one trigger of a session is past its wait for the lock. *)
LEMMA OneDecides ==
  ASSUME StoreInv, NEW c \in Calls, NEW d \in Calls, Deciding(c), Deciding(d),
         call[c].s = call[d].s
  PROVE  c = d
<1>1. \A e \in {c, d} : lockKey[e] = call[e].s /\ ahead[e] = {} /\ call[e].s \in Sessions
  BY StoreAssumption DEF StoreInv, TypeOK, CallStates, CallShape, Deciding, KnownIds
<1>2. MayRun(c) /\ MayRun(d)
  BY <1>1, StoreAssumption DEF MayRun
<1>q. QED BY <1>1, <1>2, OrderedExcludes DEF StoreInv, Exclusive

(* The lock is granted, and the table consulted. *)
LEMMA DecideKeeps ==
  ASSUME StoreInv, NEW c \in Calls, NEW t \in Triggers, Decide(c, t)
  PROVE  StoreInv'
<1> USE StoreAssumption, IdleIsTyped DEF StoreInv
<1> DEFINE s == call[c].s
<1>s. s \in Sessions /\ s \in used /\ call[c] \in CallStates
  BY DEF TypeOK, CallStates, CallShape, KnownIds, Decide
<1>u. /\ UNCHANGED <<up, now, used, memory, disk, sweep, flushTodo, history>>
      /\ MayRun(c) /\ call[c].op = "trigger" /\ call[c].pc = "queued"
  BY DEF Decide
<1>l. \A r, q : LegalFor(r, q) => LegalFor(r, q)'
  BY <1>u DEF LegalFor, history
<1>1. CASE Release(c) /\ call' = [call EXCEPT ![c] = Idle]
  <2>1. /\ CallShape' /\ LockTypeOK' /\ QueueOrdered' /\ call' \in [Calls -> CallStates]
        /\ call'[c] = Idle /\ \A d \in Calls : d # c => call'[d] = call[d]
    BY <1>1, <1>u, LeavingKeepsShape
  <2>2. TypeOK'
    BY <2>1, <1>u DEF TypeOK, history
  <2>3. DecisionsAreLegal'
    BY <2>1, <1>l DEF DecisionsAreLegal
  <2>4. KnownIds' /\ (\A r \in ended : memory[r] = None)'
    BY <2>1, <1>u DEF KnownIds, history
  <2>q. QED BY <2>1, <2>2, <2>3, <2>4
<1>2. CASE UNCHANGED lock /\ call' = [call EXCEPT ![c].pc = "unlink"]
  <2>1. /\ call' \in [Calls -> CallStates]
        /\ call'[c].op = "trigger" /\ call'[c].pc = "unlink" /\ call'[c].s = s
        /\ \A d \in Calls : d # c => call'[d] = call[d]
    <3>1. [call[c] EXCEPT !.pc = "unlink"] \in CallStates
      BY <1>s DEF CallStates
    <3>q. QED BY <3>1, <1>2, <1>s, <1>u DEF TypeOK, CallStates
  <2>2. LockTypeOK' /\ QueueOrdered'
    BY <1>2 DEF TypeOK, LockTypeOK, QueueOrdered, Queued, lock
  <2>3. TypeOK'
    BY <2>1, <2>2, <1>u DEF TypeOK, history
  <2>4. CallShape'
    BY <2>1, <1>2, <1>s, <1>u DEF CallShape, Deciding, lock, MayRun
  <2>5. DecisionsAreLegal'
    BY <2>1, <1>l DEF DecisionsAreLegal
  <2>6. KnownIds' /\ (\A r \in ended : memory[r] = None)'
    BY <2>1, <1>u DEF KnownIds, history, Idle
  <2>q. QED BY <2>2, <2>3, <2>4, <2>5, <2>6
<1>3. ASSUME NEW to \in Live, memory[s] # None, <<memory[s].status, t, to>> \in Edges,
             UNCHANGED lock,
             call' = [call EXCEPT ![c] = [@ EXCEPT !.pc = "write",
                                             !.rec = [status |-> to, at |-> now]]]
      PROVE  StoreInv'
  <2>1. /\ call' \in [Calls -> CallStates]
        /\ call'[c].op = "trigger" /\ call'[c].pc = "write" /\ call'[c].s = s
        /\ call'[c].rec = [status |-> to, at |-> now] /\ call'[c].rec \in Records
        /\ \A d \in Calls : d # c => call'[d] = call[d]
    <3>1. [status |-> to, at |-> now] \in Records
      BY <1>3 DEF Records, TypeOK
    <3>2. [call[c] EXCEPT !.pc = "write", !.rec = [status |-> to, at |-> now]] \in CallStates
      BY <1>s, <3>1 DEF CallStates
    <3>q. QED BY <3>1, <3>2, <1>3, <1>s, <1>u DEF TypeOK, CallStates
  <2>2. LockTypeOK' /\ QueueOrdered'
    BY <1>3 DEF TypeOK, LockTypeOK, QueueOrdered, Queued, lock
  <2>3. TypeOK'
    BY <2>1, <2>2, <1>u DEF TypeOK, history
  <2>4. CallShape'
    BY <2>1, <1>3, <1>s, <1>u DEF CallShape, Deciding, lock, MayRun
  <2>5. DecisionsAreLegal'
    <3>1. s \notin ended
      BY <1>3
    <3>2. LegalFor(s, call'[c].rec)
      BY <3>1, <1>3, <2>1 DEF LegalFor
    <3>q. QED BY <3>2, <2>1, <1>l DEF DecisionsAreLegal
  <2>6. KnownIds' /\ (\A r \in ended : memory[r] = None)'
    BY <2>1, <1>u DEF KnownIds, history, Idle
  <2>q. QED BY <2>2, <2>3, <2>4, <2>5, <2>6
<1>q. QED BY <1>1, <1>2, <1>3 DEF Decide

(* A closed session leaves the map, and no other trigger is deciding it. *)
LEMMA RemoveKeeps ==
  ASSUME StoreInv, NEW c \in Calls, Remove(c)
  PROVE  StoreInv'
<1> USE StoreAssumption, IdleIsTyped DEF StoreInv
<1> DEFINE s == call[c].s
<1>1. /\ CallShape' /\ LockTypeOK' /\ QueueOrdered' /\ call' \in [Calls -> CallStates]
      /\ call'[c] = Idle /\ \A d \in Calls : d # c => call'[d] = call[d]
  BY LeavingKeepsShape DEF Remove
<1>2. s \in Sessions /\ s \in used /\ Deciding(c)
  BY DEF TypeOK, CallStates, CallShape, KnownIds, Remove, Deciding
<1>3. TypeOK'
  BY <1>1, <1>2 DEF TypeOK, Remove
<1>4. DecisionsAreLegal'
  <2> SUFFICES ASSUME NEW d \in Calls, call'[d].op = "trigger",
                      call'[d].pc \in {"write", "open", "landed"}
               PROVE  LegalFor(call[d].s, call[d].rec)'
    BY DEF DecisionsAreLegal
  <2>1. d # c /\ call'[d] = call[d] /\ Deciding(d)
    BY <1>1 DEF Deciding
  <2>2. call[d].s # s
    BY <2>1, <1>2, OneDecides
  <2>3. LegalFor(call[d].s, call[d].rec)
    BY <2>1 DEF DecisionsAreLegal
  <2>4. call[d].s \in Sessions
    BY <2>1 DEF TypeOK, CallStates, CallShape, KnownIds, Deciding
  <2>q. QED BY <2>1, <2>2, <2>3, <2>4 DEF LegalFor, Remove, TypeOK
<1>5. KnownIds'
  BY <1>1, <1>2 DEF KnownIds, Remove, TypeOK
<1>6. (\A r \in ended : memory[r] = None)'
  BY <1>2 DEF Remove, TypeOK
<1>q. QED BY <1>1, <1>3, <1>4, <1>5, <1>6

(* A persisted decision is installed: it is still legal, because no other  *)
(* trigger could decide meanwhile.                                         *)
LEMMA CommitTriggerKeeps ==
  ASSUME StoreInv, NEW c \in Calls, Commit(c), call[c].op = "trigger"
  PROVE  StoreInv'
<1> USE StoreAssumption, IdleIsTyped DEF StoreInv
<1> DEFINE s == call[c].s
<1>u. /\ memory' = [memory EXCEPT ![s] = call[c].rec]
      /\ call' = [call EXCEPT ![c] = Idle] /\ Release(c) /\ call[c].pc = "landed"
      /\ UNCHANGED <<up, now, used, disk, sweep, flushTodo, history>>
  BY DEF Commit
<1>1. /\ CallShape' /\ LockTypeOK' /\ QueueOrdered' /\ call' \in [Calls -> CallStates]
      /\ call'[c] = Idle /\ \A d \in Calls : d # c => call'[d] = call[d]
  BY <1>u, LeavingKeepsShape
<1>2. s \in Sessions /\ s \in used /\ Deciding(c) /\ call[c].rec \in Records
  BY <1>u DEF TypeOK, CallStates, CallShape, KnownIds, Deciding
<1>3. TypeOK'
  BY <1>1, <1>2, <1>u DEF TypeOK, history
<1>4. DecisionsAreLegal'
  <2> SUFFICES ASSUME NEW d \in Calls, call'[d].op = "trigger",
                      call'[d].pc \in {"write", "open", "landed"}
               PROVE  LegalFor(call[d].s, call[d].rec)'
    BY DEF DecisionsAreLegal
  <2>1. d # c /\ call'[d] = call[d] /\ Deciding(d)
    BY <1>1 DEF Deciding
  <2>2. call[d].s # s
    BY <2>1, <1>2, OneDecides
  <2>3. LegalFor(call[d].s, call[d].rec)
    BY <2>1 DEF DecisionsAreLegal
  <2>4. call[d].s \in Sessions
    BY <2>1 DEF TypeOK, CallStates, CallShape, KnownIds, Deciding
  <2>q. QED BY <2>1, <2>2, <2>3, <2>4, <1>u DEF LegalFor, history, TypeOK
<1>5. KnownIds'
  <2>1. up
    BY <1>2, <1>u DEF KnownIds, TypeOK, Idle
  <2>q. QED BY <2>1, <1>1, <1>2, <1>u DEF KnownIds, TypeOK, history
<1>6. (\A r \in ended : memory[r] = None)'
  <2>1. s \notin ended
    BY <1>u, <1>2 DEF DecisionsAreLegal, LegalFor, Deciding
  <2>q. QED BY <2>1, <1>2, <1>u DEF TypeOK, history
<1>q. QED BY <1>1, <1>3, <1>4, <1>5, <1>6

(* create() returns, or flush() goes on: only the call changes. *)
LEMMA CommitOtherKeeps ==
  ASSUME StoreInv, NEW c \in Calls, Commit(c), call[c].op # "trigger"
  PROVE  StoreInv'
<1> USE StoreAssumption, IdleIsTyped DEF StoreInv
<1>u. /\ UNCHANGED <<up, now, used, disk, sweep, flushTodo, history, memory, lock>>
      /\ call[c].pc = "landed"
      /\ call' = [call EXCEPT ![c] = Idle]
           \/ call' = [call EXCEPT ![c] = [Idle EXCEPT !.op = "flush"]]
  BY DEF Commit
<1>1. /\ call' \in [Calls -> CallStates]
      /\ call'[c].op \in {"none", "flush"} /\ call'[c].pc = "idle" /\ call'[c].s = None
      /\ \A d \in Calls : d # c => call'[d] = call[d]
  <2>1. /\ [Idle EXCEPT !.op = "flush"] \in CallStates
        /\ [Idle EXCEPT !.op = "flush"].op = "flush"
        /\ [Idle EXCEPT !.op = "flush"].pc = "idle" /\ [Idle EXCEPT !.op = "flush"].s = None
    BY DEF Idle, CallStates
  <2>q. QED BY <2>1, <1>u, ZenonT(40) DEF TypeOK
<1>2. LockTypeOK' /\ QueueOrdered'
  BY <1>u DEF TypeOK, LockTypeOK, QueueOrdered, Queued, lock
<1>3. TypeOK'
  BY <1>1, <1>2, <1>u DEF TypeOK, history
<1>4. CallShape'
  BY <1>1, <1>u DEF CallShape, Deciding, lock
<1>5. DecisionsAreLegal'
  <2>1. \A r, q : LegalFor(r, q) => LegalFor(r, q)'
    BY <1>u DEF LegalFor, history
  <2>q. QED BY <1>1, <2>1 DEF DecisionsAreLegal
<1>6. KnownIds' /\ (\A r \in ended : memory[r] = None)'
  <2>1. up
    BY <1>u DEF KnownIds, TypeOK, Idle
  <2>q. QED BY <2>1, <1>u DEF KnownIds, history
<1>q. QED BY <1>2, <1>3, <1>4, <1>5, <1>6

(* A persist rejects: nothing is installed. *)
LEMMA WriteFailsKeeps ==
  ASSUME StoreInv, NEW c \in Calls, WriteFails(c)
  PROVE  StoreInv'
<1> USE StoreAssumption, IdleIsTyped DEF StoreInv
<1>u. /\ UNCHANGED <<up, now, used, memory, disk, sweep, flushTodo, ended, touched>>
      /\ call' = [call EXCEPT ![c] = Idle] /\ call[c].pc \in {"write", "open"}
      /\ doubt' = doubt \cup {call[c].s}
  BY DEF WriteFails
<1>1. /\ CallShape' /\ LockTypeOK' /\ QueueOrdered' /\ call' \in [Calls -> CallStates]
      /\ call'[c] = Idle /\ \A d \in Calls : d # c => call'[d] = call[d]
  <2>1. CASE call[c].op = "trigger"
    BY <2>1, <1>u, LeavingKeepsShape DEF WriteFails
  <2>2. CASE call[c].op # "trigger"
    <3>1. UNCHANGED lock
      BY <2>2 DEF WriteFails
    <3>2. LockTypeOK' /\ QueueOrdered'
      BY <3>1 DEF TypeOK, LockTypeOK, QueueOrdered, Queued, lock
    <3>3. /\ call' \in [Calls -> CallStates] /\ call'[c] = Idle
          /\ \A d \in Calls : d # c => call'[d] = call[d]
      BY <1>u DEF TypeOK
    <3>4. CallShape'
      BY <3>1, <3>3, <2>2, <1>u DEF CallShape, Deciding, lock
    <3>q. QED BY <3>2, <3>3, <3>4
  <2>q. QED BY <2>1, <2>2
<1>2. call[c].s \in Sessions
  BY <1>u DEF TypeOK, CallStates, CallShape, KnownIds
<1>3. TypeOK'
  BY <1>1, <1>2, <1>u DEF TypeOK
<1>4. DecisionsAreLegal'
  <2>1. \A r, q : LegalFor(r, q) => LegalFor(r, q)'
    BY <1>u DEF LegalFor
  <2>q. QED BY <1>1, <2>1 DEF DecisionsAreLegal
<1>5. KnownIds' /\ (\A r \in ended : memory[r] = None)'
  BY <1>1, <1>u DEF KnownIds
<1>q. QED BY <1>1, <1>3, <1>4, <1>5

-----------------------------------------------------------------------------
(* The theorems.                                                           *)

(* StoreInv is preserved by every step of the store, of its sweep, of a    *)
(* shutdown, a death and a restart (session.store.ts:28-203).              *)
THEOREM Inductive == StoreInv /\ [Next]_vars => StoreInv'
<1> SUFFICES ASSUME StoreInv, [Next]_vars PROVE StoreInv'
  OBVIOUS
<1>1. ASSUME NEW c \in Calls, CallStep(c) PROVE StoreInv'
  <2>1. ASSUME NEW s \in Sessions, Create(c, s) \/ ApplyTrigger(c, s) \/ Abandon(c, s)
                                     \/ FlushNext(c, s)
        PROVE  StoreInv'
    BY <2>1, CreateKeeps, ApplyTriggerKeeps, AbandonKeeps, FlushNextKeeps
  <2>2. ASSUME NEW t \in Triggers, Decide(c, t) PROVE StoreInv'
    BY <2>2, DecideKeeps
  <2>3. CASE Unlink(c) \/ Remove(c) \/ OpenFile(c) \/ LandWrite(c)
    BY <2>3, UnlinkKeeps, RemoveKeeps, OpenFileKeeps, LandWriteKeeps
  <2>4. CASE Commit(c) \/ WriteFails(c)
    BY <2>4, CommitTriggerKeeps, CommitOtherKeeps, WriteFailsKeeps
  <2>5. CASE FlushBegin(c) \/ FlushExit(c)
    BY <2>5, FlushBeginKeeps, ProcessGoneKeeps DEF FlushExit
  <2>q. QED BY <1>1, <2>1, <2>2, <2>3, <2>4, <2>5 DEF CallStep
<1>2. CASE SweepStep
  <2>1. ASSUME NEW s \in Sessions, SweepUnlink(s) \/ SweepForget(s) PROVE StoreInv'
    BY <2>1, SweepUnlinkKeeps, SweepForgetKeeps
  <2>q. QED BY <1>2, <2>1, SweepBookkeepingIsQuiet DEF SweepStep
<1>3. CASE Die \/ Boot
  BY <1>3, ProcessGoneKeeps, BootKeeps DEF Die
<1>4. CASE Tick \/ UNCHANGED vars
  BY <1>4, SweepBookkeepingIsQuiet
<1>q. QED BY <1>1, <1>2, <1>3, <1>4 DEF Next

(* In every reachable state the store is well formed and its decisions     *)
(* are legal.                                                              *)
THEOREM StoreCorrect == Spec => []StoreInv
<1>1. Init => StoreInv
  BY InitInv
<1>2. StoreInv /\ [Next]_vars => StoreInv'
  BY Inductive
<1>q. QED BY <1>1, <1>2, PTL DEF Spec

(* The per-session lock excludes (async-lock.ts:2), whatever the number of *)
(* sessions and of calls under way.                                        *)
THEOREM LockExcludes == Spec => []Exclusive
<1>1. StoreInv => Exclusive
  BY OrderedExcludes DEF StoreInv
<1>q. QED BY <1>1, StoreCorrect, PTL

(* A session closed through the state machine never reappears in the map   *)
(* while the worker runs (session.store.ts:161-163).                       *)
THEOREM ClosedForGood == Spec => []ClosedStaysClosed
<1>1. StoreInv => ClosedStaysClosed
  BY DEF StoreInv, ClosedStaysClosed
<1>q. QED BY <1>1, StoreCorrect, PTL

(* A status moves only along an edge of the table, from the status the map *)
(* holds at that moment (session.store.ts:150-166).                        *)
THEOREM StatusesMoveLegally == Spec => LegalTransitions
<1>1. StoreInv /\ [Next]_vars => [\A s \in Sessions : LegalMove(s)]_vars
  <2> SUFFICES ASSUME StoreInv, Next, NEW s \in Sessions,
                      memory[s] # None, memory'[s] # None, memory[s] # memory'[s]
               PROVE  \E t \in Triggers : <<memory[s].status, t, memory'[s].status>> \in Edges
    BY DEF LegalMove
  <2> USE StoreAssumption DEF StoreInv
  <2>1. ASSUME NEW c \in Calls, CallStep(c)
        PROVE  /\ Commit(c) /\ call[c].op = "trigger" /\ call[c].s = s
               /\ memory'[s] = call[c].rec
    <3>1. ASSUME NEW r \in Sessions, Create(c, r) \/ ApplyTrigger(c, r) \/ Abandon(c, r)
                                       \/ FlushNext(c, r)
          PROVE  FALSE
      BY <3>1 DEF Create, ApplyTrigger, Abandon, FlushNext, TypeOK, KnownIds
    <3>2. ASSUME NEW t \in Triggers, Decide(c, t) PROVE FALSE
      BY <3>2 DEF Decide
    <3>3. CASE Unlink(c) \/ Remove(c) \/ OpenFile(c) \/ LandWrite(c)
      BY <3>3 DEF Unlink, Remove, OpenFile, LandWrite, TypeOK
    <3>4. CASE WriteFails(c) \/ FlushBegin(c) \/ FlushExit(c)
      BY <3>4 DEF WriteFails, FlushBegin, FlushExit, ProcessGone, TypeOK
    <3>5. CASE Commit(c)
      <4>1. CASE call[c].op = "trigger"
        BY <3>5, <4>1 DEF Commit, TypeOK
      <4>2. CASE call[c].op # "trigger"
        BY <3>5, <4>2 DEF Commit
      <4>q. QED BY <3>5, <4>1, <4>2
    <3>q. QED BY <2>1, <3>1, <3>2, <3>3, <3>4, <3>5 DEF CallStep
  <2>2. \E c \in Calls : CallStep(c)
    <3>1. ~SweepStep
      BY DEF SweepStep, SweepBegin, SweepRead, SweepListed, SweepUnlink, SweepForget,
             SweepCopy, SweepEnd, TypeOK
    <3>2. ~Die /\ ~Boot /\ ~Tick
      BY DEF Die, ProcessGone, Boot, Tick, KnownIds, TypeOK
    <3>q. QED BY <3>1, <3>2 DEF Next
  <2>3. PICK c \in Calls : /\ Commit(c) /\ call[c].op = "trigger" /\ call[c].s = s
                           /\ memory'[s] = call[c].rec
    BY <2>1, <2>2
  <2>4. LegalFor(s, call[c].rec)
    BY <2>3 DEF Commit, DecisionsAreLegal
  <2>q. QED BY <2>3, <2>4 DEF LegalFor
<1>q. QED BY <1>1, StoreCorrect, PTL DEF Spec, LegalTransitions

-----------------------------------------------------------------------------
(* The write-ahead invariant.  Of a session out of doubt that nobody       *)
(* abandons: at most one call is past its wait; the map and the disk agree *)
(* before and after it, and in between the disk has what it has written.   *)
Busy(c) == call[c].pc \notin {"idle", "queued"}
Abandoned(s) == \E c \in CallsOn(s) : call[c].op = "abandon"
HalfDone(c, s) ==
  /\ call[c].pc = "open" => call[c].linked /\ disk[s] = Torn
  /\ call[c].pc = "landed" => disk[s] = call[c].rec
  /\ call[c].pc = "remove" => disk[s] = None
  /\ call[c].op = "create" => memory[s] = call[c].rec
Settled(s) ==
  ~Abandoned(s) => /\ (\A c \in CallsOn(s) : ~Busy(c)) => memory[s] = disk[s]
                   /\ \A c \in CallsOn(s) : HalfDone(c, s)

(* A record's creation is alone with it, or the session is in doubt; so is *)
(* one that a flush writes or a sweep unlinks.                             *)
FirstAlone(s) == \A c \in CallsOn(s) : call[c].op = "create" => CallsOn(s) = {c}
Outside == \A c \in Calls : /\ call[c].pc = "idle" => call[c].s = None
                            /\ call[c].op = "flush" /\ call[c].s # None => call[c].s \in doubt
Swept == /\ sweep.cut \subseteq doubt
         /\ ~up => sweep = NoSweep
WriteAhead == /\ Outside /\ Swept
              /\ up => \A s \in Sessions \ doubt : FirstAlone(s) /\ Settled(s)

DiskInv == StoreInv /\ WriteAhead

LEMMA Known ==
  ASSUME StoreInv, NEW c \in Calls
  PROVE  /\ call[c] \in CallStates
         /\ call[c].pc # "idle" => call[c].s \in Sessions /\ call[c].s \in used /\ up
BY StoreAssumption, IdleIsTyped DEF StoreInv, TypeOK, CallShape, KnownIds, CallStates

(* While a call is past its wait, nobody else on its session is.           *)
LEMMA OthersWait ==
  ASSUME DiskInv, up, NEW s \in Sessions \ doubt, ~Abandoned(s),
         NEW c \in CallsOn(s), Busy(c), NEW d \in CallsOn(s) \ {c}
  PROVE  ~Busy(d) /\ call[d].op # "create" /\ call[d].op # "abandon"
<1> USE DEF DiskInv
<1>1. call[c] \in CallStates /\ call[d] \in CallStates
  BY Known DEF CallsOn
<1>2. call[c].op # "create" /\ call[d].op # "create"
  BY DEF WriteAhead, FirstAlone
<1>3. call[c].op # "flush" /\ call[d].op # "flush"
  BY StoreAssumption DEF WriteAhead, Outside, CallsOn
<1>4. call[c].op # "abandon" /\ call[d].op # "abandon"
  BY DEF Abandoned
<1>5. call[c].op # "none" /\ call[d].op # "none"
  BY StoreAssumption DEF StoreInv, CallShape, CallsOn
<1>6. call[c].op = "trigger" /\ call[d].op = "trigger"
  BY <1>1, <1>2, <1>3, <1>4, <1>5 DEF CallStates
<1> QED BY <1>6, OneDecides DEF Deciding, Busy, CallsOn

(* A step of one call on one session: what is left to show is what it      *)
(* makes of that session, unless it leaves it in doubt.                    *)
OneCall(c, s) ==
  /\ doubt \subseteq doubt' /\ doubt' \subseteq doubt \cup {s}
  /\ \A t \in Sessions \ {s} : memory'[t] = memory[t] /\ disk'[t] = disk[t]
  /\ call[c].s \in {s, None} /\ call'[c].s \in {s, None}
  /\ \A d \in Calls \ {c} : /\ call'[d].op = call[d].op /\ call'[d].s = call[d].s
                            /\ call'[d].pc = call[d].pc /\ call'[d].rec = call[d].rec
                            /\ call[d].s # s => call'[d] = call[d]
  /\ call'[c].pc = "idle" => call'[c].s = None
  /\ call'[c].op = "flush" /\ call'[c].s # None => s \in doubt'

LEMMA OneCallKeeps ==
  ASSUME DiskInv, StoreInv', NEW s \in Sessions, NEW c \in Calls, OneCall(c, s), up,
         UNCHANGED <<up, sweep>>, s \in doubt' \/ (FirstAlone(s)' /\ Settled(s)')
  PROVE  DiskInv'
<1> USE DEF DiskInv
<1>1. Outside'
  <2> SUFFICES ASSUME NEW d \in Calls
               PROVE  /\ call'[d].pc = "idle" => call'[d].s = None
                      /\ call'[d].op = "flush" /\ call'[d].s # None => call'[d].s \in doubt'
    BY DEF Outside
  <2>1. CASE d = c
    BY <2>1, StoreAssumption DEF OneCall
  <2>2. CASE d # c
    BY <2>2 DEF OneCall, WriteAhead, Outside
  <2> QED BY <2>1, <2>2
<1>2. Swept'
  BY DEF WriteAhead, Swept, OneCall
<1>3. ASSUME NEW t \in Sessions \ doubt', t # s PROVE FirstAlone(t)' /\ Settled(t)'
  <2>1. t \in Sessions \ doubt /\ FirstAlone(t) /\ Settled(t)
    BY <1>3 DEF OneCall, WriteAhead
  <2>2. CallsOn(t)' = CallsOn(t) /\ \A d \in CallsOn(t) : call'[d] = call[d]
    BY <1>3, StoreAssumption DEF OneCall, CallsOn
  <2>3. memory'[t] = memory[t] /\ disk'[t] = disk[t]
    BY <1>3 DEF OneCall
  <2> HIDE DEF OneCall
  <2>4. FirstAlone(t)'
    BY <2>1, <2>2 DEF FirstAlone
  <2>5. Settled(t)'
    <3> SUFFICES ASSUME ~Abandoned(t)'
                 PROVE  /\ (\A d \in CallsOn(t)' : ~Busy(d)') => memory'[t] = disk'[t]
                        /\ \A d \in CallsOn(t)' : HalfDone(d, t)'
      BY DEF Settled
    <3>1. ~Abandoned(t)
      BY <2>2 DEF Abandoned
    <3>2. \A d \in CallsOn(t) : (Busy(d)' <=> Busy(d)) /\ (HalfDone(d, t)' <=> HalfDone(d, t))
      BY <2>2, <2>3 DEF Busy, HalfDone
    <3> QED BY <2>1, <2>2, <2>3, <3>1, <3>2 DEF Settled
  <2> QED BY <2>4, <2>5
<1> QED BY <1>1, <1>2, <1>3 DEF WriteAhead

-----------------------------------------------------------------------------
(* What a call's place says of others is the same for those it leaves be.  *)
LEMMA Same ==
  ASSUME NEW s, NEW d, call'[d] = call[d], memory'[s] = memory[s], disk'[s] = disk[s]
  PROVE  (Busy(d)' <=> Busy(d)) /\ (HalfDone(d, s)' <=> HalfDone(d, s))
BY DEF Busy, HalfDone

(* Calls begin: create is alone, a trigger waits, abandon stops all claims.*)
LEMMA BeginFacts ==
  ASSUME DiskInv, NEW c \in Calls, NEW s \in Sessions, NEW op, NEW pc, NEW rec,
         Begin(c, op, s, pc, rec), pc # "idle", op # "flush",
         \A t \in Sessions \ {s} : memory'[t] = memory[t]
  PROVE  /\ OneCall(c, s) /\ up /\ UNCHANGED <<up, sweep, disk>>
         /\ call'[c].op = op /\ call'[c].s = s /\ call'[c].pc = pc /\ call'[c].rec = rec
         /\ \A d \in Calls \ {c} : call'[d] = call[d]
         /\ c \notin CallsOn(s) /\ CallsOn(s)' = CallsOn(s) \cup {c}
         /\ s \notin doubt' => s \notin doubt /\ \A d \in CallsOn(s) : call[d].op = "trigger"
<1> USE IdleIsTyped DEF DiskInv
<1>1. call[c] = Idle /\ call[c].s = None /\ up /\ UNCHANGED <<up, sweep, disk>>
  BY DEF Begin
<1>2. /\ call'[c].op = op /\ call'[c].s = s /\ call'[c].pc = pc /\ call'[c].rec = rec
      /\ \A d \in Calls \ {c} : call'[d] = call[d]
  BY DEF Begin, StoreInv, TypeOK
<1>3. doubt' = IF \A d \in CallsOn(s) : call[d].op = "trigger" THEN doubt ELSE doubt \cup {s}
  BY DEF Begin
<1>4. c \notin CallsOn(s) /\ CallsOn(s)' = CallsOn(s) \cup {c}
  BY <1>1, <1>2, StoreAssumption DEF CallsOn
<1>5. OneCall(c, s)
  BY <1>1, <1>2, <1>3 DEF OneCall
<1> QED BY <1>1, <1>2, <1>3, <1>4, <1>5

LEMMA CreateOnDisk ==
  ASSUME DiskInv, NEW c \in Calls, NEW s \in Sessions, Create(c, s) PROVE DiskInv'
<1> DEFINE r == [status |-> "active", at |-> now]
<1>1. /\ s \notin used /\ Begin(c, "create", s, "write", r) /\ memory' = [memory EXCEPT ![s] = r]
  BY DEF Create
<1>2. StoreInv'
  BY CreateKeeps DEF DiskInv
<1>3. memory'[s] = r /\ \A t \in Sessions \ {s} : memory'[t] = memory[t]
  BY <1>1 DEF DiskInv, StoreInv, TypeOK
<1>4. \A d \in CallsOn(s) : FALSE
  BY <1>1, Known, StoreAssumption DEF DiskInv, CallsOn, WriteAhead, Outside
<1> HIDE DEF r
<1>5. /\ OneCall(c, s) /\ up /\ UNCHANGED <<up, sweep, disk>> /\ CallsOn(s)' = {c}
      /\ call'[c].op = "create" /\ call'[c].pc = "write" /\ call'[c].rec = r
  BY <1>1, <1>3, <1>4, BeginFacts
<1>6. FirstAlone(s)' /\ Settled(s)'
  BY <1>3, <1>5 DEF FirstAlone, Settled, HalfDone, Busy
<1> QED BY <1>2, <1>5, <1>6, OneCallKeeps

LEMMA ApplyTriggerOnDisk ==
  ASSUME DiskInv, NEW c \in Calls, NEW s \in Sessions, ApplyTrigger(c, s) PROVE DiskInv'
<1>1. StoreInv' /\ UNCHANGED memory
  BY ApplyTriggerKeeps DEF DiskInv, ApplyTrigger
<1>2. /\ OneCall(c, s) /\ up /\ UNCHANGED <<up, sweep, disk>>
      /\ call'[c].op = "trigger" /\ call'[c].pc = "queued"
      /\ \A d \in Calls \ {c} : call'[d] = call[d]
      /\ c \notin CallsOn(s) /\ CallsOn(s)' = CallsOn(s) \cup {c}
      /\ s \notin doubt' => s \notin doubt /\ \A d \in CallsOn(s) : call[d].op = "trigger"
  BY <1>1, BeginFacts DEF ApplyTrigger
<1>3. ASSUME s \notin doubt' PROVE FirstAlone(s)' /\ Settled(s)'
  <2>1. Settled(s) /\ ~Abandoned(s)
    BY <1>2, <1>3 DEF DiskInv, WriteAhead, Abandoned
  <2>2. \A d \in CallsOn(s) : (Busy(d)' <=> Busy(d)) /\ (HalfDone(d, s)' <=> HalfDone(d, s))
    <3> SUFFICES ASSUME NEW d \in CallsOn(s)
                 PROVE  (Busy(d)' <=> Busy(d)) /\ (HalfDone(d, s)' <=> HalfDone(d, s))
      OBVIOUS
    <3>1. call'[d] = call[d]
      BY <1>2 DEF CallsOn
    <3> QED BY <1>1, <1>2, <3>1, Same
  <2>3. ~Busy(c)' /\ HalfDone(c, s)'
    BY <1>2 DEF Busy, HalfDone
  <2>4. Settled(s)'
    BY <1>1, <1>2, <2>1, <2>2, <2>3 DEF Settled
  <2>5. FirstAlone(s)'
    <3>1. \A d \in CallsOn(s)' : call'[d].op = "trigger"
      BY <1>2, <1>3 DEF CallsOn
    <3> QED BY <3>1 DEF FirstAlone
  <2> QED BY <2>4, <2>5
<1> QED BY <1>1, <1>2, <1>3, OneCallKeeps

LEMMA AbandonOnDisk ==
  ASSUME DiskInv, NEW c \in Calls, NEW s \in Sessions, Abandon(c, s) PROVE DiskInv'
<1>1. StoreInv' /\ \A t \in Sessions \ {s} : memory'[t] = memory[t]
  BY AbandonKeeps DEF DiskInv, Abandon, StoreInv, TypeOK
<1>2. /\ OneCall(c, s) /\ up /\ UNCHANGED <<up, sweep, disk>>
      /\ call'[c].op = "abandon" /\ call'[c].pc = "unlink"
      /\ \A d \in Calls \ {c} : call'[d] = call[d]
      /\ c \notin CallsOn(s) /\ CallsOn(s)' = CallsOn(s) \cup {c}
  BY <1>1, BeginFacts DEF Abandon
<1>3. Settled(s)'
  BY <1>2 DEF Settled, Abandoned
<1>4. FirstAlone(s)'
  <2>1. \A d \in CallsOn(s)' : call'[d].op # "create"
    BY <1>2 DEF CallsOn, Abandon
  <2> QED BY <2>1 DEF FirstAlone
<1> QED BY <1>1, <1>2, <1>3, <1>4, OneCallKeeps

-----------------------------------------------------------------------------
(* A call past its wait moves on, and the others of its session wait: what *)
(* is left to show is about the call itself.                               *)
LEMMA BusyMoves ==
  ASSUME DiskInv, StoreInv', NEW s \in Sessions, NEW c \in CallsOn(s), Busy(c), OneCall(c, s),
         up, UNCHANGED <<up, sweep>>,
         call'[c].op \in {call[c].op, "none", "flush"},
         s \notin doubt' =>
           /\ \A d \in CallsOn(s) \ {c} : call'[d].pc = call[d].pc /\ call'[d].op = call[d].op
           /\ ~Abandoned(s) =>
                IF Busy(c)' THEN call'[c].s = s => HalfDone(c, s)'
                ELSE memory'[s] = disk'[s] /\ call'[c].s # s,
         s \notin doubt' /\ Abandoned(s) => Abandoned(s)'
  PROVE  DiskInv'
<1> USE DEF DiskInv
<1>1. ASSUME s \notin doubt' PROVE FirstAlone(s)' /\ Settled(s)'
  <2>1. s \notin doubt /\ FirstAlone(s) /\ Settled(s)
    BY <1>1 DEF OneCall, WriteAhead
  <2>2. CallsOn(s)' \subseteq CallsOn(s) /\ c \in CallsOn(s) /\ CallsOn(s) \ {c} \subseteq CallsOn(s)'
    BY StoreAssumption DEF OneCall, CallsOn
  <2>3. FirstAlone(s)'
    <3> SUFFICES ASSUME NEW d \in CallsOn(s)', call'[d].op = "create" PROVE CallsOn(s)' = {d}
      BY DEF FirstAlone
    <3>1. call[d].op = "create"
      BY <2>2 DEF OneCall, CallsOn
    <3>2. CallsOn(s) = {d}
      BY <2>1, <2>2, <3>1 DEF FirstAlone
    <3> QED BY <2>2, <3>2
  <2>4. CASE Abandoned(s)
    BY <1>1, <2>3, <2>4 DEF Settled
  <2>5. CASE ~Abandoned(s)
    <3>1. \A d \in CallsOn(s) \ {c} : ~Busy(d) /\ call[d].op # "create"
      BY <2>1, <2>5, OthersWait
    <3>2. \A d \in CallsOn(s) \ {c} : ~Busy(d)' /\ HalfDone(d, s)'
      <4> SUFFICES ASSUME NEW d \in CallsOn(s) \ {c} PROVE ~Busy(d)' /\ HalfDone(d, s)'
        OBVIOUS
      <4>1. call[d].pc \in {"idle", "queued"} /\ call[d].op # "create"
        BY <3>1 DEF Busy
      <4>2. call'[d].pc = call[d].pc /\ call'[d].op = call[d].op
        BY <1>1
      <4> QED BY <4>1, <4>2 DEF Busy, HalfDone
    <3>3. CASE Busy(c)'
      <4>1. call'[c].s = s => HalfDone(c, s)'
        BY <1>1, <2>5, <3>3
      <4>2. call'[c].s = s
        <5>1. call'[c].s \in used' /\ used' \subseteq Sessions
          BY <3>3 DEF StoreInv, CallShape, Busy, TypeOK, CallsOn
        <5> QED BY <5>1, StoreAssumption DEF OneCall
      <4>3. c \in CallsOn(s)'
        BY <4>2 DEF CallsOn
      <4> QED BY <2>2, <2>3, <3>2, <3>3, <4>1, <4>2, <4>3 DEF Settled
    <3>4. CASE ~Busy(c)'
      <4>1. memory'[s] = disk'[s] /\ call'[c].s # s
        BY <1>1, <2>5, <3>4
      <4>2. CallsOn(s)' = CallsOn(s) \ {c}
        BY <2>2, <4>1 DEF CallsOn
      <4> QED BY <2>3, <3>2, <4>1, <4>2 DEF Settled
    <3> QED BY <3>3, <3>4
  <2> QED BY <2>4, <2>5
<1> QED BY <1>1, OneCallKeeps DEF CallsOn

(* The frame of a step of one call whose record keeps its session.         *)
LEMMA StepFrame ==
  ASSUME DiskInv, NEW c \in Calls, NEW s \in Sessions, s = call[c].s, NEW q \in CallStates,
         call' = [call EXCEPT ![c] = q], q.s \in {s, None},
         q.pc = "idle" => q.s = None, q.op = "flush" => call[c].op = "flush",
         \A t \in Sessions \ {s} : memory'[t] = memory[t] /\ disk'[t] = disk[t],
         doubt' = doubt
  PROVE  /\ OneCall(c, s) /\ c \in CallsOn(s)
         /\ call'[c] = q /\ \A d \in Calls \ {c} : call'[d] = call[d]
         /\ q.op = call[c].op /\ q.s = s => (Abandoned(s) => Abandoned(s)')
<1>1. c \in CallsOn(s)
  BY DEF CallsOn
<1>2. call'[c] = q /\ \A d \in Calls \ {c} : call'[d] = call[d]
  BY DEF DiskInv, StoreInv, TypeOK
<1>3. OneCall(c, s)
  BY <1>2, StoreAssumption DEF DiskInv, WriteAhead, Outside, OneCall
<1>4. ASSUME q.op = call[c].op, q.s = s, Abandoned(s) PROVE Abandoned(s)'
  BY <1>1, <1>2, <1>4 DEF Abandoned, CallsOn
<1> QED BY <1>1, <1>2, <1>3, <1>4

LEMMA OpenFileOnDisk ==
  ASSUME DiskInv, NEW c \in Calls, NEW s \in Sessions, s = call[c].s, OpenFile(c) PROVE DiskInv'
<1> DEFINE q == [call[c] EXCEPT !.pc = "open", !.linked = TRUE]
<1> USE DEF DiskInv
<1>1. call[c].pc = "write" /\ call[c] \in CallStates /\ up
  BY Known DEF OpenFile
<1>2. /\ q \in CallStates /\ q.pc = "open" /\ q.linked /\ q.s = s /\ q.op = call[c].op /\ q.rec = call[c].rec
      /\ call' = [call EXCEPT ![c] = q]
  BY <1>1 DEF CallStates, OpenFile
<1>3. /\ disk'[s] = Torn /\ \A t \in Sessions \ {s} : disk'[t] = disk[t]
      /\ UNCHANGED <<up, sweep, memory, doubt>>
  BY DEF OpenFile, history, StoreInv, TypeOK
<1>4. StoreInv'
  BY OpenFileKeeps
<1> HIDE DEF q
<1>5. /\ OneCall(c, s) /\ c \in CallsOn(s) /\ call'[c] = q
      /\ \A d \in Calls \ {c} : call'[d] = call[d]
      /\ Abandoned(s) => Abandoned(s)'
  <2>1. /\ q.s \in {s, None} /\ q.pc # "idle" /\ doubt' = doubt
        /\ q.op = "flush" => call[c].op = "flush"
        /\ q.pc = "idle" => q.s = None
        /\ \A t \in Sessions \ {s} : memory'[t] = memory[t] /\ disk'[t] = disk[t]
    BY <1>2, <1>3
  <2> HIDE DEF DiskInv
  <2> QED BY <1>2, <2>1, StepFrame, ZenonT(40)
<1>7. Busy(c) /\ Busy(c)'
  BY <1>1, <1>2, <1>5 DEF Busy
<1>8. s \notin doubt' /\ ~Abandoned(s) => HalfDone(c, s)'
  <2> SUFFICES ASSUME s \notin doubt', ~Abandoned(s) PROVE HalfDone(c, s)'
    OBVIOUS
  <2>1. HalfDone(c, s)
    BY <1>1, <1>3, <1>5 DEF WriteAhead, Settled
  <2> QED BY <1>2, <1>3, <1>5, <2>1 DEF HalfDone
<1> QED BY <1>1, <1>2, <1>3, <1>4, <1>5, <1>7, <1>8, BusyMoves DEF CallsOn

LEMMA LandWriteOnDisk ==
  ASSUME DiskInv, NEW c \in Calls, NEW s \in Sessions, s = call[c].s, LandWrite(c) PROVE DiskInv'
<1> DEFINE q == [call[c] EXCEPT !.pc = "landed", !.linked = FALSE]
<1> USE DEF DiskInv
<1>1. call[c].pc = "open" /\ call[c] \in CallStates /\ up
  BY Known DEF LandWrite
<1>2. /\ q \in CallStates /\ q.pc = "landed" /\ q.s = s /\ q.op = call[c].op /\ q.rec = call[c].rec
      /\ call' = [call EXCEPT ![c] = q]
  BY <1>1 DEF CallStates, LandWrite
<1>3. /\ call[c].linked /\ disk[s] = Torn => disk'[s] = call[c].rec
      /\ \A t \in Sessions \ {s} : disk'[t] = disk[t]
      /\ UNCHANGED <<up, sweep, memory, doubt>>
  BY DEF LandWrite, history, StoreInv, TypeOK
<1>4. StoreInv'
  BY LandWriteKeeps
<1> HIDE DEF q
<1>5. /\ OneCall(c, s) /\ c \in CallsOn(s) /\ call'[c] = q
      /\ \A d \in Calls \ {c} : call'[d] = call[d]
      /\ Abandoned(s) => Abandoned(s)'
  <2>1. /\ q.s \in {s, None} /\ q.pc # "idle" /\ doubt' = doubt
        /\ q.op = "flush" => call[c].op = "flush"
        /\ q.pc = "idle" => q.s = None
        /\ \A t \in Sessions \ {s} : memory'[t] = memory[t] /\ disk'[t] = disk[t]
    BY <1>2, <1>3
  <2> HIDE DEF DiskInv
  <2> QED BY <1>2, <2>1, StepFrame, ZenonT(40)
<1>7. Busy(c) /\ Busy(c)'
  BY <1>1, <1>2, <1>5 DEF Busy
<1>8. s \notin doubt' /\ ~Abandoned(s) => HalfDone(c, s)'
  <2> SUFFICES ASSUME s \notin doubt', ~Abandoned(s) PROVE HalfDone(c, s)'
    OBVIOUS
  <2>1. HalfDone(c, s)
    BY <1>1, <1>3, <1>5 DEF WriteAhead, Settled
  <2>2. disk'[s] = call[c].rec
    BY <1>1, <1>3, <2>1 DEF HalfDone
  <2> QED BY <1>2, <1>3, <1>5, <2>1, <2>2 DEF HalfDone
<1> QED BY <1>1, <1>2, <1>3, <1>4, <1>5, <1>7, <1>8, BusyMoves DEF CallsOn

(* The blob is unlinked: for good by a trigger, and by an abandon, which   *)
(* leaves the session in doubt.                                            *)
LEMMA UnlinkOnDisk ==
  ASSUME DiskInv, NEW c \in Calls, NEW s \in Sessions, s = call[c].s, Unlink(c) PROVE DiskInv'
<1> USE DEF DiskInv
<1>1. /\ call[c].pc = "unlink" /\ call[c] \in CallStates /\ up /\ c \in CallsOn(s)
      /\ call[c].op \in {"trigger", "abandon"}
  BY Known DEF Unlink, CallsOn, StoreInv, CallShape
<1>2. ASSUME NEW d \in Calls \ {c}
      PROVE  /\ call'[d].op = call[d].op /\ call'[d].s = call[d].s
             /\ call'[d].pc = call[d].pc /\ call'[d].rec = call[d].rec
             /\ call[d].s # s => call'[d] = call[d]
  BY Known DEF Unlink, CallStates
<1>3. /\ disk'[s] = None /\ \A t \in Sessions \ {s} : disk'[t] = disk[t]
      /\ UNCHANGED <<up, sweep, memory>>
      /\ doubt' = IF call[c].op = "abandon" THEN doubt \cup {s} ELSE doubt
  BY DEF Unlink, StoreInv, TypeOK
<1>4. StoreInv'
  BY UnlinkKeeps
<1>5. /\ call[c].op = "abandon" => call'[c] = Idle
      /\ call[c].op = "trigger" => /\ call'[c].pc = "remove" /\ call'[c].s = s /\ call'[c].op = "trigger"
  BY <1>1 DEF Unlink, CallStates
<1>6. OneCall(c, s)
  BY <1>1, <1>2, <1>3, <1>5, IdleIsTyped DEF OneCall
<1>7. Busy(c)
  BY <1>1 DEF Busy
<1>8. CASE call[c].op = "abandon"
  BY <1>1, <1>3, <1>4, <1>5, <1>6, <1>7, <1>8, IdleIsTyped, BusyMoves
<1>9. CASE call[c].op = "trigger"
  <2>1. Busy(c)' /\ HalfDone(c, s)'
    BY <1>3, <1>5, <1>9 DEF Busy, HalfDone
  <2>2. Abandoned(s) => Abandoned(s)'
    BY <1>2, <1>9 DEF Abandoned, CallsOn
  <2> QED BY <1>1, <1>2, <1>3, <1>4, <1>5, <1>6, <1>7, <1>9, <2>1, <2>2, BusyMoves DEF CallsOn
<1> QED BY <1>1, <1>8, <1>9

(* A call ends: what it leaves is on disk, or the session in doubt.        *)
LEMMA EndOnDisk ==
  ASSUME DiskInv, StoreInv', NEW c \in Calls, NEW s \in Sessions, s = call[c].s, Busy(c),
         NEW q \in CallStates, q.pc = "idle", q.s = None, q.op = "none" \/ q.op = call[c].op,
         call' = [call EXCEPT ![c] = q], UNCHANGED <<up, sweep, disk>>,
         \A t \in Sessions \ {s} : memory'[t] = memory[t],
         \/ doubt' = doubt \cup {s}
         \/ /\ doubt' = doubt
            /\ call[c].op # "abandon" /\ (s \notin doubt /\ ~Abandoned(s) => memory'[s] = disk[s])
  PROVE  DiskInv'
<1> USE DEF DiskInv
<1>1. /\ c \in CallsOn(s) /\ up /\ call'[c] = q /\ \A d \in Calls \ {c} : call'[d] = call[d]
  BY Known DEF CallsOn, Busy, StoreInv, TypeOK
<1>2. OneCall(c, s)
  BY <1>1 DEF OneCall
<1>3. ~Busy(c)'
  BY <1>1 DEF Busy
<1>4. call[c].op # "abandon" => (Abandoned(s) => Abandoned(s)')
  BY <1>1 DEF Abandoned, CallsOn
<1> QED BY <1>1, <1>2, <1>3, <1>4, StoreAssumption, BusyMoves DEF CallsOn

LEMMA RemoveOnDisk ==
  ASSUME DiskInv, NEW c \in Calls, NEW s \in Sessions, s = call[c].s, Remove(c) PROVE DiskInv'
<1>1. /\ call[c].pc = "remove" /\ call' = [call EXCEPT ![c] = Idle] /\ up /\ Busy(c)
      /\ UNCHANGED <<up, sweep, disk, doubt>> /\ memory'[s] = None
      /\ \A t \in Sessions \ {s} : memory'[t] = memory[t]
      /\ call[c].op # "abandon"
  BY Known DEF Remove, Busy, DiskInv, StoreInv, TypeOK, CallShape
<1>2. s \notin doubt /\ ~Abandoned(s) => disk[s] = None
  BY <1>1 DEF DiskInv, WriteAhead, Settled, HalfDone, CallsOn
<1>3. StoreInv'
  BY RemoveKeeps DEF DiskInv
<1> QED BY <1>1, <1>2, <1>3, IdleIsTyped, EndOnDisk

LEMMA CommitOnDisk ==
  ASSUME DiskInv, NEW c \in Calls, NEW s \in Sessions, s = call[c].s, Commit(c) PROVE DiskInv'
<1>1. /\ call[c].pc = "landed" /\ Busy(c) /\ up /\ call[c].op # "abandon"
      /\ UNCHANGED <<up, sweep, disk, doubt>>
  BY Known DEF Commit, Busy, DiskInv, StoreInv, CallShape, history
<1>2. ASSUME s \notin doubt, ~Abandoned(s)
      PROVE  /\ disk[s] = call[c].rec
             /\ call[c].op = "create" => memory[s] = call[c].rec
  BY <1>1, <1>2 DEF DiskInv, WriteAhead, Settled, HalfDone, CallsOn
<1>3. StoreInv'
  BY CommitTriggerKeeps, CommitOtherKeeps DEF DiskInv
<1>4. CASE call[c].op = "trigger"
  <2>1. /\ memory'[s] = call[c].rec /\ \A t \in Sessions \ {s} : memory'[t] = memory[t]
        /\ call' = [call EXCEPT ![c] = Idle]
    BY <1>4 DEF Commit, DiskInv, StoreInv, TypeOK
  <2>2. s \notin doubt /\ ~Abandoned(s) => memory'[s] = disk[s]
    BY <1>2, <2>1
  <2>3. Idle \in CallStates /\ Idle.pc = "idle" /\ Idle.s = None /\ Idle.op = "none"
    BY IdleIsTyped DEF Idle
  <2> QED BY <1>1, <1>3, <2>1, <2>2, <2>3, EndOnDisk
<1>5. CASE call[c].op = "create"
  <2>1. UNCHANGED memory /\ call' = [call EXCEPT ![c] = Idle]
    BY <1>5 DEF Commit
  <2>2. s \notin doubt /\ ~Abandoned(s) => memory'[s] = disk[s]
    BY <1>2, <1>5, <2>1
  <2>3. Idle \in CallStates /\ Idle.pc = "idle" /\ Idle.s = None /\ Idle.op = "none"
    BY IdleIsTyped DEF Idle
  <2> QED BY <1>1, <1>3, <2>1, <2>2, <2>3, EndOnDisk
<1>6. CASE call[c].op \notin {"trigger", "create"}
  <2> DEFINE q == [Idle EXCEPT !.op = "flush"]
  <2>1. UNCHANGED memory /\ call' = [call EXCEPT ![c] = q] /\ call[c].op = "flush"
    BY <1>1, <1>6, Known DEF Commit, DiskInv, StoreInv, CallShape, CallStates
  <2>2. q \in CallStates /\ q.pc = "idle" /\ q.s = None /\ q.op = "flush"
    BY DEF Idle, CallStates
  <2>3. s \in doubt
    BY <2>1, StoreAssumption DEF DiskInv, WriteAhead, Outside
  <2> HIDE DEF q
  <2> QED BY <1>1, <1>3, <2>1, <2>2, <2>3, EndOnDisk
<1> QED BY <1>4, <1>5, <1>6

LEMMA WriteFailsOnDisk ==
  ASSUME DiskInv, NEW c \in Calls, NEW s \in Sessions, s = call[c].s, WriteFails(c) PROVE DiskInv'
<1>1. /\ call' = [call EXCEPT ![c] = Idle] /\ Busy(c)
      /\ UNCHANGED <<up, sweep, disk, memory>> /\ doubt' = doubt \cup {s}
  BY DEF WriteFails, Busy
<1>2. StoreInv'
  BY WriteFailsKeeps DEF DiskInv
<1> QED BY <1>1, <1>2, IdleIsTyped, EndOnDisk

(* A trigger is granted the lock: the map and the disk are left alone.     *)
LEMMA DecideOnDisk ==
  ASSUME DiskInv, NEW c \in Calls, NEW s \in Sessions, s = call[c].s, NEW t \in Triggers, Decide(c, t)
  PROVE  DiskInv'
<1> USE DEF DiskInv
<1>1. /\ call[c].op = "trigger" /\ call[c].pc = "queued" /\ call[c] \in CallStates /\ up
      /\ c \in CallsOn(s)
  BY Known DEF Decide, CallsOn
<1>2. UNCHANGED <<up, sweep, disk, memory, doubt>>
  BY DEF Decide, history
<1>3. StoreInv'
  BY DecideKeeps
<1>4. PICK q \in CallStates :
        /\ call' = [call EXCEPT ![c] = q]
        /\ \/ q.pc = "idle" /\ q.op = "none" /\ q.s = None
           \/ q.pc \in {"unlink", "write"} /\ q.op = "trigger" /\ q.s = s
  <2>1. CASE call' = [call EXCEPT ![c] = Idle]
    BY <2>1, IdleIsTyped
  <2>2. CASE call' = [call EXCEPT ![c].pc = "unlink"]
    <3> DEFINE q == [call[c] EXCEPT !.pc = "unlink"]
    <3>1. q \in CallStates /\ q.pc = "unlink" /\ q.op = "trigger" /\ q.s = s
      BY <1>1 DEF CallStates
    <3> QED BY <2>2, <3>1
  <2>3. ASSUME NEW to \in Live,
               call' = [call EXCEPT ![c] = [@ EXCEPT !.pc = "write", !.rec = [status |-> to, at |-> now]]]
        PROVE  \E q \in CallStates : /\ call' = [call EXCEPT ![c] = q]
                                     /\ q.pc = "write" /\ q.op = "trigger" /\ q.s = s
    <3> DEFINE r == [status |-> to, at |-> now]
               q == [call[c] EXCEPT !.pc = "write", !.rec = r]
    <3>1. r \in Records
      BY DEF Records, StoreInv, TypeOK
    <3> HIDE DEF r
    <3>2. q \in CallStates /\ q.pc = "write" /\ q.op = "trigger" /\ q.s = s
      BY <1>1, <3>1 DEF CallStates
    <3> QED BY <2>3, <3>2 DEF r
  <2> QED BY <2>1, <2>2, <2>3 DEF Decide
<1>5. /\ OneCall(c, s) /\ call'[c] = q
      /\ \A d \in Calls \ {c} : call'[d] = call[d]
  <2>1. /\ q.s \in {s, None} /\ q.op # "flush"
        /\ q.pc = "idle" => q.s = None
    BY <1>4
  <2> HIDE DEF DiskInv
  <2> QED BY <1>2, <1>4, <2>1, StepFrame, ZenonT(40)
<1>6. ASSUME s \notin doubt PROVE FirstAlone(s)' /\ Settled(s)'
  <2>1. FirstAlone(s) /\ Settled(s)
    BY <1>1, <1>6 DEF WriteAhead
  <2>2. \A d \in CallsOn(s) \ {c} : d \in CallsOn(s)' /\ call'[d] = call[d]
    BY <1>5 DEF CallsOn
  <2>3. CallsOn(s)' \subseteq CallsOn(s) /\ call'[c].op # "create"
    BY <1>1, <1>4, <1>5 DEF CallsOn
  <2>4. FirstAlone(s)'
    <3> SUFFICES ASSUME NEW d \in CallsOn(s)', call'[d].op = "create" PROVE FALSE
      BY DEF FirstAlone
    <3>1. d \in CallsOn(s) /\ d # c /\ call[d].op = "create"
      BY <2>2, <2>3
    <3> QED BY <1>1, <2>1, <3>1 DEF FirstAlone
  <2>5. Settled(s)'
    <3> SUFFICES ASSUME ~Abandoned(s)'
                 PROVE  /\ (\A d \in CallsOn(s)' : ~Busy(d)') => memory'[s] = disk'[s]
                        /\ \A d \in CallsOn(s)' : HalfDone(d, s)'
      BY DEF Settled
    <3>1. ~Abandoned(s)
      BY <1>1, <2>2 DEF Abandoned
    <3>2. \A d \in CallsOn(s) \ {c} : (Busy(d)' <=> Busy(d)) /\ (HalfDone(d, s)' <=> HalfDone(d, s))
      BY <1>2, <2>2, Same
    <3>3. ~Busy(c) /\ HalfDone(c, s)'
      BY <1>1, <1>4, <1>5 DEF Busy, HalfDone
    <3>4. \A d \in CallsOn(s)' : HalfDone(d, s)'
      BY <2>1, <2>3, <3>1, <3>2, <3>3 DEF Settled
    <3>5. ASSUME \A d \in CallsOn(s)' : ~Busy(d)' PROVE \A d \in CallsOn(s) : ~Busy(d)
      BY <2>2, <3>2, <3>3, <3>5
    <3> QED BY <1>2, <2>1, <3>1, <3>4, <3>5 DEF Settled
  <2> QED BY <2>4, <2>5
<1> QED BY <1>1, <1>2, <1>3, <1>5, <1>6, OneCallKeeps

-----------------------------------------------------------------------------
(* Flush, sweep, death and restart.                                        *)
LEMMA FlushNextOnDisk ==
  ASSUME DiskInv, NEW c \in Calls, NEW s \in Sessions, FlushNext(c, s) PROVE DiskInv'
<1> USE DEF DiskInv
<1>1. /\ call[c].pc = "idle" /\ call[c].op = "flush" /\ memory[s] # None
      /\ UNCHANGED <<up, sweep, disk, memory>> /\ doubt' = doubt \cup {s}
  BY DEF FlushNext
<1>2. up /\ call[c].s = None
  BY <1>1, StoreAssumption DEF StoreInv, KnownIds, TypeOK, WriteAhead, Outside
<1>3. /\ call'[c].pc = "write" /\ call'[c].s = s /\ \A d \in Calls \ {c} : call'[d] = call[d]
  BY DEF FlushNext, StoreInv, TypeOK
<1>4. OneCall(c, s)
  BY <1>1, <1>2, <1>3 DEF OneCall
<1>5. StoreInv'
  BY FlushNextKeeps
<1> QED BY <1>1, <1>2, <1>4, <1>5, OneCallKeeps

(* Steps that change neither map nor disk nor what a call is about.        *)
LEMMA QuietOnDisk ==
  ASSUME DiskInv, StoreInv', UNCHANGED <<up, disk, doubt>>,
         \A s \in Sessions \ doubt : memory'[s] = memory[s],
         \A d \in Calls : call'[d] = call[d] \/ /\ call[d].s = None /\ call'[d].s = None,
         sweep'.cut \subseteq doubt, ~up => sweep' = NoSweep
  PROVE  DiskInv'
<1> USE DEF DiskInv
<1>1. Outside' /\ Swept'
  BY DEF WriteAhead, Outside, Swept
<1>2. ASSUME NEW s \in Sessions \ doubt, up PROVE FirstAlone(s)' /\ Settled(s)'
  <2>1. FirstAlone(s) /\ Settled(s)
    BY <1>2 DEF WriteAhead
  <2>2. CallsOn(s)' = CallsOn(s) /\ \A d \in CallsOn(s) : call'[d] = call[d]
    BY StoreAssumption DEF CallsOn
  <2>3. \A d \in CallsOn(s) : (Busy(d)' <=> Busy(d)) /\ (HalfDone(d, s)' <=> HalfDone(d, s))
    BY <2>2, Same
  <2>4. Abandoned(s)' <=> Abandoned(s)
    BY <2>2 DEF Abandoned
  <2>5. FirstAlone(s)'
    BY <2>1, <2>2 DEF FirstAlone
  <2>6. Settled(s)'
    BY <2>1, <2>2, <2>3, <2>4 DEF Settled
  <2> QED BY <2>5, <2>6
<1> QED BY <1>1, <1>2 DEF WriteAhead

LEMMA FlushBeginOnDisk == ASSUME DiskInv, NEW c \in Calls, FlushBegin(c) PROVE DiskInv'
<1> USE DEF DiskInv
<1>1. /\ UNCHANGED <<up, disk, memory, doubt, sweep>> /\ call[c] = Idle
      /\ call' = [call EXCEPT ![c] = [call[c] EXCEPT !.op = "flush"]]
  BY DEF FlushBegin, history
<1>2. call[c].s = None /\ call'[c].s = None /\ \A d \in Calls \ {c} : call'[d] = call[d]
  BY <1>1, IdleIsTyped DEF StoreInv, TypeOK, CallStates
<1>3. StoreInv'
  BY FlushBeginKeeps
<1> QED BY <1>1, <1>2, <1>3, QuietOnDisk DEF WriteAhead, Swept

LEMMA SweepOnDisk ==
  ASSUME DiskInv, NEW s \in Sessions, SweepUnlink(s) \/ SweepForget(s) PROVE DiskInv'
<1> USE DEF DiskInv
<1>1. CASE SweepUnlink(s)
  <2>1. StoreInv'
    BY <1>1, SweepUnlinkKeeps
  <2>2. /\ UNCHANGED <<up, memory>> /\ doubt' = doubt \cup {s}
        /\ \A t \in Sessions \ {s} : disk'[t] = disk[t]
        /\ sweep.pc \in {"first", "second"} /\ sweep'.cut = {s}
    BY <1>1 DEF SweepUnlink, StoreInv, TypeOK, SweepStates
  <2>3. \A d \in Calls : /\ call'[d].op = call[d].op /\ call'[d].s = call[d].s
                         /\ call'[d].pc = call[d].pc
                         /\ call[d].s # s => call'[d] = call[d]
    BY <1>1 DEF SweepUnlink, StoreInv, TypeOK, CallStates
  <2>4. up
    BY <2>2 DEF WriteAhead, Swept, NoSweep
  <2>5. Outside' /\ Swept'
    BY <2>2, <2>3, <2>4 DEF WriteAhead, Outside, Swept
  <2>6. ASSUME NEW t \in Sessions \ doubt' PROVE FirstAlone(t)' /\ Settled(t)'
    <3>1. t # s /\ FirstAlone(t) /\ Settled(t)
      BY <2>2, <2>4, <2>6 DEF WriteAhead
    <3>2. CallsOn(t)' = CallsOn(t) /\ \A d \in CallsOn(t) : call'[d] = call[d]
      BY <1>1, <3>1 DEF CallsOn, SweepUnlink, StoreInv, TypeOK, CallStates
    <3>3. \A d \in CallsOn(t) : (Busy(d)' <=> Busy(d)) /\ (HalfDone(d, t)' <=> HalfDone(d, t))
      BY <2>2, <3>1, <3>2, Same
    <3>4. Abandoned(t)' <=> Abandoned(t)
      BY <3>2 DEF Abandoned
    <3>5. FirstAlone(t)'
      BY <3>1, <3>2 DEF FirstAlone
    <3>6. Settled(t)'
      BY <2>2, <3>1, <3>2, <3>3, <3>4 DEF Settled
    <3> QED BY <3>5, <3>6
  <2> QED BY <2>1, <2>5, <2>6 DEF WriteAhead
<1>2. CASE SweepForget(s)
  <2>1. StoreInv'
    BY <1>2, SweepForgetKeeps
  <2>2. /\ s \in doubt /\ UNCHANGED <<up, disk, doubt, call>> /\ sweep'.cut = {} /\ up
        /\ \A t \in Sessions \ {s} : memory'[t] = memory[t]
    BY <1>2 DEF SweepForget, history, WriteAhead, Swept, StoreInv, TypeOK, NoSweep, SweepStates
  <2> QED BY <2>1, <2>2, QuietOnDisk
<1> QED BY <1>1, <1>2

LEMMA SweepBooksOnDisk ==
  ASSUME DiskInv,
         \/ SweepBegin \/ SweepListed \/ SweepCopy \/ SweepEnd \/ Tick
         \/ \E s \in Sessions : SweepRead(s)
         \/ UNCHANGED vars
  PROVE  DiskInv'
<1> USE DEF DiskInv
<1>1. StoreInv'
  BY SweepBookkeepingIsQuiet
<1>2. UNCHANGED <<up, disk, doubt, memory, call>>
  BY DEF SweepBegin, SweepListed, SweepCopy, SweepEnd, Tick, SweepRead, vars, history
<1>3. sweep'.cut \subseteq sweep.cut /\ (~up => sweep' = sweep)
  <2>1. CASE Tick \/ UNCHANGED vars
    BY <2>1 DEF Tick, vars
  <2>2. CASE SweepBegin
    BY <2>2 DEF SweepBegin, NoSweep
  <2>3. CASE SweepEnd
    BY <2>3 DEF SweepEnd, NoSweep, WriteAhead, Swept
  <2>4. ASSUME ~up, SweepListed \/ SweepCopy \/ \E s \in Sessions : SweepRead(s) PROVE FALSE
    <3>1. sweep.pc = "idle"
      BY <2>4 DEF WriteAhead, Swept, NoSweep
    <3> QED BY <2>4, <3>1 DEF SweepListed, SweepCopy, SweepRead
  <2>5. CASE SweepListed \/ SweepCopy \/ \E s \in Sessions : SweepRead(s)
    <3>1. sweep'.cut = sweep.cut
      BY <2>5 DEF SweepListed, SweepCopy, SweepRead, StoreInv, TypeOK, SweepStates
    <3> QED BY <2>4, <2>5, <3>1
  <2> QED BY <2>1, <2>2, <2>3, <2>5
<1> QED BY <1>1, <1>2, <1>3, QuietOnDisk DEF WriteAhead, Swept

LEMMA GoneOnDisk == ASSUME DiskInv, ProcessGone \/ Boot PROVE DiskInv'
<1> USE DEF DiskInv
<1>1. StoreInv'
  BY ProcessGoneKeeps, BootKeeps
<1>2. CASE ProcessGone
  BY <1>1, <1>2, IdleIsTyped DEF ProcessGone, WriteAhead, Outside, Swept, NoSweep
<1>3. CASE Boot
  <2>1. /\ \A c \in Calls : call'[c] = Idle
        /\ sweep' = NoSweep /\ memory' = disk'
    BY <1>3 DEF Boot, StoreInv, KnownIds, WriteAhead, Swept
  <2>2. \A s \in Sessions : CallsOn(s)' = {}
    BY <2>1, IdleIsTyped, StoreAssumption DEF CallsOn
  <2>3. \A s \in Sessions : FirstAlone(s)' /\ Settled(s)'
    BY <2>1, <2>2 DEF FirstAlone, Settled
  <2>4. Outside' /\ Swept'
    BY <1>3, <2>1, IdleIsTyped DEF Outside, Swept, NoSweep, Boot
  <2> QED BY <1>1, <2>3, <2>4 DEF WriteAhead
<1> QED BY <1>2, <1>3

(* Every step of the store keeps it.                                       *)
LEMMA DiskInductive ==
  /\ Init => DiskInv
  /\ DiskInv /\ [Next]_vars => DiskInv'
<1>1. ASSUME Init PROVE DiskInv
  <2>1. StoreInv
    BY <1>1, InitInv
  <2>2. Outside /\ Swept
    BY <1>1, IdleIsTyped DEF Init, Outside, Swept, NoSweep
  <2>3. \A s \in Sessions : FirstAlone(s) /\ Settled(s)
    <3>1. \A s \in Sessions : CallsOn(s) = {}
      BY <1>1, IdleIsTyped, StoreAssumption DEF Init, CallsOn
    <3> QED BY <1>1, <3>1 DEF Init, FirstAlone, Settled
  <2> QED BY <2>1, <2>2, <2>3 DEF DiskInv, WriteAhead
<1>2. ASSUME DiskInv, [Next]_vars PROVE DiskInv'
  <2>1. ASSUME NEW c \in Calls, CallStep(c) PROVE DiskInv'
    <3>1. ASSUME NEW s \in Sessions, Create(c, s) \/ ApplyTrigger(c, s) \/ Abandon(c, s) \/ FlushNext(c, s)
          PROVE  DiskInv'
      BY <1>2, <3>1, CreateOnDisk, ApplyTriggerOnDisk, AbandonOnDisk, FlushNextOnDisk
    <3>2. CASE FlushBegin(c) \/ FlushExit(c)
      BY <1>2, <3>2, FlushBeginOnDisk, GoneOnDisk DEF FlushExit
    <3>3. ASSUME \/ \E t \in Triggers : Decide(c, t)
                 \/ Unlink(c) \/ Remove(c) \/ OpenFile(c) \/ LandWrite(c) \/ Commit(c) \/ WriteFails(c)
          PROVE  DiskInv'
      <4>1. call[c].pc # "idle"
        BY <3>3 DEF Decide, Unlink, Remove, OpenFile, LandWrite, Commit, WriteFails
      <4>2. call[c].s \in Sessions
        BY <1>2, <4>1, Known DEF DiskInv
      <4> QED BY <1>2, <3>3, <4>2, DecideOnDisk, UnlinkOnDisk, RemoveOnDisk, OpenFileOnDisk,
                 LandWriteOnDisk, CommitOnDisk, WriteFailsOnDisk
    <3> QED BY <2>1, <3>1, <3>2, <3>3 DEF CallStep
  <2>2. ASSUME SweepStep PROVE DiskInv'
    BY <1>2, <2>2, SweepOnDisk, SweepBooksOnDisk DEF SweepStep
  <2>3. CASE Die \/ Boot
    BY <1>2, <2>3, GoneOnDisk DEF Die
  <2> QED BY <1>2, <2>1, <2>2, <2>3, SweepBooksOnDisk DEF Next
<1> QED BY <1>1, <1>2

(* While nothing is under way for a session and no write of it has failed  *)
(* or gone beside the lock, a death of the process loses nothing of it     *)
(* (session.store.ts:150-166: the write comes before the map).             *)
THEOREM MapOnDisk == Spec => []MapIsOnDisk
<1>1. Spec => []DiskInv
  BY DiskInductive, PTL DEF Spec
<1>2. DiskInv => MapIsOnDisk
  BY DEF DiskInv, WriteAhead, Settled, Abandoned, MapIsOnDisk
<1> QED BY <1>1, <1>2, PTL

-----------------------------------------------------------------------------
(* The sweep.  A session nobody has touched since it began has no call     *)
(* under way; the map still says of it what the listing reads on disk, and *)
(* what is to be removed has expired by the time the sweep goes by.        *)
Aged(s, at) == \/ memory[s] = None
               \/ memory[s].status = "dead" /\ at - memory[s].at >= TTL
Doomed(s) == /\ CallsOn(s) = {}
             /\ s \in sweep.doomed \cup sweep.cut => Aged(s, sweep.at)
             /\ sweep.pc = "list" => memory[s] = disk[s]
SweepTrue == /\ sweep.at <= now
             /\ sweep.cut # {} => sweep.pc \in {"first", "second"}
             /\ sweep.pc # "idle" => \A s \in Sessions \ touched : Doomed(s)

SweepInv == DiskInv /\ SweepTrue

(* A step that leaves the sweep alone, and the sessions nobody touched.    *)
LEMMA Untouched ==
  ASSUME SweepInv, UNCHANGED <<sweep, now>>, touched \subseteq touched',
         \A s \in Sessions \ touched' :
            CallsOn(s) = {} => CallsOn(s)' = {} /\ memory'[s] = memory[s] /\ disk'[s] = disk[s]
  PROVE  SweepTrue'
<1>1. ASSUME sweep.pc # "idle", NEW s \in Sessions \ touched' PROVE Doomed(s)'
  <2>1. Doomed(s)
    BY <1>1 DEF SweepInv, SweepTrue
  <2>2. CallsOn(s)' = {} /\ memory'[s] = memory[s] /\ disk'[s] = disk[s]
    BY <2>1 DEF Doomed
  <2> QED BY <2>1, <2>2 DEF Doomed, Aged
<1> QED BY <1>1 DEF SweepInv, SweepTrue

LEMMA CallsLeaveSweep ==
  ASSUME SweepInv, NEW c \in Calls, CallStep(c)
  PROVE  SweepTrue'
<1> USE DEF SweepInv, DiskInv
<1>1. ASSUME NEW s \in Sessions, Create(c, s) \/ ApplyTrigger(c, s) \/ Abandon(c, s) PROVE SweepTrue'
  <2>1. /\ UNCHANGED <<sweep, now, disk>> /\ touched' = touched \cup {s}
        /\ \A r \in Sessions \ {s} : memory'[r] = memory[r]
        /\ \A d \in Calls \ {c} : call'[d] = call[d]
        /\ call'[c].s = s
    BY <1>1 DEF Create, ApplyTrigger, Abandon, Begin, StoreInv, TypeOK
  <2>2. \A r \in Sessions \ touched' : CallsOn(r) = {} => CallsOn(r)' = {}
    BY <2>1 DEF CallsOn
  <2> QED BY <2>1, <2>2, Untouched
<1>2. ASSUME NEW s \in Sessions, FlushNext(c, s) PROVE SweepTrue'
  <2>1. /\ UNCHANGED <<sweep, now, disk, memory>> /\ touched' = touched \cup {s}
        /\ \A d \in Calls \ {c} : call'[d] = call[d]
        /\ call'[c].s = s
    BY <1>2 DEF FlushNext, StoreInv, TypeOK
  <2>2. \A r \in Sessions \ touched' : CallsOn(r) = {} => CallsOn(r)' = {}
    BY <2>1 DEF CallsOn
  <2> QED BY <2>1, <2>2, Untouched
<1>3. CASE FlushBegin(c)
  <2>1. /\ UNCHANGED <<sweep, now, disk, memory, touched>>
        /\ \A d \in Calls : call'[d].s = call[d].s
    BY <1>3, IdleIsTyped DEF FlushBegin, StoreInv, TypeOK, CallStates, history
  <2>2. \A r \in Sessions : CallsOn(r)' = CallsOn(r)
    BY <2>1 DEF CallsOn
  <2> QED BY <2>1, <2>2, Untouched
<1>4. CASE FlushExit(c)
  BY <1>4 DEF FlushExit, ProcessGone, SweepTrue, NoSweep, StoreInv, TypeOK
<1>5. ASSUME NEW s \in Sessions, s = call[c].s,
             \/ \E t \in Triggers : Decide(c, t)
             \/ Unlink(c) \/ Remove(c) \/ OpenFile(c) \/ LandWrite(c) \/ Commit(c) \/ WriteFails(c)
      PROVE  SweepTrue'
  <2>1. UNCHANGED <<sweep, now, touched>>
    BY <1>5 DEF Decide, Unlink, Remove, OpenFile, LandWrite, Commit, WriteFails, history
  <2>2. \A r \in Sessions \ {s} : memory'[r] = memory[r] /\ disk'[r] = disk[r]
    BY <1>5 DEF Decide, Unlink, Remove, OpenFile, LandWrite, Commit, WriteFails, StoreInv, TypeOK
  <2>3. \A d \in Calls : call'[d].s \in {call[d].s, None}
    <3>1. ASSUME NEW t \in Triggers, Decide(c, t) PROVE \A d \in Calls : call'[d].s \in {call[d].s, None}
      <4>1. CASE call' = [call EXCEPT ![c] = Idle]
        BY <4>1, IdleIsTyped DEF StoreInv, TypeOK
      <4>2. CASE call' = [call EXCEPT ![c].pc = "unlink"]
        BY <4>2 DEF StoreInv, TypeOK, CallStates
      <4>3. ASSUME NEW to \in Live,
                   call' = [call EXCEPT ![c] = [@ EXCEPT !.pc = "write", !.rec = [status |-> to, at |-> now]]]
            PROVE  \A d \in Calls : call'[d].s \in {call[d].s, None}
        BY <4>3 DEF StoreInv, TypeOK, CallStates
      <4> QED BY <3>1, <4>1, <4>2, <4>3 DEF Decide
    <3>2. CASE Unlink(c)
      BY <3>2, IdleIsTyped DEF Unlink, StoreInv, TypeOK, CallStates
    <3>3. CASE Remove(c) \/ WriteFails(c)
      BY <3>3, IdleIsTyped DEF Remove, WriteFails, StoreInv, TypeOK, CallStates
    <3>4. CASE OpenFile(c)
      BY <3>4 DEF OpenFile, StoreInv, TypeOK, CallStates
    <3>5. CASE LandWrite(c)
      BY <3>5 DEF LandWrite, StoreInv, TypeOK, CallStates
    <3>6. CASE Commit(c)
      BY <3>6, IdleIsTyped DEF Commit, StoreInv, TypeOK, CallStates, Idle
    <3> QED BY <1>5, <3>1, <3>2, <3>3, <3>4, <3>5, <3>6
  <2>4. \A r \in Sessions : CallsOn(r) = {} => CallsOn(r)' = {}
    BY <2>3, StoreAssumption DEF CallsOn
  <2>5. CallsOn(s) # {}
    BY <1>5 DEF CallsOn
  <2> QED BY <2>1, <2>2, <2>4, <2>5, Untouched
<1>6. CASE call[c].pc # "idle"
  <2>1. call[c].s \in Sessions
    BY <1>6, Known
  <2> QED BY <1>1, <1>2, <1>3, <1>4, <1>5, <2>1 DEF CallStep
<1>7. CASE call[c].pc = "idle"
  <2>1. ~ \/ \E t \in Triggers : Decide(c, t)
          \/ Unlink(c) \/ Remove(c) \/ OpenFile(c) \/ LandWrite(c) \/ Commit(c) \/ WriteFails(c)
    BY <1>7 DEF Decide, Unlink, Remove, OpenFile, LandWrite, Commit, WriteFails
  <2> QED BY <1>1, <1>2, <1>3, <1>4, <2>1 DEF CallStep
<1> QED BY <1>6, <1>7

LEMMA SweepsAreTrue ==
  ASSUME SweepInv, SweepStep
  PROVE  SweepTrue'
<1> USE DEF SweepInv, DiskInv
<1>1. CASE SweepBegin
  <2>1. /\ sweep'.pc = "list" /\ sweep'.at = now /\ sweep'.cut = {} /\ sweep'.doomed = {} /\ up
        /\ touched' = doubt \cup {s \in Sessions : CallsOn(s) # {}}
        /\ UNCHANGED <<memory, disk, call, now>>
    BY <1>1 DEF SweepBegin, NoSweep
  <2>2. ASSUME NEW s \in Sessions \ touched' PROVE Doomed(s)'
    <3>1. s \notin doubt /\ CallsOn(s) = {}
      BY <2>1
    <3>2. memory[s] = disk[s]
      BY <2>1, <3>1 DEF WriteAhead, Settled, Abandoned
    <3> QED BY <2>1, <3>1, <3>2 DEF Doomed, CallsOn
  <2> QED BY <2>1, <2>2 DEF SweepTrue, StoreInv, TypeOK
<1>2. CASE SweepListed
  <2>1. /\ sweep.pc = "list" /\ sweep'.pc = "first" /\ sweep'.at = sweep.at
        /\ sweep'.cut = sweep.cut /\ sweep'.doomed = sweep.doomed
        /\ UNCHANGED <<memory, disk, call, touched, now>>
    BY <1>2 DEF SweepListed, StoreInv, TypeOK, SweepStates, history
  <2> QED BY <2>1 DEF SweepTrue, Doomed, Aged, CallsOn
<1>3. CASE SweepCopy
  <2>1. /\ sweep.pc = "first" /\ sweep'.pc = "second" /\ sweep'.at = now /\ sweep'.cut = {}
        /\ sweep.cut = {}
        /\ sweep'.doomed = {s \in Sessions : RecordExpired(memory[s], now)}
        /\ UNCHANGED <<memory, disk, call, touched, now>>
    BY <1>3 DEF SweepCopy, StoreInv, TypeOK, SweepStates, history
  <2>2. ASSUME NEW s \in Sessions \ touched' PROVE Doomed(s)'
    BY <2>1 DEF SweepTrue, Doomed, Aged, CallsOn, RecordExpired
  <2> QED BY <2>1, <2>2 DEF SweepTrue, StoreInv, TypeOK
<1>4. CASE SweepEnd
  BY <1>4 DEF SweepEnd, SweepTrue, NoSweep, StoreInv, TypeOK
<1>5. ASSUME NEW s \in Sessions, SweepRead(s) PROVE SweepTrue'
  <2>1. /\ sweep.pc = "list" /\ sweep'.pc = "list" /\ sweep'.at = sweep.at /\ sweep'.cut = sweep.cut
        /\ sweep'.doomed \subseteq sweep.doomed \cup {s}
        /\ s \in sweep'.doomed => s \in sweep.doomed \/ BlobExpired(disk[s], sweep.at)
        /\ UNCHANGED <<memory, disk, call, touched, now>>
    BY <1>5 DEF SweepRead, StoreInv, TypeOK, SweepStates, history
  <2>2. ASSUME NEW r \in Sessions \ touched' PROVE Doomed(r)'
    <3>1. Doomed(r)
      BY <2>1 DEF SweepTrue
    <3>2. memory[r] \in Records \cup {None} /\ memory[r] # Torn
      BY StoreAssumption, IdleIsTyped DEF StoreInv, TypeOK
    <3>3. BlobExpired(disk[r], sweep.at) => Aged(r, sweep.at)
      <4>1. CASE memory[r] = None
        BY <4>1 DEF Aged
      <4>2. CASE memory[r] # None
        <5>1. memory[r].at \in Nat /\ sweep.at \in Nat /\ TTL \in Nat
          BY <3>2, <4>2, StoreAssumption DEF Records, StoreInv, TypeOK, SweepStates
        <5> QED BY <2>1, <3>1, <3>2, <4>2, <5>1 DEF Doomed, BlobExpired, Aged
      <4> QED BY <4>1, <4>2
    <3> QED BY <2>1, <3>1, <3>3 DEF Doomed, Aged, CallsOn
  <2> QED BY <2>1, <2>2 DEF SweepTrue
<1>6. ASSUME NEW s \in Sessions, SweepUnlink(s) PROVE SweepTrue'
  <2>1. /\ sweep.pc \in {"first", "second"} /\ sweep'.pc = sweep.pc /\ sweep'.at = sweep.at
        /\ sweep'.cut = {s} /\ s \in sweep.doomed /\ sweep'.doomed \subseteq sweep.doomed
        /\ UNCHANGED <<memory, touched, now>>
        /\ \A d \in Calls : call'[d].s = call[d].s
    BY <1>6 DEF SweepUnlink, StoreInv, TypeOK, SweepStates, CallStates
  <2>2. ASSUME NEW r \in Sessions \ touched' PROVE Doomed(r)'
    <3>1. Doomed(r)
      BY <2>1 DEF SweepTrue
    <3>2. CallsOn(r)' = CallsOn(r)
      BY <2>1 DEF CallsOn
    <3> QED BY <2>1, <3>1, <3>2 DEF Doomed, Aged
  <2> QED BY <2>1, <2>2 DEF SweepTrue
<1>7. ASSUME NEW s \in Sessions, SweepForget(s) PROVE SweepTrue'
  <2>1. /\ s \in sweep.cut /\ sweep'.pc = sweep.pc /\ sweep'.at = sweep.at
        /\ sweep'.cut = {} /\ sweep'.doomed = sweep.doomed
        /\ UNCHANGED <<disk, call, touched, now>>
        /\ memory'[s] = None /\ \A r \in Sessions \ {s} : memory'[r] = memory[r]
    BY <1>7 DEF SweepForget, StoreInv, TypeOK, SweepStates, history
  <2>2. ASSUME sweep.pc # "idle", NEW r \in Sessions \ touched' PROVE Doomed(r)'
    <3>1. Doomed(r) /\ sweep.pc # "list"
      BY <2>1, <2>2 DEF SweepTrue
    <3> QED BY <2>1, <3>1 DEF Doomed, Aged, CallsOn
  <2> QED BY <2>1, <2>2 DEF SweepTrue
<1> QED BY <1>1, <1>2, <1>3, <1>4, <1>5, <1>6, <1>7 DEF SweepStep

LEMMA SweepInductive ==
  /\ Init => SweepInv
  /\ SweepInv /\ [Next]_vars => SweepInv'
<1>1. Init => SweepInv
  BY DiskInductive DEF SweepInv, Init, SweepTrue, NoSweep
<1>2. ASSUME SweepInv, [Next]_vars PROVE SweepInv'
  <2>1. DiskInv'
    BY <1>2, DiskInductive DEF SweepInv
  <2> SUFFICES SweepTrue'
    BY <2>1 DEF SweepInv
  <2>2. CASE \E c \in Calls : CallStep(c)
    BY <1>2, <2>2, CallsLeaveSweep
  <2>3. CASE SweepStep
    BY <1>2, <2>3, SweepsAreTrue
  <2>4. CASE Die
    BY <1>2, <2>4 DEF Die, ProcessGone, SweepTrue, NoSweep, SweepInv, DiskInv, StoreInv, TypeOK
  <2>5. CASE Boot
    BY <1>2, <2>5 DEF Boot, SweepTrue, NoSweep, SweepInv, DiskInv, WriteAhead, Swept, StoreInv, TypeOK
  <2>6. CASE Tick
    <3>1. now \in Nat /\ sweep.at \in Nat
      BY <1>2 DEF SweepInv, DiskInv, StoreInv, TypeOK, SweepStates
    <3> QED BY <1>2, <2>6, <3>1 DEF Tick, SweepTrue, SweepInv, Doomed, Aged, CallsOn, history
  <2>7. CASE UNCHANGED vars
    BY <1>2, <2>7 DEF vars, SweepTrue, SweepInv, Doomed, Aged, CallsOn, history
  <2> QED BY <1>2, <2>1, <2>2, <2>3, <2>4, <2>5, <2>6, <2>7 DEF Next, SweepInv
<1> QED BY <1>1, <1>2

(* The sweep takes a record out of the map only if it is dead and past its *)
(* TTL, unless a store call ran for the session meanwhile or its blob was  *)
(* in doubt before (session.store.ts:94-116).                              *)
THEOREM SweepSpares == Spec => SweepTakesOnlyExpired
<1>1. ASSUME SweepInv, NEW s \in sweep.cut, memory[s] # None, s \notin touched
      PROVE  memory[s].status = "dead" /\ now - memory[s].at >= TTL
  <2>1. s \in Sessions /\ now \in Nat /\ sweep.at \in Nat /\ TTL \in Nat /\ memory[s].at \in Nat
    BY <1>1, StoreAssumption DEF SweepInv, DiskInv, StoreInv, TypeOK, SweepStates, Records
  <2>2. sweep.pc # "idle" /\ sweep.at <= now
    BY <1>1 DEF SweepInv, SweepTrue
  <2>3. Aged(s, sweep.at)
    BY <1>1, <2>1, <2>2 DEF SweepInv, SweepTrue, Doomed
  <2> QED BY <1>1, <2>1, <2>2, <2>3 DEF Aged
<1>2. SweepInv => [\A s \in sweep.cut :
         (s \notin sweep'.cut /\ up' /\ memory[s] # None /\ s \notin touched)
           => memory[s].status = "dead" /\ now - memory[s].at >= TTL]_vars
  BY <1>1
<1> QED BY <1>2, SweepInductive, PTL DEF Spec, SweepTakesOnlyExpired

-----------------------------------------------------------------------------
(* The store implements SessionLifecycle.  A session's decision is that of *)
(* the one call that has the lock and has judged its record.               *)
Decided(s) ==
  /\ (\A c \in CallsOn(s) : ~Deciding(c)) => decidedOf[s] = "none"
  /\ \A c \in CallsOn(s) :
       Deciding(c) => decidedOf[s] = OutcomeOf(c) /\ OutcomeOf(c) \in Live \cup {"gone"}
DecidedIs == \A s \in Sessions : Decided(s)

LEMMA Decisions == StoreInv => DecidedIs
<1> SUFFICES ASSUME StoreInv, NEW s \in Sessions PROVE Decided(s)
  BY DEF DecidedIs
<1>1. ASSUME \A c \in CallsOn(s) : ~Deciding(c) PROVE decidedOf[s] = "none"
  BY <1>1 DEF decidedOf
<1>2. ASSUME NEW c \in CallsOn(s), Deciding(c)
      PROVE  decidedOf[s] = OutcomeOf(c) /\ OutcomeOf(c) \in Live \cup {"gone"}
  <2>1. \A d \in CallsOn(s) : Deciding(d) => d = c
    BY <1>2, OneDecides DEF CallsOn
  <2>2. c = CHOOSE d \in CallsOn(s) : Deciding(d)
    BY <1>2, <2>1
  <2>3. decidedOf[s] = OutcomeOf(c)
    BY <1>2, <2>2 DEF decidedOf
  <2>4. call[c] \in CallStates /\ call[c].pc \in {"unlink", "remove", "write", "open", "landed"}
    BY <1>2 DEF CallsOn, Deciding, StoreInv, TypeOK, CallStates
  <2>5. OutcomeOf(c) \in Live \cup {"gone"}
    BY <1>2, <2>4 DEF OutcomeOf, StoreInv, CallShape, CallsOn, Records
  <2> QED BY <2>3, <2>5
<1> QED BY <1>1, <1>2 DEF Decided

LEMMA DecisionsNext == StoreInv' => DecidedIs'
BY Decisions, PTL

OneMind == \A c, d \in Calls : Deciding(c) /\ Deciding(d) /\ call[c].s = call[d].s => c = d
LEMMA OneMindHere == StoreInv => OneMind
BY OneDecides DEF OneMind
LEMMA OneMindNext == StoreInv' => OneMind'
BY OneMindHere, PTL

(* A call whose decision is as it was.                                     *)
SameMind(d) == /\ Deciding(d)' <=> Deciding(d)
               /\ Deciding(d) => call'[d].s = call[d].s /\ OutcomeOf(d)' = OutcomeOf(d)

LEMMA Unmoved == ASSUME NEW d, call'[d] = call[d] PROVE SameMind(d)
BY DEF SameMind, Deciding, OutcomeOf

(* What a step that is about one session leaves of the others.             *)
LEMMA OthersStay ==
  ASSUME StoreInv, StoreInv', NEW t \in Sessions,
         memory'[t] = memory[t], t \in used' <=> t \in used,
         \A d \in Calls : SameMind(d) \/ /\ call[d].s # t \/ ~Deciding(d)
                                         /\ call'[d].s # t \/ ~Deciding(d)'
  PROVE  lifeOf'[t] = lifeOf[t] /\ decidedOf'[t] = decidedOf[t]
<1>1. lifeOf'[t] = lifeOf[t]
  BY DEF lifeOf
<1>2. Decided(t) /\ Decided(t)'
  BY Decisions, DecisionsNext DEF DecidedIs
<1>3. CASE \E c \in CallsOn(t) : Deciding(c)
  <2>1. PICK c \in CallsOn(t) : Deciding(c)
    BY <1>3
  <2>2. c \in CallsOn(t)' /\ Deciding(c)' /\ OutcomeOf(c)' = OutcomeOf(c)
    BY <2>1 DEF CallsOn, SameMind
  <2> QED BY <1>1, <1>2, <2>1, <2>2 DEF Decided
<1>4. CASE \A c \in CallsOn(t) : ~Deciding(c)
  <2>1. \A c \in CallsOn(t)' : ~Deciding(c)'
    BY <1>4 DEF CallsOn, SameMind
  <2> QED BY <1>1, <1>2, <1>4, <2>1 DEF Decided
<1> QED BY <1>3, <1>4

LEMMA Invisible ==
  ASSUME StoreInv, StoreInv', UNCHANGED <<memory, used>>, \A d \in Calls : SameMind(d)
  PROVE  UNCHANGED <<lifeOf, decidedOf>>
<1>1. \A t \in Sessions : lifeOf'[t] = lifeOf[t] /\ decidedOf'[t] = decidedOf[t]
  BY OthersStay
<1> QED BY <1>1 DEF lifeOf, decidedOf

LEMMA AboutOne ==
  ASSUME StoreInv, StoreInv', NEW c \in Calls, NEW s \in Sessions,
         \A t \in Sessions \ {s} : memory'[t] = memory[t] /\ (t \in used' <=> t \in used),
         \A d \in Calls \ {c} : SameMind(d),
         call[c].s = s \/ ~Deciding(c), call'[c].s = s \/ ~Deciding(c)'
  PROVE  /\ lifeOf' = [lifeOf EXCEPT ![s] = lifeOf'[s]]
         /\ decidedOf' = [decidedOf EXCEPT ![s] = decidedOf'[s]]
<1>1. \A t \in Sessions \ {s} : lifeOf'[t] = lifeOf[t] /\ decidedOf'[t] = decidedOf[t]
  BY OthersStay
<1> QED BY <1>1, ZenonT(40) DEF lifeOf, decidedOf

LEMMA CreateRefines ==
  ASSUME StoreInv, StoreInv', NEW c \in Calls, NEW s \in Sessions, Create(c, s)
  PROVE  Lifecycle!Next
<1>1. /\ s \notin used /\ used' = used \cup {s} /\ memory' = [memory EXCEPT ![s] = [status |-> "active", at |-> now]]
      /\ \A d \in Calls \ {c} : call'[d] = call[d]
      /\ call[c] = Idle /\ call'[c].op = "create"
  BY DEF Create, Begin, StoreInv, TypeOK
<1>2. ~Deciding(c) /\ ~Deciding(c)' /\ \A d \in Calls : SameMind(d)
  BY <1>1, IdleIsTyped, Unmoved DEF Deciding, SameMind
<1>3. \A t \in Sessions \ {s} : memory'[t] = memory[t] /\ (t \in used' <=> t \in used)
  BY <1>1 DEF StoreInv, TypeOK
<1>4. lifeOf[s] = "unborn" /\ lifeOf'[s] = "active"
  <2>1. memory[s] = None /\ memory'[s] = [status |-> "active", at |-> now] /\ now \in Nat
    BY <1>1 DEF StoreInv, KnownIds, TypeOK
  <2>2. memory'[s] \in Records
    BY <2>1 DEF Records, Live
  <2> QED BY <1>1, <2>1, <2>2, StoreAssumption DEF lifeOf
<1>5. lifeOf' = [lifeOf EXCEPT ![s] = "active"]
  BY <1>2, <1>3, <1>4, AboutOne
<1>6. decidedOf' = decidedOf
  <2>1. Decided(s) /\ Decided(s)'
    BY Decisions, DecisionsNext DEF DecidedIs
  <2>2. \A d \in CallsOn(s) : ~Deciding(d)
    BY <1>1 DEF CallsOn, Deciding, StoreInv, CallShape
  <2>3. \A d \in CallsOn(s)' : ~Deciding(d)'
    BY <1>2, <2>2 DEF CallsOn, SameMind
  <2>4. decidedOf'[s] = decidedOf[s]
    BY <2>1, <2>2, <2>3 DEF Decided
  <2>5. \A t \in Sessions : decidedOf'[t] = decidedOf[t]
    BY <1>2, <1>3, <2>4, OthersStay
  <2> QED BY <2>5 DEF decidedOf
<1> QED BY <1>4, <1>5, <1>6 DEF Lifecycle!Next, Lifecycle!BeBorn

(* A session goes out of the map, by abandon or by the sweep.              *)
LEMMA LeavesMap ==
  ASSUME StoreInv, StoreInv', NEW s \in Sessions, memory' = [memory EXCEPT ![s] = None],
         UNCHANGED used, \A d \in Calls : SameMind(d)
  PROVE  [Lifecycle!Next]_<<lifeOf, decidedOf>>
<1>1. CASE memory[s] = None
  <2>1. memory' = memory
    BY <1>1 DEF StoreInv, TypeOK
  <2> QED BY <2>1, Invisible
<1>2. CASE memory[s] # None
  <2>1. /\ memory'[s] = None /\ \A t \in Sessions \ {s} : memory'[t] = memory[t]
        /\ s \in used /\ memory[s].status \in Live
    BY <1>2 DEF StoreInv, TypeOK, KnownIds, Records
  <2>2. lifeOf[s] \in Live /\ \A t \in Sessions : lifeOf'[t] = IF t = s THEN "gone" ELSE lifeOf[t]
    BY <1>2, <2>1 DEF lifeOf
  <2>3. lifeOf' = [lifeOf EXCEPT ![s] = "gone"]
    BY <2>2 DEF lifeOf
  <2>4. decidedOf'[s] = decidedOf[s]
    <3>1. Decided(s) /\ Decided(s)'
      BY Decisions, DecisionsNext DEF DecidedIs
    <3>2. \A d \in CallsOn(s) : Deciding(d) => d \in CallsOn(s)' /\ Deciding(d)' /\ OutcomeOf(d)' = OutcomeOf(d)
      BY DEF CallsOn, SameMind
    <3>3. \A d \in CallsOn(s)' : Deciding(d)' => d \in CallsOn(s) /\ Deciding(d)
      BY DEF CallsOn, SameMind
    <3> QED BY <3>1, <3>2, <3>3 DEF Decided
  <2>5. \A t \in Sessions : decidedOf'[t] = decidedOf[t]
    BY <2>1, <2>4, OthersStay
  <2>6. decidedOf' = decidedOf
    BY <2>5 DEF decidedOf
  <2> QED BY <2>2, <2>3, <2>6 DEF Lifecycle!Next, Lifecycle!Drop, Lifecycle!Living, Live
<1> QED BY <1>1, <1>2

LEMMA AbandonRefines ==
  ASSUME StoreInv, StoreInv', NEW c \in Calls, NEW s \in Sessions, Abandon(c, s)
  PROVE  [Lifecycle!Next]_<<lifeOf, decidedOf>>
<1>1. /\ memory' = [memory EXCEPT ![s] = None] /\ UNCHANGED used
      /\ \A d \in Calls \ {c} : call'[d] = call[d]
      /\ call[c] = Idle /\ call'[c].op = "abandon"
  BY DEF Abandon, Begin, StoreInv, TypeOK
<1>2. \A d \in Calls : SameMind(d)
  BY <1>1, IdleIsTyped, Unmoved DEF Deciding, SameMind
<1> QED BY <1>1, <1>2, LeavesMap

(* A trigger judges the record: nothing, the closing, or a live status.    *)
LEMMA DecideRefines ==
  ASSUME StoreInv, StoreInv', NEW c \in Calls, NEW s \in Sessions, s = call[c].s,
         NEW t \in Triggers, Decide(c, t)
  PROVE  [Lifecycle!Next]_<<lifeOf, decidedOf>>
<1>1. /\ UNCHANGED <<memory, used>> /\ call[c].op = "trigger" /\ call[c].pc = "queued"
      /\ ~Deciding(c)
  BY DEF Decide, Deciding
<1>2. CASE call' = [call EXCEPT ![c] = Idle]
  <2>1. ~Deciding(c)' /\ \A d \in Calls \ {c} : call'[d] = call[d]
    BY <1>2, IdleIsTyped DEF Deciding, StoreInv, TypeOK
  <2> QED BY <1>1, <2>1, Unmoved, Invisible DEF SameMind
<1>3. ASSUME NEW to \in Live \cup Final, <<memory[s].status, t, to>> \in Edges, memory[s] # None,
             NEW q \in CallStates, call' = [call EXCEPT ![c] = q], q.op = "trigger", q.s = s,
             \/ to \in Final /\ q.pc = "unlink"
             \/ to \in Live /\ q.pc = "write" /\ q.rec.status = to
      PROVE  Lifecycle!Next
  <2> DEFINE out == IF to \in Final THEN "gone" ELSE to
  <2>1. call'[c] = q /\ \A d \in Calls \ {c} : call'[d] = call[d]
    BY <1>3 DEF StoreInv, TypeOK
  <2>2. Deciding(c)' /\ c \in CallsOn(s)' /\ OutcomeOf(c)' = out
    BY <1>3, <2>1 DEF Deciding, OutcomeOf, CallsOn, Live, Final
  <2>3. decidedOf'[s] = out
    BY <2>2, DecisionsNext DEF DecidedIs, Decided
  <2>4. decidedOf[s] = "none"
    <3>1. ASSUME NEW d \in CallsOn(s), Deciding(d) PROVE FALSE
      <4>1. d # c /\ d \in Calls /\ call'[d] = call[d]
        BY <1>1, <2>1, <3>1 DEF CallsOn
      <4>2. Deciding(d)' /\ call'[d].s = call'[c].s
        BY <1>3, <2>1, <3>1, <4>1 DEF Deciding, CallsOn
      <4> QED BY <2>2, <4>1, <4>2, OneMindNext DEF OneMind
    <3> QED BY <3>1, Decisions DEF DecidedIs, Decided
  <2>5. memory[s].status \in Live /\ lifeOf[s] = memory[s].status
    BY <1>3 DEF lifeOf, StoreInv, TypeOK, Records
  <2>6. out \in Lifecycle!Moves[lifeOf[s]]
    BY <1>3, <2>5 DEF Lifecycle!Moves, Edges, Triggers, Live, Final
  <2>7. /\ decidedOf' = [decidedOf EXCEPT ![s] = out]
        /\ lifeOf' = lifeOf
    <3>1. \A d \in Calls \ {c} : SameMind(d)
      BY <2>1, Unmoved
    <3>2. decidedOf' = [decidedOf EXCEPT ![s] = decidedOf'[s]]
      BY <1>1, <1>3, <2>1, <3>1, AboutOne
    <3> QED BY <1>1, <2>3, <3>2 DEF lifeOf
  <2> QED BY <2>4, <2>5, <2>6, <2>7 DEF Lifecycle!Next, Lifecycle!Decide, Lifecycle!Living, Live
<1>4. call[c] \in CallStates
  BY DEF StoreInv, TypeOK
<1>5. CASE call' = [call EXCEPT ![c].pc = "unlink"]
  <2> DEFINE q == [call[c] EXCEPT !.pc = "unlink"]
  <2>1. q \in CallStates /\ q.pc = "unlink" /\ q.op = "trigger" /\ q.s = s
    BY <1>1, <1>4 DEF CallStates
  <2>2. call' = [call EXCEPT ![c] = q]
    BY <1>5
  <2>3. call' # [call EXCEPT ![c] = Idle]
    BY <2>1, <2>2, IdleIsTyped DEF StoreInv, TypeOK
  <2>4. ASSUME NEW to \in Live, call' = [call EXCEPT ![c] = [@ EXCEPT !.pc = "write", !.rec = [status |-> to, at |-> now]]]
        PROVE  FALSE
    <3>1. call'[c].pc = "unlink"
      BY <2>1, <2>2 DEF StoreInv, TypeOK
    <3>2. call'[c].pc = "write"
      BY <1>4, <2>4 DEF StoreInv, TypeOK, CallStates
    <3> QED BY <3>1, <3>2
  <2>5. PICK to \in Final : memory[s] # None /\ <<memory[s].status, t, to>> \in Edges
    BY <2>3, <2>4 DEF Decide
  <2> HIDE DEF q
  <2> QED BY <1>3, <2>1, <2>2, <2>5
<1>6. ASSUME NEW to \in Live, memory[s] # None, <<memory[s].status, t, to>> \in Edges,
             call' = [call EXCEPT ![c] = [@ EXCEPT !.pc = "write", !.rec = [status |-> to, at |-> now]]]
      PROVE  Lifecycle!Next
  <2> DEFINE r == [status |-> to, at |-> now]
             q == [call[c] EXCEPT !.pc = "write", !.rec = r]
  <2>1. r \in Records /\ r.status = to
    BY DEF Records, StoreInv, TypeOK
  <2>2. call' = [call EXCEPT ![c] = q]
    BY <1>6
  <2> HIDE DEF r
  <2>3. q \in CallStates /\ q.pc = "write" /\ q.op = "trigger" /\ q.s = s /\ q.rec = r
    BY <1>1, <1>4, <2>1 DEF CallStates
  <2> HIDE DEF q
  <2> QED BY <1>3, <1>6, <2>1, <2>2, <2>3
<1> QED BY <1>2, <1>5, <1>6 DEF Decide

(* The blob is unlinked, opened, written: nothing a caller sees.           *)
LEMMA DiskWorkRefines ==
  ASSUME StoreInv, StoreInv', NEW c \in Calls, Unlink(c) \/ OpenFile(c) \/ LandWrite(c)
  PROVE  UNCHANGED <<lifeOf, decidedOf>>
<1>1. UNCHANGED <<memory, used>>
  BY DEF Unlink, OpenFile, LandWrite
<1>2. CASE Unlink(c)
  <2>1. ASSUME NEW d \in Calls PROVE SameMind(d)
    <3>1. call[d] \in CallStates /\ call[c] \in CallStates
      BY DEF StoreInv, TypeOK
    <3>2. CASE d # c
      <4>1. /\ call'[d].op = call[d].op /\ call'[d].s = call[d].s /\ call'[d].pc = call[d].pc
            /\ call'[d].rec = call[d].rec
        BY <1>2, <3>1, <3>2 DEF Unlink, CallStates
      <4> QED BY <4>1 DEF SameMind, Deciding, OutcomeOf
    <3>3. CASE d = c /\ call[c].op = "abandon"
      <4>1. call'[c] = Idle
        BY <1>2, <3>3 DEF Unlink
      <4> QED BY <3>3, <4>1, IdleIsTyped DEF SameMind, Deciding
    <3>4. CASE d = c /\ call[c].op # "abandon"
      <4>1. call[c].pc = "unlink" /\ call'[c] = [call[c] EXCEPT !.pc = "remove"]
        BY <1>2, <3>4 DEF Unlink
      <4>2. /\ call'[c].pc = "remove" /\ call'[c].op = call[c].op /\ call'[c].s = call[c].s
        BY <3>1, <4>1 DEF CallStates
      <4> QED BY <3>4, <4>1, <4>2 DEF SameMind, Deciding, OutcomeOf
    <3> QED BY <3>2, <3>3, <3>4
  <2> QED BY <1>1, <2>1, Invisible
<1>3. CASE OpenFile(c) \/ LandWrite(c)
  <2>1. ASSUME NEW d \in Calls PROVE SameMind(d)
    <3>1. call[d] \in CallStates
      BY DEF StoreInv, TypeOK
    <3>2. CASE d # c
      BY <1>3, <3>2, Unmoved DEF OpenFile, LandWrite, StoreInv, TypeOK
    <3>3. CASE d = c
      <4>1. /\ call[c].pc \in {"write", "open"} /\ call'[c].pc \in {"open", "landed"}
            /\ call'[c].op = call[c].op /\ call'[c].s = call[c].s /\ call'[c].rec = call[c].rec
        <5>1. CASE OpenFile(c)
          BY <5>1, <3>1, <3>3 DEF OpenFile, StoreInv, TypeOK, CallStates
        <5>2. CASE LandWrite(c)
          BY <5>2, <3>1, <3>3 DEF LandWrite, StoreInv, TypeOK, CallStates
        <5> QED BY <1>3, <5>1, <5>2
      <4> QED BY <3>3, <4>1 DEF SameMind, Deciding, OutcomeOf
    <3> QED BY <3>2, <3>3
  <2> QED BY <1>1, <2>1, Invisible
<1> QED BY <1>2, <1>3

(* A decided call ends: nobody else has decided anything of its session.   *)
LEMMA EndsDecision ==
  ASSUME StoreInv, StoreInv', NEW c \in Calls, NEW s \in Sessions, s = call[c].s, Deciding(c),
         NEW q \in CallStates, q.op # "trigger", call' = [call EXCEPT ![c] = q], UNCHANGED used,
         \A t \in Sessions \ {s} : memory'[t] = memory[t]
  PROVE  /\ decidedOf[s] = OutcomeOf(c) /\ OutcomeOf(c) # "none"
         /\ decidedOf' = [decidedOf EXCEPT ![s] = "none"]
         /\ lifeOf' = [lifeOf EXCEPT ![s] = lifeOf'[s]]
         /\ s \in used /\ up
<1>1. call'[c] = q /\ ~Deciding(c)' /\ \A d \in Calls \ {c} : call'[d] = call[d]
  BY DEF StoreInv, TypeOK, Deciding
<1>2. c \in CallsOn(s) /\ Decided(s) /\ Decided(s)'
  BY Decisions, DecisionsNext DEF DecidedIs, CallsOn
<1>3. decidedOf[s] = OutcomeOf(c) /\ OutcomeOf(c) # "none"
  BY <1>2 DEF Decided, Live
<1>4. ASSUME NEW d \in CallsOn(s)', Deciding(d)' PROVE FALSE
  <2>1. d \in Calls /\ d # c /\ call'[d] = call[d] /\ call'[d].s = s
    BY <1>1, <1>4 DEF CallsOn
  <2>2. Deciding(d) /\ call[d].s = s
    BY <1>4, <2>1 DEF Deciding
  <2> QED BY <2>1, <2>2, OneDecides
<1>5. decidedOf'[s] = "none"
  BY <1>2, <1>4 DEF Decided
<1>6. \A d \in Calls \ {c} : SameMind(d)
  BY <1>1, Unmoved
<1>7. s \in used /\ up
  BY StoreAssumption, IdleIsTyped DEF StoreInv, CallShape, KnownIds, Deciding, TypeOK
<1> QED BY <1>1, <1>3, <1>5, <1>6, <1>7, AboutOne

LEMMA RemoveRefines ==
  ASSUME StoreInv, StoreInv', NEW c \in Calls, NEW s \in Sessions, s = call[c].s, Remove(c)
  PROVE  Lifecycle!Next
<1>1. /\ Deciding(c) /\ call[c].pc = "remove" /\ call' = [call EXCEPT ![c] = Idle] /\ UNCHANGED used
      /\ memory'[s] = None /\ \A t \in Sessions \ {s} : memory'[t] = memory[t]
  BY DEF Remove, Deciding, StoreInv, CallShape, TypeOK, CallStates
<1>2. /\ decidedOf[s] = OutcomeOf(c) /\ OutcomeOf(c) # "none"
      /\ decidedOf' = [decidedOf EXCEPT ![s] = "none"]
      /\ lifeOf' = [lifeOf EXCEPT ![s] = lifeOf'[s]]
      /\ s \in used
  BY <1>1, IdleIsTyped, EndsDecision
<1>3. lifeOf'[s] = "gone" /\ OutcomeOf(c) = "gone"
  BY <1>1, <1>2 DEF lifeOf, OutcomeOf
<1>4. Lifecycle!Land(s)
  BY <1>2, <1>3 DEF Lifecycle!Land
<1> QED BY <1>4 DEF Lifecycle!Next

LEMMA CommitRefines ==
  ASSUME StoreInv, StoreInv', NEW c \in Calls, NEW s \in Sessions, s = call[c].s, Commit(c)
  PROVE  [Lifecycle!Next]_<<lifeOf, decidedOf>>
<1>1. UNCHANGED used /\ call[c].pc = "landed"
  BY DEF Commit
<1>2. CASE call[c].op = "trigger"
  <2>1. /\ Deciding(c) /\ call' = [call EXCEPT ![c] = Idle]
        /\ memory'[s] = call[c].rec /\ \A t \in Sessions \ {s} : memory'[t] = memory[t]
    BY <1>1, <1>2 DEF Commit, Deciding, StoreInv, TypeOK
  <2>2. /\ decidedOf[s] = OutcomeOf(c) /\ OutcomeOf(c) # "none"
        /\ decidedOf' = [decidedOf EXCEPT ![s] = "none"]
        /\ lifeOf' = [lifeOf EXCEPT ![s] = lifeOf'[s]]
    BY <1>1, <2>1, IdleIsTyped, EndsDecision
  <2>3. call[c].rec \in Records /\ call[c].rec # None
    BY <1>1, StoreAssumption DEF StoreInv, CallShape
  <2>4. lifeOf'[s] = OutcomeOf(c)
    BY <1>1, <2>1, <2>3 DEF lifeOf, OutcomeOf
  <2> QED BY <2>2, <2>4 DEF Lifecycle!Next, Lifecycle!Land
<1>3. CASE call[c].op # "trigger"
  <2>1. PICK q \in {Idle, [Idle EXCEPT !.op = "flush"]} : call' = [call EXCEPT ![c] = q]
    BY <1>3 DEF Commit
  <2>2. q.op # "trigger"
    BY <2>1 DEF Idle
  <2>3. ~Deciding(c)' /\ ~Deciding(c) /\ \A d \in Calls \ {c} : call'[d] = call[d]
    BY <1>3, <2>1, <2>2 DEF Deciding, StoreInv, TypeOK
  <2>4. UNCHANGED memory
    BY <1>3 DEF Commit
  <2> QED BY <1>1, <2>3, <2>4, Unmoved, Invisible DEF SameMind
<1> QED BY <1>2, <1>3

LEMMA WriteFailsRefines ==
  ASSUME StoreInv, StoreInv', NEW c \in Calls, NEW s \in Sessions, s = call[c].s, WriteFails(c)
  PROVE  [Lifecycle!Next]_<<lifeOf, decidedOf>>
<1>1. /\ UNCHANGED <<memory, used>> /\ call' = [call EXCEPT ![c] = Idle]
      /\ call[c].pc \in {"write", "open"}
  BY DEF WriteFails
<1>2. CASE Deciding(c)
  <2>1. /\ decidedOf[s] = OutcomeOf(c) /\ OutcomeOf(c) # "none"
        /\ decidedOf' = [decidedOf EXCEPT ![s] = "none"]
    BY <1>1, <1>2, IdleIsTyped, EndsDecision
  <2>2. lifeOf' = lifeOf
    BY <1>1 DEF lifeOf
  <2> QED BY <2>1, <2>2 DEF Lifecycle!Next, Lifecycle!GiveUp
<1>3. CASE ~Deciding(c)
  <2>1. ~Deciding(c)' /\ \A d \in Calls \ {c} : call'[d] = call[d]
    BY <1>1, IdleIsTyped DEF Deciding, StoreInv, TypeOK
  <2> QED BY <1>1, <1>3, <2>1, Unmoved, Invisible DEF SameMind
<1> QED BY <1>2, <1>3

(* The process goes, and comes back.                                       *)
LEMMA GoneRefines ==
  ASSUME StoreInv, StoreInv', ProcessGone
  PROVE  Lifecycle!Next
<1>1. ASSUME NEW s \in Sessions PROVE lifeOf'[s] = IF lifeOf[s] = "unborn" THEN "unborn" ELSE "gone"
  BY DEF ProcessGone, lifeOf, StoreInv, KnownIds, TypeOK, Records, Live
<1>2. ASSUME NEW s \in Sessions PROVE decidedOf'[s] = "none"
  <2>1. \A c \in CallsOn(s)' : ~Deciding(c)'
    BY IdleIsTyped DEF ProcessGone, CallsOn, Deciding
  <2> QED BY <2>1, DecisionsNext DEF DecidedIs, Decided
<1>3. lifeOf' = [s \in Sessions |-> IF lifeOf[s] = "unborn" THEN "unborn" ELSE "gone"]
  BY <1>1 DEF lifeOf
<1>4. decidedOf' = [s \in Sessions |-> "none"]
  BY <1>2 DEF decidedOf
<1> QED BY <1>3, <1>4 DEF Lifecycle!Next, Lifecycle!Stop

LEMMA BootRefines ==
  ASSUME StoreInv, StoreInv', Boot
  PROVE  Lifecycle!Next
<1>1. \A s \in Sessions : CallsOn(s) = {} /\ CallsOn(s)' = {}
  BY IdleIsTyped, StoreAssumption DEF Boot, CallsOn, StoreInv, KnownIds
<1>2. \A s \in Sessions : decidedOf[s] = "none" /\ decidedOf'[s] = "none"
  BY <1>1 DEF decidedOf
<1>3. decidedOf = [s \in Sessions |-> "none"] /\ decidedOf' = decidedOf
  BY <1>2 DEF decidedOf
<1>4. UNCHANGED used /\ \A s \in Sessions : memory[s] = None
  BY DEF Boot, StoreInv, KnownIds
<1>5. \A s \in Sessions : lifeOf[s] = IF s \in used THEN "gone" ELSE "unborn"
  BY <1>4 DEF lifeOf
<1>6. ASSUME NEW s \in Sessions
      PROVE  /\ lifeOf'[s] \in Live \cup {"unborn", "gone"}
             /\ lifeOf'[s] = "unborn" <=> s \notin used
  BY <1>4 DEF lifeOf, StoreInv, KnownIds, TypeOK, Records, Live
<1>7. lifeOf' \in [Sessions -> Live \cup {"unborn", "gone"}]
  BY <1>6 DEF lifeOf
<1> QED BY <1>3, <1>5, <1>6, <1>7 DEF Lifecycle!Next, Lifecycle!Restart, Lifecycle!Living, Live

LEMMA StepRefines ==
  ASSUME StoreInv, StoreInv', [Next]_vars
  PROVE  [Lifecycle!Next]_<<lifeOf, decidedOf>>
<1>1. ASSUME NEW c \in Calls, NEW s \in Sessions, ApplyTrigger(c, s) \/ FlushNext(c, s)
      PROVE  UNCHANGED <<lifeOf, decidedOf>>
  <2>1. /\ UNCHANGED <<memory, used>> /\ \A d \in Calls \ {c} : call'[d] = call[d]
        /\ ~Deciding(c) /\ ~Deciding(c)'
    BY <1>1, IdleIsTyped DEF ApplyTrigger, FlushNext, Begin, Deciding, StoreInv, TypeOK
  <2> QED BY <2>1, Unmoved, Invisible DEF SameMind
<1>2. ASSUME NEW c \in Calls, FlushBegin(c)
      PROVE  UNCHANGED <<lifeOf, decidedOf>>
  <2>1. /\ UNCHANGED <<memory, used>> /\ \A d \in Calls \ {c} : call'[d] = call[d]
        /\ call[c] = Idle /\ call'[c] = [Idle EXCEPT !.op = "flush"]
    BY <1>2 DEF FlushBegin, StoreInv, TypeOK, history
  <2>2. ~Deciding(c) /\ ~Deciding(c)'
    BY <2>1 DEF Idle, Deciding
  <2> QED BY <2>1, <2>2, Unmoved, Invisible DEF SameMind
<1>3. ASSUME NEW c \in Calls, CallStep(c) PROVE [Lifecycle!Next]_<<lifeOf, decidedOf>>
  <2>1. ASSUME NEW s \in Sessions, Create(c, s) \/ ApplyTrigger(c, s) \/ Abandon(c, s) \/ FlushNext(c, s)
        PROVE  [Lifecycle!Next]_<<lifeOf, decidedOf>>
    BY <1>1, <2>1, CreateRefines, AbandonRefines
  <2>2. CASE FlushBegin(c) \/ FlushExit(c)
    BY <1>2, <2>2, GoneRefines DEF FlushExit
  <2>3. ASSUME \/ \E t \in Triggers : Decide(c, t)
               \/ Unlink(c) \/ Remove(c) \/ OpenFile(c) \/ LandWrite(c) \/ Commit(c) \/ WriteFails(c)
        PROVE  [Lifecycle!Next]_<<lifeOf, decidedOf>>
    <3>1. call[c].pc # "idle"
      BY <2>3 DEF Decide, Unlink, Remove, OpenFile, LandWrite, Commit, WriteFails
    <3>2. call[c].s \in Sessions
      BY <3>1, Known
    <3> QED BY <2>3, <3>2, DecideRefines, DiskWorkRefines, RemoveRefines, CommitRefines, WriteFailsRefines
  <2> QED BY <1>3, <2>1, <2>2, <2>3 DEF CallStep
<1>4. ASSUME NEW s \in Sessions, SweepUnlink(s) \/ SweepForget(s)
      PROVE  [Lifecycle!Next]_<<lifeOf, decidedOf>>
  <2>1. CASE SweepUnlink(s)
    <3>1. ASSUME NEW d \in Calls PROVE SameMind(d)
      <4>1. /\ call'[d].op = call[d].op /\ call'[d].s = call[d].s /\ call'[d].pc = call[d].pc
            /\ call'[d].rec = call[d].rec
        BY <2>1 DEF SweepUnlink, StoreInv, TypeOK, CallStates
      <4> QED BY <4>1 DEF SameMind, Deciding, OutcomeOf
    <3> QED BY <2>1, <3>1, Invisible DEF SweepUnlink
  <2>2. CASE SweepForget(s)
    <3>1. UNCHANGED <<call, used>> /\ memory' = [memory EXCEPT ![s] = None]
      BY <2>2 DEF SweepForget
    <3> QED BY <3>1, LeavesMap, Unmoved
  <2> QED BY <1>4, <2>1, <2>2
<1>5. CASE \/ SweepBegin \/ SweepListed \/ SweepCopy \/ SweepEnd \/ Tick
           \/ \E s \in Sessions : SweepRead(s)
           \/ UNCHANGED vars
  <2>1. UNCHANGED <<memory, used, call>>
    BY <1>5 DEF SweepBegin, SweepListed, SweepCopy, SweepEnd, Tick, SweepRead, vars
  <2> QED BY <2>1, Unmoved, Invisible
<1> QED BY <1>3, <1>4, <1>5, GoneRefines, BootRefines DEF Next, SweepStep, Die

(* The store, with its map, blobs, locks, sweep and flush, shows its       *)
(* callers nothing but the lives of sessions (session.store.ts).           *)
THEOREM StoreImplementsLifecycle == Spec => ImplementsLifecycle
<1>1. Init => Lifecycle!Init
  <2>1. ASSUME Init, NEW s \in Sessions PROVE lifeOf[s] = "unborn" /\ decidedOf[s] = "none"
    <3>1. \A c \in CallsOn(s) : ~Deciding(c)
      BY <2>1, IdleIsTyped DEF Init, CallsOn, Deciding
    <3> QED BY <2>1, <3>1 DEF Init, lifeOf, decidedOf
  <2> QED BY <2>1 DEF Lifecycle!Init, lifeOf, decidedOf
<1>2. StoreInv /\ StoreInv' /\ [Next]_vars => [Lifecycle!Next]_<<lifeOf, decidedOf>>
  BY StepRefines
<1>3. Init => StoreInv
  BY InitInv
<1>4. StoreInv /\ [Next]_vars => StoreInv'
  BY Inductive
<1> QED BY <1>1, <1>2, <1>3, <1>4, PTL DEF Spec, ImplementsLifecycle, Lifecycle!Spec

=============================================================================
