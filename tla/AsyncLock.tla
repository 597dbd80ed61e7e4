------------------------------ MODULE AsyncLock ------------------------------
(***************************************************************************)
(* The per-key promise mutex of shared/async-lock.ts.                      *)
(*                                                                         *)
(* run(key, fn) reads the promise `prev` that the map holds for the key,   *)
(* installs tail = prev.then(() => gate) in its place, awaits prev, runs   *)
(* fn, opens its gate, and removes the map entry only if it is still its   *)
(* own tail.  A tail resolves when every gate chained before it has been   *)
(* opened and its own has, so a promise is represented by the set of calls *)
(* whose gates it still waits for.                                         *)
(***************************************************************************)

CONSTANTS Keys,     \* the keys the lock is asked for
          Calls,    \* the calls of run() that may be under way together
          None      \* "no call", "no key"

VARIABLES tail,     \* tails.get(key): the call whose tail is in the map, or None
          ahead,    \* the calls whose gates the awaited `prev` still waits for
          lockKey   \* the key a call runs under or queues for, or None

LockTypeOK == /\ tail \in [Keys -> Calls \cup {None}]
              /\ ahead \in [Calls -> SUBSET Calls]
              /\ lockKey \in [Calls -> Keys \cup {None}]

LockInit == /\ tail = [k \in Keys |-> None]
            /\ ahead = [c \in Calls |-> {}]
            /\ lockKey = [c \in Calls |-> None]

Queued(k) == {c \in Calls : lockKey[c] = k}

(* A slip: run() forgets to await `prev`. *)
MayRunAtOnce(c) == lockKey[c] # None

(* `prev` has resolved: the call's continuation may run fn. *)
MayRun(c) == lockKey[c] # None /\ ahead[c] = {}

(* run() up to its `await prev`. *)
Request(c, k) ==
  /\ lockKey[c] = None
  /\ ahead' = [ahead EXCEPT ![c] =
                 IF tail[k] = None THEN {} ELSE ahead[tail[k]] \cup {tail[k]}]
  /\ tail' = [tail EXCEPT ![k] = c]
  /\ lockKey' = [lockKey EXCEPT ![c] = k]

(* A plausible slip: the entry is dropped whoever's tail it is. *)
ReleaseForgettingTail(c) ==
  /\ MayRun(c)
  /\ tail' = [tail EXCEPT ![lockKey[c]] = None]
  /\ ahead' = [d \in Calls |-> ahead[d] \ {c}]
  /\ lockKey' = [lockKey EXCEPT ![c] = None]

(* The finally block: open the gate, drop the map entry if it is its own. *)
Release(c) ==
  /\ MayRun(c)
  /\ tail' = [tail EXCEPT ![lockKey[c]] = IF @ = c THEN None ELSE @]
  /\ ahead' = [d \in Calls |-> ahead[d] \ {c}]
  /\ lockKey' = [lockKey EXCEPT ![c] = None]

-----------------------------------------------------------------------------
(* The lock's purpose (async-lock.ts:2): calls for one key run one at a    *)
(* time, however many requests and releases interleave.                    *)
Exclusive == \A c, d \in Calls :
               MayRun(c) /\ MayRun(d) /\ lockKey[c] = lockKey[d] => c = d

(* What makes Exclusive inductive: the calls queued on a key are totally   *)
(* ordered by `ahead`, and the installed tail is behind all of them.       *)
QueueOrdered ==
  /\ \A c \in Calls : lockKey[c] = None => ahead[c] = {}
  /\ \A c \in Calls : \A d \in ahead[c] : d # c /\ lockKey[d] = lockKey[c]
  /\ \A c, d \in Calls :
       (c # d /\ lockKey[c] # None /\ lockKey[c] = lockKey[d])
          => (c \in ahead[d] \/ d \in ahead[c])
  /\ \A k \in Keys : tail[k] = None => Queued(k) = {}
  /\ \A k \in Keys : tail[k] # None =>
        /\ lockKey[tail[k]] = k
        /\ Queued(k) \ {tail[k]} \subseteq ahead[tail[k]]

=============================================================================
