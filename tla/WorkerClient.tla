----------------------------- MODULE WorkerClient -----------------------------
(***************************************************************************)
(* The circuit breaker of runtime-mcp's WorkerClient (worker-client.ts):   *)
(* concurrent requests share one state and two streaks; a request that     *)
(* finds the circuit down, or loses its connection, polls GET /health until *)
(* the worker answers, and is then sent, or sent a second time.  The worker *)
(* is the environment: it does what it is asked or not, answers or not,    *)
(* dies and is started again.  Sessions believed dead are EventDelivery's. *)
(***************************************************************************)
EXTENDS Naturals

CONSTANTS Calls,       \* concurrent calls of the client's methods
          Commands,    \* those made by runSteps, which have a timer
          RecoveryStreak,  \* degradedRecoveryStreak
          MaxGen       \* bound on worker processes

VARIABLES state, shuttingDown, slowStreak, fastStreak,   \* the client's fields
          at,          \* where each call stands
          attempt,     \* how often it has sent its request
          tried,       \* its present waitForRecovery has probed at least once
          fate,        \* what became of each sending, as the client sees it
          result,      \* what the call answered
          up, gen,     \* the worker runs, and is the gen-th to do so
          jobs,        \* sendings the worker has and is not done with
          \* History, read by properties only:
          runs,        \* sendings the worker has carried out
          trouble,     \* calls in whose time the worker was down or turned them away
          fastRun      \* fast answers in a row

breaker == <<state, slowStreak, fastStreak, fastRun>>
calls == <<at, attempt, tried, fate, result>>
worker == <<up, gen, jobs, runs>>
vars == <<breaker, shuttingDown, calls, worker, trouble>>

Fates == {"none", "ok", "error", "refused", "broken", "aborted"}
Results == {"none", "ok", "error", "unavailable", "throttled", "shutting_down", "timeout"}

ASSUME ClientAssumption ==
  Commands \subseteq Calls /\ RecoveryStreak \in Nat \ {0} /\ MaxGen \in Nat \ {0}

TypeOK == /\ state \in {"healthy", "degraded", "down"}
          /\ shuttingDown \in BOOLEAN
          /\ slowStreak \in 0..2 /\ fastStreak \in 0..(RecoveryStreak - 1)
          /\ at \in [Calls -> {"idle", "wait", "probing", "found", "ready", "sent", "ended"}]
          /\ attempt \in [Calls -> 0..2] /\ tried \in [Calls -> BOOLEAN]
          /\ fate \in [Calls -> [{1, 2} -> Fates]] /\ result \in [Calls -> Results]
          /\ up \in BOOLEAN /\ gen \in 1..MaxGen
          /\ jobs \in SUBSET (Calls \X {1, 2}) /\ runs \in SUBSET (Calls \X {1, 2})
          /\ trouble \in SUBSET Calls
          /\ fastRun \in 0..RecoveryStreak

Unsent == [n \in {1, 2} |-> "none"]

Init == /\ state = "healthy" /\ shuttingDown = FALSE
        /\ slowStreak = 0 /\ fastStreak = 0 /\ fastRun = 0
        /\ at = [c \in Calls |-> "idle"] /\ attempt = [c \in Calls |-> 0]
        /\ tried = [c \in Calls |-> FALSE] /\ fate = [c \in Calls |-> Unsent]
        /\ result = [c \in Calls |-> "none"]
        /\ up = TRUE /\ gen = 1 /\ jobs = {} /\ runs = {} /\ trouble = {}

-----------------------------------------------------------------------------
(* Pieces of a call.                                                       *)

End(c, r) == at' = [at EXCEPT ![c] = "ended"] /\ result' = [result EXCEPT ![c] = r]

(* fn(): a worker that does not run refuses the connection.                *)
Send(c) == /\ at' = [at EXCEPT ![c] = "sent"]
           /\ attempt' = [attempt EXCEPT ![c] = @ + 1]
           /\ IF up THEN jobs' = jobs \cup {<<c, attempt[c] + 1>>} /\ UNCHANGED fate
                    ELSE fate' = [fate EXCEPT ![c][attempt[c] + 1] = "broken"] /\ UNCHANGED jobs
           /\ UNCHANGED <<tried, result, up, gen, runs>>

Wait(c) == /\ at' = [at EXCEPT ![c] = "wait"]
           /\ tried' = [tried EXCEPT ![c] = FALSE]
           /\ UNCHANGED <<attempt, fate, result>>

(* A method is called.  Only runSteps looks at throttledUntil, and only    *)
(* here; events and the clock move it to anything at any time.             *)
Begin(c) ==
  /\ at[c] = "idle"
  /\ trouble' = IF up THEN trouble ELSE trouble \cup {c}
  /\ \/ c \in Commands /\ End(c, "throttled") /\ UNCHANGED <<attempt, tried, fate, worker>>
     \/ shuttingDown /\ End(c, "shutting_down") /\ UNCHANGED <<attempt, tried, fate, worker>>
     \/ ~shuttingDown /\ state = "down" /\ Wait(c) /\ UNCHANGED worker
     \/ ~shuttingDown /\ state # "down" /\ Send(c)
  /\ UNCHANGED <<breaker, shuttingDown>>

(* One round of waitForRecovery: GET /health, which a worker that does not *)
(* run fails at once.                                                      *)
Probe(c) ==
  /\ at[c] = "wait" /\ ~shuttingDown
  /\ tried' = [tried EXCEPT ![c] = TRUE]
  /\ at' = IF up THEN [at EXCEPT ![c] = "probing"] ELSE at
  /\ UNCHANGED <<breaker, shuttingDown, attempt, fate, result, worker, trouble>>

(* A slip: the deadline is looked at after the sleep, and may have passed  *)
(* before the first probe.                                                 *)
GiveUpUntried(c) ==
  /\ at[c] = "wait"
  /\ \/ End(c, "unavailable")
     \/ shuttingDown /\ End(c, "shutting_down")
  /\ UNCHANGED <<breaker, shuttingDown, attempt, tried, fate, worker, trouble>>

(* The wait ends without the worker: past the deadline, which never passes *)
(* before the first round, or because of the shutdown notice.              *)
GiveUp(c) ==
  /\ at[c] = "wait"
  /\ \/ tried[c] /\ End(c, "unavailable")
     \/ shuttingDown /\ End(c, "shutting_down")
  /\ UNCHANGED <<breaker, shuttingDown, attempt, tried, fate, worker, trouble>>

(* The probe's answer is there; waitForRecovery returns.                   *)
Found(c) ==
  /\ at[c] = "found"
  /\ state' = "healthy" /\ fastStreak' = 0
  /\ at' = [at EXCEPT ![c] = "ready"] /\ tried' = [tried EXCEPT ![c] = FALSE]
  /\ UNCHANGED <<slowStreak, fastRun, shuttingDown, attempt, fate, result, worker, trouble>>

SendAfterWait(c) ==
  /\ at[c] = "ready" /\ Send(c)
  /\ UNCHANGED <<breaker, shuttingDown, trouble>>

(* What an answer does to the circuit, fastStreak becoming onSlow after a  *)
(* slow one and onHealthy with the last of a streak.  slowStreak is only   *)
(* ever compared with 2, and is not counted any further.                   *)
Streaks(slow, onSlow, onHealthy) ==
  IF slow
  THEN /\ slowStreak' = IF slowStreak < 2 THEN slowStreak + 1 ELSE 2
       /\ state' = IF slowStreak' = 2 THEN "degraded" ELSE state
       /\ fastStreak' = onSlow /\ fastRun' = 0
  ELSE /\ slowStreak' = 0
       /\ fastRun' = IF fastRun < RecoveryStreak THEN fastRun + 1 ELSE fastRun
       /\ \/ /\ state = "degraded" /\ fastStreak + 1 < RecoveryStreak
             /\ fastStreak' = fastStreak + 1 /\ state' = state
          \/ /\ state = "degraded" /\ fastStreak + 1 >= RecoveryStreak
             /\ fastStreak' = onHealthy /\ state' = "healthy"
          \/ state # "degraded" /\ fastStreak' = 0 /\ state' = state

(* Slips: a slow answer leaves the streak of fast ones alone; the streak   *)
(* is not reset when it has done its work.                                 *)
AnsweredForgiving(slow) == Streaks(slow, fastStreak, 0)
AnsweredUnreset(slow) == Streaks(slow, 0, RecoveryStreak)

Answered(slow) == Streaks(slow, 0, 0)

(* A slip: an abort counts as a lost connection. *)
IsConnectionErrorOrAbort(f) == f \in {"broken", "refused", "aborted"}

(* A TypeError of fetch, or a WorkerUnavailableError, which a 502, a 503,  *)
(* worker.throttled and browser.unavailable all become.                    *)
IsConnectionError(f) == f \in {"broken", "refused"}

(* What a fate is to the caller. *)
Outcome(f) == CASE f = "aborted" -> "timeout"
                [] f = "refused" -> "unavailable"
                [] f = "broken" -> "error"
                [] OTHER -> f

(* A slip: the second failure is waited out like the first. *)
HearRetrying(c) ==
  LET f == fate[c][attempt[c]]
      final == End(c, Outcome(f)) /\ UNCHANGED <<attempt, tried, fate>>
  IN  /\ at[c] = "sent" /\ f # "none"
      /\ \/ f = "ok" /\ final /\ \E slow \in BOOLEAN : Answered(slow)
         \/ /\ IsConnectionError(f)
            /\ state' = "down"
            /\ at' = [at EXCEPT ![c] = "wait"] /\ tried' = [tried EXCEPT ![c] = FALSE]
            /\ attempt' = [attempt EXCEPT ![c] = 1]
            /\ fate' = [fate EXCEPT ![c][2] = "none"]
            /\ UNCHANGED <<result, slowStreak, fastStreak, fastRun>>
         \/ f # "ok" /\ ~IsConnectionError(f) /\ final /\ UNCHANGED breaker
      /\ UNCHANGED <<shuttingDown, worker, trouble>>

(* The answer, or the failure, of a sending reaches the call: the first    *)
(* time it moves the circuit, and a lost connection is waited out; the     *)
(* second time it is the outcome.                                          *)
Hear(c) ==
  LET f == fate[c][attempt[c]]
      final == End(c, Outcome(f)) /\ UNCHANGED <<attempt, tried, fate>>
  IN  /\ at[c] = "sent" /\ f # "none"
      /\ \/ attempt[c] = 1 /\ f = "ok" /\ final /\ \E slow \in BOOLEAN : Answered(slow)
         \/ /\ attempt[c] = 1 /\ IsConnectionError(f)
            /\ state' = "down" /\ Wait(c) /\ UNCHANGED <<slowStreak, fastStreak, fastRun>>
         \/ /\ attempt[c] = 2 \/ (f # "ok" /\ ~IsConnectionError(f))
            /\ final /\ UNCHANGED breaker
      /\ UNCHANGED <<shuttingDown, worker, trouble>>

-----------------------------------------------------------------------------
(* The timer of runSteps, the notices, and the next call.                  *)

(* The worker is not told: what it was asked may still be done.            *)
Abort(c) ==
  /\ c \in Commands /\ at[c] = "sent" /\ fate[c][attempt[c]] = "none"
  /\ fate' = [fate EXCEPT ![c][attempt[c]] = "aborted"]
  /\ UNCHANGED <<breaker, shuttingDown, at, attempt, tried, result, worker, trouble>>

(* POST /worker-shutdown-imminent.                                         *)
SetWorkerShuttingDown ==
  /\ up /\ shuttingDown' = TRUE
  /\ UNCHANGED <<breaker, calls, worker, trouble>>

(* The place of a call that has ended is taken by another one.             *)
Renew(c) ==
  /\ at[c] = "ended" /\ jobs \cap ({c} \X {1, 2}) = {}
  /\ at' = [at EXCEPT ![c] = "idle"] /\ attempt' = [attempt EXCEPT ![c] = 0]
  /\ tried' = [tried EXCEPT ![c] = FALSE] /\ fate' = [fate EXCEPT ![c] = Unsent]
  /\ result' = [result EXCEPT ![c] = "none"]
  /\ runs' = runs \ ({c} \X {1, 2}) /\ trouble' = trouble \ {c}
  /\ UNCHANGED <<breaker, shuttingDown, up, gen, jobs>>

-----------------------------------------------------------------------------
(* The worker and the network.                                             *)

Heard(c, n, f) == IF at[c] = "sent" /\ attempt[c] = n /\ fate[c][n] = "none"
                  THEN fate' = [fate EXCEPT ![c][n] = f] ELSE UNCHANGED fate

(* It does what was asked, well or badly, and answers.                     *)
Work(c, n) ==
  /\ <<c, n>> \in jobs
  /\ jobs' = jobs \ {<<c, n>>} /\ runs' = runs \cup {<<c, n>>}
  /\ \E f \in {"ok", "error"} : Heard(c, n, f)
  /\ UNCHANGED <<breaker, shuttingDown, at, attempt, tried, result, up, gen, trouble>>

(* It has no place for it (503) and does nothing.                          *)
TurnAway(c, n) ==
  /\ <<c, n>> \in jobs
  /\ jobs' = jobs \ {<<c, n>>}
  /\ Heard(c, n, "refused")
  /\ trouble' = trouble \cup {c}
  /\ UNCHANGED <<breaker, shuttingDown, at, attempt, tried, result, up, gen, runs>>

(* The connection is lost, or fetch gives up on it; the worker goes on.    *)
Break(c) ==
  /\ at[c] = "sent" /\ fate[c][attempt[c]] = "none"
  /\ fate' = [fate EXCEPT ![c][attempt[c]] = "broken"]
  /\ trouble' = trouble \cup {c}
  /\ UNCHANGED <<breaker, shuttingDown, at, attempt, tried, result, worker>>

HealthAnswers(c) ==
  /\ up /\ at[c] = "probing"
  /\ at' = [at EXCEPT ![c] = "found"]
  /\ UNCHANGED <<breaker, shuttingDown, attempt, tried, fate, result, worker, trouble>>

(* The worker is gone, with every request and probe it had.                *)
Die ==
  /\ up /\ up' = FALSE /\ jobs' = {}
  /\ at' = [c \in Calls |-> IF at[c] = "probing" THEN "wait" ELSE at[c]]
  /\ fate' = [c \in Calls |->
               IF at[c] = "sent" /\ fate[c][attempt[c]] = "none"
               THEN [fate[c] EXCEPT ![attempt[c]] = "broken"] ELSE fate[c]]
  /\ trouble' = trouble \cup {c \in Calls : at[c] # "idle"}
  /\ UNCHANGED <<breaker, shuttingDown, attempt, tried, result, gen, runs>>

Restart ==
  /\ ~up /\ gen < MaxGen
  /\ up' = TRUE /\ gen' = gen + 1
  /\ UNCHANGED <<breaker, shuttingDown, calls, jobs, runs, trouble>>

-----------------------------------------------------------------------------
Client(c) == Probe(c) \/ GiveUp(c) \/ Found(c) \/ SendAfterWait(c) \/ Hear(c)
Answer(c) == Break(c) \/ HealthAnswers(c) \/ \E n \in {1, 2} : Work(c, n) \/ TurnAway(c, n)

Next == \/ \E c \in Calls : Begin(c) \/ Client(c) \/ Abort(c) \/ Renew(c) \/ Answer(c)
        \/ SetWorkerShuttingDown \/ Die \/ Restart

Spec == Init /\ [][Next]_vars

(* The event loop runs and the clock reaches every deadline; a worker      *)
(* answers what it was sent, or its connection is given up.                *)
FairSpec == Spec /\ \A c \in Calls : WF_vars(Client(c)) /\ WF_vars(Answer(c))

-----------------------------------------------------------------------------
(* The inductive invariant of the proofs.                                  *)
Waiting == {"wait", "probing", "found", "ready"}

(* No call sends thrice.                                                   *)
Counted ==
  \A c \in Calls : /\ at[c] = "idle" => attempt[c] = 0 /\ result[c] = "none"
                   /\ at[c] \in Waiting => attempt[c] <= 1
                   /\ at[c] = "sent" => attempt[c] >= 1

(* Nothing is known of a request that was not sent.                        *)
Numbered ==
  \A c \in Calls : \A n \in {1, 2} :
    (<<c, n>> \in jobs \cup runs \/ fate[c][n] # "none") => n <= attempt[c]

SecondForLost ==
  \A c \in Calls : (attempt[c] = 2 \/ (attempt[c] = 1 /\ at[c] \in Waiting))
                   => fate[c][1] \in {"broken", "refused"}

RefusedIsUndone ==
  \A c \in Calls : \A n \in {1, 2} :
    /\ <<c, n>> \in jobs => <<c, n>> \notin runs
    /\ fate[c][n] = "refused" => <<c, n>> \notin jobs \cup runs

TroubleIsNoted ==
  \A c \in Calls : /\ ~up /\ at[c] # "idle" => c \in trouble
                   /\ tried[c] /\ at[c] = "wait" => c \in trouble
                   /\ \A n \in {1, 2} : fate[c][n] \in {"broken", "refused"} => c \in trouble
                   /\ result[c] = "unavailable" => c \in trouble

(* What DoneTwiceOnlyIfLost and UnavailableIsTrue rest on: attempts are    *)
(* counted, a second one follows a lost first one, a refused one is not    *)
(* done, and no failure goes unnoted.                                      *)
ClientInv == TypeOK /\ Counted /\ Numbered /\ SecondForLost /\ RefusedIsUndone /\ TroubleIsNoted

(* The second sending is for lost requests only: the worker does one       *)
(* request twice only if the first time its connection broke, never after  *)
(* an answer, a refusal or the timer of a command (isConnectionError, and  *)
(* the ActionTimeoutError that runSteps makes of an abort).                *)
DoneTwiceOnlyIfLost ==
  \A c \in Calls : {<<c, 1>>, <<c, 2>>} \subseteq runs => fate[c][1] = "broken"

(* Who is told that the worker is unavailable met a worker that was down,  *)
(* or turned it away, during this very call: a circuit left down by others *)
(* refuses nobody without a look (waitForRecovery).                        *)
UnavailableIsTrue ==
  \A c \in Calls : result[c] = "unavailable" => c \in trouble

(* Answers alone lift the circuit from degraded only when the last         *)
(* RecoveryStreak answers to a first sending, whoever got them, were fast. *)
DegradedIsLeftByStreak ==
  [][(state = "degraded" /\ state' = "healthy")
       => (fastRun' = RecoveryStreak \/ \E c \in Calls : at[c] = "found" /\ at'[c] = "ready")]_vars

(* Every call ends, whatever the worker does: withCircuitBreaker sends at  *)
(* most twice and waits for a bounded time before each.                    *)
EveryCallEnds == \A c \in Calls : at[c] # "idle" ~> at[c] = "ended"

=============================================================================
