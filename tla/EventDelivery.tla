---------------------------- MODULE EventDelivery ----------------------------
(***************************************************************************)
(* How the worker's events reach the MCP processes: the EventBus with its  *)
(* ring buffer (event-bus.ts), GET /events (events.routes.ts), and the     *)
(* client that keeps a stream open and a set of sessions it believes dead  *)
(* (worker-events-subscriber.ts, worker-client.ts).                        *)
(*                                                                         *)
(* A stream delivers what was written to it in order, until it drops.      *)
(* Requests and their replies travel on connections of their own, so a     *)
(* reply may overtake an event or be overtaken by it.                      *)
(***************************************************************************)
EXTENDS Naturals, Sequences, FiniteSets

CONSTANTS Sessions,    \* session ids
          Clients,     \* MCP processes, each with one WorkerClient and one stream
          Sinces,      \* values of ?since sent; this repository's clients send none: {0}
          MaxBuffer,   \* VINDICATE_EVENTS_BUFFER_SIZE
          MaxSeq       \* bound on sequence numbers

VARIABLES running,     \* the worker runs
          status,      \* the worker's session store
          lastSeq, buffer,     \* the EventBus
          connected,   \* clients whose stream the bus has as subscriber
          wire,        \* written to a client's stream and not yet read
          deadSessions,        \* per client
          inflight,    \* requests the worker has begun or answered
          \* History, read by properties only:
          published,   \* sequence numbers this worker process has given out
          from,        \* per client: the stream owes everything after this number
          got          \* per client: the numbers read from the present stream

bus == <<lastSeq, buffer, published>>
link == <<connected, wire, from, got>>
deliveryVars == <<running, status, bus, link, deadSessions, inflight>>

(* An event is the session whose death it reports, or one that no client   *)
(* acts on.                                                                *)
Events == Sessions \cup {"other", "resync_required"}
Entries == [seq : 1..MaxSeq, ev : Events]
Requests == [c : Clients \cup {"nobody"}, s : Sessions,
             op : {"create", "resume", "resume_from_pause", "close"},
             at : {"worker", "reply"}]

ASSUME DeliveryAssumption ==
  /\ MaxBuffer \in Nat \ {0} /\ MaxSeq \in Nat \ {0} /\ Sinces \subseteq Nat
  /\ Sessions \cap {"other", "resync_required"} = {} /\ "nobody" \notin Clients

DeliveryTypeOK ==
  /\ running \in BOOLEAN
  /\ status \in [Sessions -> {"none", "active", "paused", "dead", "gone"}]
  /\ lastSeq \in 0..MaxSeq
  /\ buffer \in Seq(Entries) /\ Len(buffer) <= MaxBuffer
  /\ connected \in SUBSET Clients
  /\ wire \in [Clients -> Seq(Entries)]
  /\ deadSessions \in [Clients -> SUBSET Sessions]
  /\ inflight \in SUBSET Requests
  /\ published \in SUBSET (1..MaxSeq)
  /\ from \in [Clients -> Nat] /\ got \in [Clients -> SUBSET (1..MaxSeq)]

-----------------------------------------------------------------------------
(* The bus.                                                                *)

(* A slip: the wall clock alone. *)
ClockSeq(offset) == offset

(* The wall clock since the bus was made, bumped past the last number.     *)
NextSeq(offset) == IF offset > lastSeq THEN offset ELSE lastSeq + 1

(* publish(), with the streams that get to see it: the clock may have      *)
(* moved by anything, or backwards.                                        *)
Publish(ev, subscribers) ==
  \E offset \in 1..MaxSeq :
    LET e == [seq |-> NextSeq(offset), ev |-> ev]
        b == Append(buffer, e)
    IN  /\ e.seq <= MaxSeq
        /\ lastSeq' = e.seq
        /\ buffer' = IF Len(b) > MaxBuffer THEN Tail(b) ELSE b
        /\ wire' = [c \in Clients |-> IF c \in subscribers THEN Append(wire[c], e)
                                                           ELSE wire[c]]
        /\ published' = published \cup {e.seq}

(* A slip: off by one. *)
HasGapLate(since) == buffer # <<>> /\ since + 2 < buffer[1].seq

HasGap(since) == buffer # <<>> /\ since + 1 < buffer[1].seq

(* getBuffered: what the ring buffer has of the numbers after since, as an  *)
(* order-preserving filter.                                                *)
Newer(since) == {i \in DOMAIN buffer : buffer[i].seq > since}
Rank(i, chosen) == Cardinality({j \in chosen : j <= i})
GetBuffered(since) ==
  [n \in 1..Cardinality(Newer(since)) |->
     buffer[CHOOSE i \in Newer(since) : Rank(i, Newer(since)) = n]]

(* GET /events: resync_required, or a replay; then live.  No await comes   *)
(* between.                                                                *)
Connect(c, since) ==
  /\ running /\ c \notin connected
  /\ connected' = connected \cup {c}
  /\ got' = [got EXCEPT ![c] = {}]
  /\ \/ /\ HasGap(since)
        /\ Publish("resync_required", connected \cup {c})
        /\ from' = [from EXCEPT ![c] = lastSeq' - 1]
     \/ /\ ~HasGap(since)
        /\ wire' = [wire EXCEPT ![c] = GetBuffered(since)]
        /\ from' = [from EXCEPT ![c] = IF since < lastSeq THEN since ELSE lastSeq]
        /\ UNCHANGED bus
  /\ UNCHANGED <<running, status, deadSessions, inflight>>

Drop(c) ==
  /\ c \in connected
  /\ connected' = connected \ {c}
  /\ wire' = [wire EXCEPT ![c] = <<>>]
  /\ UNCHANGED <<running, status, bus, from, got, deadSessions, inflight>>

(* A slip: no event is acted on. *)
ReceiveDeaf(c) ==
  /\ c \in connected /\ wire[c] # <<>>
  /\ wire' = [wire EXCEPT ![c] = Tail(@)]
  /\ got' = [got EXCEPT ![c] = @ \cup {Head(wire[c]).seq}]
  /\ UNCHANGED <<running, status, bus, connected, from, deadSessions, inflight>>

(* handleEvent: a session_dead marks the session; resync_required and the  *)
(* rest are ignored.                                                       *)
Receive(c) ==
  /\ c \in connected /\ wire[c] # <<>>
  /\ wire' = [wire EXCEPT ![c] = Tail(@)]
  /\ got' = [got EXCEPT ![c] = @ \cup {Head(wire[c]).seq}]
  /\ deadSessions' = [deadSessions EXCEPT ![c] = @ \cup ({Head(wire[c]).ev} \cap Sessions)]
  /\ UNCHANGED <<running, status, bus, connected, from, inflight>>

-----------------------------------------------------------------------------
(* Requests of the clients, as far as they touch what a client believes.   *)

Request(c, s, op, at) == [c |-> c, s |-> s, op |-> op, at |-> at]
InWorker(s) == {r \in inflight : r.s = s /\ r.at = "worker"}

CreateSession(c, s) ==
  /\ running /\ status[s] = "none"
  /\ status' = [status EXCEPT ![s] = "active"]
  /\ inflight' = inflight \cup {Request(c, s, "create", "reply")}
  /\ UNCHANGED <<running, bus, link, deadSessions>>

CloseSession(c, s) ==
  /\ running /\ status[s] \in {"active", "paused", "dead"}
  /\ status' = [status EXCEPT ![s] = "gone"]
  /\ inflight' = inflight \cup {Request(c, s, "close", "reply")}
  /\ UNCHANGED <<running, bus, link, deadSessions>>

(* browser_session pause, a command: the client refuses it for a session   *)
(* it has marked.                                                          *)
Pause(c, s) ==
  /\ running /\ s \notin deadSessions[c] /\ status[s] = "active" /\ InWorker(s) = {}
  /\ status' = [status EXCEPT ![s] = "paused"]
  /\ Publish("other", connected)
  /\ UNCHANGED <<running, connected, from, got, deadSessions, inflight>>

(* resume wants a dead session, resume_from_pause a paused one; any other  *)
(* is answered with an error, which changes nothing.                       *)
ResumeSession(c, s) ==
  /\ running
  /\ \/ /\ status[s] = "dead"
        /\ inflight' = inflight \cup {Request(c, s, "resume", "worker")}
     \/ /\ status[s] = "paused"
        /\ inflight' = inflight \cup {Request(c, s, "resume_from_pause", "worker")}
  /\ status' = [status EXCEPT ![s] = "active"]
  /\ UNCHANGED <<running, bus, link, deadSessions>>

(* The context is there, or could not be made.  Nobody waits for the       *)
(* answer if the client has restarted.                                     *)
Resumed(r) ==
  /\ r \in inflight /\ r.at = "worker"
  /\ inflight' = (inflight \ {r})
                   \cup (IF r.c \in Clients THEN {[r EXCEPT !.at = "reply"]} ELSE {})
  /\ IF r.op = "resume_from_pause"
     THEN Publish("other", connected) /\ UNCHANGED <<connected, from, got>>
     ELSE UNCHANGED <<bus, link>>
  /\ UNCHANGED <<running, status, deadSessions>>

ResumeFails(r) ==
  /\ r \in inflight /\ r.at = "worker"
  /\ inflight' = inflight \ {r}
  /\ status' = [status EXCEPT ![r.s] = IF @ = "active" THEN "dead" ELSE @]
  /\ UNCHANGED <<running, bus, link, deadSessions>>

(* The client reads a success: createSession, resumeSession,               *)
(* resumeFromPause and closeSession all clear the mark.                    *)
Reply(r) ==
  /\ r \in inflight /\ r.at = "reply"
  /\ inflight' = inflight \ {r}
  /\ deadSessions' = [deadSessions EXCEPT ![r.c] = @ \ {r.s}]
  /\ UNCHANGED <<running, status, bus, link>>

-----------------------------------------------------------------------------
(* The worker.                                                             *)

(* onContextDead: the crash, then the event. *)
SessionDies(s) ==
  /\ running /\ status[s] \in {"active", "paused"} /\ InWorker(s) = {}
  /\ status' = [status EXCEPT ![s] = "dead"]
  /\ Publish(s, connected)
  /\ UNCHANGED <<running, connected, from, got, deadSessions, inflight>>

(* worker_health, recording_step and the like. *)
OtherEvent ==
  /\ running /\ Publish("other", connected)
  /\ UNCHANGED <<running, status, connected, from, got, deadSessions, inflight>>

(* Streams and requests break; the session store is on disk. *)
WorkerStops ==
  /\ running /\ running' = FALSE
  /\ connected' = {} /\ wire' = [c \in Clients |-> <<>>]
  /\ lastSeq' = 0 /\ buffer' = <<>> /\ published' = {}
  /\ inflight' = {r \in inflight : r.at = "reply"}
  /\ UNCHANGED <<status, from, got, deadSessions>>

(* A new bus, whose first event comes before the server listens. *)
WorkerStarts ==
  /\ ~running /\ running' = TRUE
  /\ Publish("other", connected)
  /\ UNCHANGED <<status, connected, from, got, deadSessions, inflight>>

McpRestarts(c) ==
  /\ deadSessions' = [deadSessions EXCEPT ![c] = {}]
  /\ inflight' = {r \in inflight : r.c # c}
                   \cup {[r EXCEPT !.c = "nobody"] : r \in {q \in inflight :
                                                          q.c = c /\ q.at = "worker"}}
  /\ connected' = connected \ {c}
  /\ wire' = [wire EXCEPT ![c] = <<>>]
  /\ UNCHANGED <<running, status, bus, from, got>>

-----------------------------------------------------------------------------
DeliveryInit ==
  /\ running = FALSE
  /\ status = [s \in Sessions |-> "none"]
  /\ lastSeq = 0 /\ buffer = <<>> /\ published = {}
  /\ connected = {} /\ wire = [c \in Clients |-> <<>>]
  /\ from = [c \in Clients |-> 0] /\ got = [c \in Clients |-> {}]
  /\ deadSessions = [c \in Clients |-> {}] /\ inflight = {}

ClientStep(c) ==
  \/ \E since \in Sinces : Connect(c, since)
  \/ Drop(c) \/ Receive(c) \/ McpRestarts(c)
  \/ \E s \in Sessions : CreateSession(c, s) \/ CloseSession(c, s) \/ Pause(c, s)
                         \/ ResumeSession(c, s)

DeliveryNext ==
  \/ \E c \in Clients : ClientStep(c)
  \/ \E r \in inflight : Resumed(r) \/ ResumeFails(r) \/ Reply(r)
  \/ \E s \in Sessions : SessionDies(s)
  \/ OtherEvent \/ WorkerStops \/ WorkerStarts

DeliverySpec == DeliveryInit /\ [][DeliveryNext]_deliveryVars

(* A client reads what has arrived on its stream. *)
FairDelivery == DeliverySpec /\ \A c \in Clients : WF_deliveryVars(Receive(c))

-----------------------------------------------------------------------------
OnWire(c) == {wire[c][i].seq : i \in DOMAIN wire[c]}

(* A stream that was not told to resync carries every event after the      *)
(* number it asked for, and one that was carries every event from then on, *)
(* each once: nothing falls between the replay and the subscription, and   *)
(* what the ring buffer has dropped is never dropped silently              *)
(* (events.routes.ts:36-66).                                               *)
NothingMissed ==
  \A c \in connected :
    {q \in published : q > from[c]} = got[c] \cup OnWire(c)

(* Numbers only grow along a stream, in bursts and under a clock that      *)
(* steps back too, so a client may drop what it has seen by its number     *)
(* (event-bus.ts:4-6).                                                     *)
NumbersGrow ==
  \A c \in connected :
    /\ \A i, j \in DOMAIN wire[c] : i < j => wire[c][i].seq < wire[c][j].seq
    /\ \A q \in got[c], p \in OnWire(c) : q < p

(* A death that is on its way to a client gets there, unless the stream    *)
(* drops first (main.ts:116, worker-events-subscriber.ts:46-49).           *)
DeathIsHeard ==
  \A c \in Clients, s \in Sessions :
    (\E i \in DOMAIN wire[c] : wire[c][i].ev = s)
      ~> (s \in deadSessions[c] \/ c \notin connected)

=============================================================================
