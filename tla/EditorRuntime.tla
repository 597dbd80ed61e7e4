----------------------------- MODULE EditorRuntime -----------------------------
(***************************************************************************)
(* The processes behind VS Code: the editors of a machine start, attach to *)
(* and stop one runtime-worker and one runtime-mcp, each on its port       *)
(* (RuntimeLifecycle, BaseProcessManager, WorkerManager, McpManager), and  *)
(* agree on the worker's key through a file (sharedWorkerKey).             *)
(*                                                                         *)
(* A behaviour is about one of the two services; which, the variable kind  *)
(* says.  The managers share their code but for what is told apart here.   *)
(***************************************************************************)
EXTENDS Naturals, FiniteSets

CONSTANTS Editors,
          Pids,      \* Bound: the processes that are there at a time.
          Flows,     \* Bound: the calls of start() and stop() under way.
          Folders,   \* the folders that are opened
          Stale,     \* the key of a worker left over from before
          None

VARIABLES kind,   \* "worker" or "mcp"
          procs,  \* the processes
          mgr,    \* the manager of each editor
          open,   \* the editors whose extension runs
          flow,   \* the calls under way
          file,   \* ~/.vindicate/worker.key
          flaws   \* what befell the editors (history)

vars == <<kind, procs, mgr, open, flow, file, flaws>>

(* A process: by is the editor that spawned it, tag the key it was given   *)
(* (the worker) or the folder (the MCP server).  A worker that finds the   *)
(* port taken lingers: main() only sets the exit code, and the governor's  *)
(* timer keeps the process alive.                                          *)
Stages == {"none", "starting", "up", "draining", "closed", "lingering", "exited", "failed"}
NoProc == [stage |-> "none", by |-> None, tag |-> None]
Torn == "torn"
Keys == Editors
Tags == Keys \cup Folders \cup {Stale, None}
Ghost == "ghost"   \* a ChildProcess that could not be spawned
NoMgr == [proc |-> None, state |-> "stopped", attached |-> FALSE, tag |-> None]
NoFlow == [e |-> None, tag |-> None, pc |-> "idle", on |-> None]
Pcs == {"idle", "read", "create", "fill", "reread", "repair", "refill", "probe",
        "same", "stopping", "stopped", "spawn", "wait", "health", "again"}
Flaws == {"torn", "overlap", "killed"}

ASSUME RuntimeAssumption ==
  /\ None \notin Editors \cup Pids \cup {Torn, Ghost}
  /\ Torn \notin Editors /\ Stale \notin Editors /\ Ghost \notin Pids

TypeOK ==
  /\ kind \in {"worker", "mcp"} /\ open \subseteq Editors /\ flaws \subseteq Flaws
  /\ procs \in [Pids -> [stage : Stages, by : Editors \cup {None}, tag : Tags]]
  /\ mgr \in [Editors -> [proc : Pids \cup {None, Ghost}, attached : BOOLEAN, tag : Tags,
                          state : {"stopped", "starting", "running", "error"}]]
  /\ flow \in [Flows -> [e : Editors \cup {None}, tag : Tags, pc : Pcs, on : Pids \cup {None}]]
  /\ file \in Keys \cup {None, Torn}

Init ==
  /\ kind \in {"worker", "mcp"}
  /\ LET left == [NoProc EXCEPT !.stage = "up", !.tag = Stale]
     IN  procs \in {[p \in Pids |-> NoProc]}
                   \cup {[p \in Pids |-> IF p = q THEN left ELSE NoProc] : q \in Pids}
  /\ mgr = [e \in Editors |-> NoMgr] /\ open = Editors
  /\ flow = [f \in Flows |-> NoFlow] /\ file = None /\ flaws = {}

Busy(e) == \E f \in Flows : flow[f].e = e
Answers(p) == procs[p].stage \in {"up", "draining"}
Reachable == \E p \in Pids : Answers(p)
Accepts(key) == \E p \in Pids : Answers(p) /\ procs[p].tag = key

(* Steps of flow f, in its editor. *)
Goes(f, pc) == flow' = [flow EXCEPT ![f].pc = pc]
Ends(f) == flow' = [flow EXCEPT ![f] = NoFlow]
Own(f) == mgr[flow[f].e]
Sets(f, m) == mgr' = [mgr EXCEPT ![flow[f].e] = m]
At(f, pc) == flow[f].pc = pc

-----------------------------------------------------------------------------
(* Calls.  RuntimeLifecycle.start() runs once at a time in an editor; it   *)
(* is called on boot, by ensureMcpReady() when the worker does not run,    *)
(* and, whatever the worker's state, by Retry in the message that the MCP  *)
(* server could not be started for another folder.  The MCP server is      *)
(* started by it, by restartForFolder() and by ensureMcpReady(), which     *)
(* only waits when the state is running; the three may overlap.            *)
Begins(f, e, tag, pc) ==
  /\ At(f, "idle") /\ e \in open
  /\ flow' = [flow EXCEPT ![f] = [e |-> e, tag |-> tag, pc |-> pc, on |-> None]]
  /\ flaws' = IF Busy(e) THEN flaws \cup {"overlap"} ELSE flaws

StartsWorker(f, e) ==
  /\ kind = "worker" /\ ~Busy(e)
  /\ Begins(f, e, None, "read")
  /\ UNCHANGED <<kind, procs, mgr, open, file>>

(* McpManager.start(): what it sees of the manager's state at once.        *)
Kills(procs0, p) ==
  [procs0 EXCEPT ![p].stage = IF @ \notin {"starting", "up", "lingering"} THEN @
                              ELSE IF kind = "worker" \/ @ # "up" THEN "exited" ELSE "draining"]
Halted(m) == [m EXCEPT !.attached = FALSE, !.tag = None, !.state = "stopped"]

(* A slip: the process is let go of and not killed. *)
StopsWithoutKill(e, f, tag, after) ==
  /\ mgr' = [mgr EXCEPT ![e] = Halted([mgr[e] EXCEPT !.proc = None])]
  /\ flow' = IF after = "idle" THEN flow
             ELSE [flow EXCEPT ![f] = [e |-> e, tag |-> tag, pc |-> after, on |-> None]]
  /\ UNCHANGED procs

(* stop() of a manager: it lets go of the process before it has ended.     *)
Stops(e, f, tag, after) ==
  LET m == mgr[e]
      as(pc, on) == [flow EXCEPT ![f] = [e |-> e, tag |-> tag, pc |-> pc, on |-> on]]
  IN  IF m.attached \/ m.proc = None
      THEN /\ mgr' = [mgr EXCEPT ![e] = Halted(m)]
           /\ flow' = IF after = "idle" THEN flow ELSE as(after, None)
           /\ UNCHANGED procs
      ELSE /\ mgr' = [mgr EXCEPT ![e].proc = None]
           /\ IF m.proc = Ghost THEN flow' = as("stopped", None) /\ UNCHANGED procs
              ELSE flow' = as("stopping", m.proc) /\ procs' = Kills(procs, m.proc)

Overlaps(e) == flaws' = IF Busy(e) THEN flaws \cup {"overlap"} ELSE flaws

StartsMcp(f, e, root) ==
  /\ kind = "mcp" /\ At(f, "idle") /\ e \in open /\ Overlaps(e)
  /\ LET m == mgr[e] IN
     IF m.state = "running" /\ m.tag = root
     THEN /\ flow' = [flow EXCEPT ![f] = [e |-> e, tag |-> root, pc |-> "same", on |-> None]]
          /\ UNCHANGED <<mgr, procs>>
     ELSE IF m.state = "running" \/ m.proc # None
     THEN Stops(e, f, root, "probe")
     ELSE /\ flow' = [flow EXCEPT ![f] = [e |-> e, tag |-> root, pc |-> "probe", on |-> None]]
          /\ UNCHANGED <<mgr, procs>>
  /\ UNCHANGED <<kind, open, file>>

LeavesFolder(f, e) ==
  /\ kind = "mcp" /\ At(f, "idle") /\ e \in open /\ Overlaps(e)
  /\ Stops(e, f, None, "idle")
  /\ UNCHANGED <<kind, open, file>>

AwaitsMcp(f, e) ==
  /\ kind = "mcp" /\ mgr[e].state = "running" /\ Begins(f, e, mgr[e].tag, "wait")
  /\ UNCHANGED <<kind, procs, mgr, open, file>>

(* The server is there and the folder is the same; or it has to be         *)
(* replaced.                                                               *)
FindsSame(f) ==
  /\ At(f, "same")
  /\ IF Reachable THEN Goes(f, "wait") /\ UNCHANGED <<mgr, procs>>
     ELSE Stops(flow[f].e, f, flow[f].tag, "probe")
  /\ UNCHANGED <<kind, open, file, flaws>>

(* The process has ended, or 3 s are over: SIGKILL, and no more waiting.   *)
KillTimer(f) ==
  /\ At(f, "stopping") /\ Goes(f, "stopped")
  /\ procs' = [procs EXCEPT ![flow[f].on].stage = "exited"]
  /\ flaws' = flaws \cup {"killed"}
  /\ UNCHANGED <<kind, mgr, open, file>>

HasStopped(f) ==
  /\ At(f, "stopped") /\ Sets(f, [Own(f) EXCEPT !.tag = None, !.state = "stopped"])
  /\ IF flow[f].tag = None THEN Ends(f) ELSE Goes(f, "probe")
  /\ UNCHANGED <<kind, procs, open, file, flaws>>

-----------------------------------------------------------------------------
(* getOrCreateSharedWorkerKey(): the file is there, empty, before its      *)
(* content is.                                                             *)
HasKey(f, key) ==
  /\ Sets(f, [Own(f) EXCEPT !.tag = key])
  /\ flow' = [flow EXCEPT ![f].tag = key, ![f].pc = "probe"]

ReadsKey(f) ==
  /\ flow[f].pc \in {"read", "reread"}
  /\ flaws' = IF file = Torn THEN flaws \cup {"torn"} ELSE flaws
  /\ IF file \in Keys THEN HasKey(f, file)
     ELSE /\ Goes(f, IF file = None /\ At(f, "read") THEN "create" ELSE "repair")
          /\ UNCHANGED mgr
  /\ UNCHANGED <<kind, procs, open, file>>

(* A slip: the file is opened whether it is there or not. *)
CreatesKeyAnyway(f) ==
  /\ At(f, "create") /\ file' = Torn /\ Goes(f, "fill")
  /\ UNCHANGED <<kind, procs, mgr, open, flaws>>

CreatesKey(f) ==
  /\ At(f, "create")
  /\ IF file = None THEN file' = Torn /\ Goes(f, "fill")
     ELSE UNCHANGED file /\ Goes(f, "reread")
  /\ UNCHANGED <<kind, procs, mgr, open, flaws>>

RepairsKey(f) ==
  /\ At(f, "repair") /\ file' = Torn /\ Goes(f, "refill")
  /\ UNCHANGED <<kind, procs, mgr, open, flaws>>

FillsKey(f) ==
  /\ flow[f].pc \in {"fill", "refill"} /\ file' = flow[f].e /\ HasKey(f, flow[f].e)
  /\ UNCHANGED <<kind, procs, open, flaws>>

-----------------------------------------------------------------------------
(* start() itself: the manager's own worker runs and answers, which is     *)
(* tested first; or attach to what answers on the port, or spawn.  Each    *)
(* test gives up after two seconds: an own worker that is slow for the     *)
(* first test and answers the second is attached to like another's, and    *)
(* what is slow for both is taken for not being there.                     *)
Attached(m) == [m EXCEPT !.attached = TRUE, !.state = "running"]

Probes(f) ==
  /\ At(f, "probe")
  /\ LET tag == flow[f].tag
         mine == [Own(f) EXCEPT !.attached = FALSE, !.tag = tag]
     IN  \/ /\ kind = "worker" /\ Reachable
            /\ ~Own(f).attached /\ Own(f).state = "running" /\ Own(f).proc # None
            /\ Goes(f, "wait") /\ UNCHANGED mgr
         \/ /\ Reachable
            /\ IF kind = "worker" /\ ~Accepts(tag) THEN Ends(f) /\ UNCHANGED mgr
               ELSE Goes(f, "wait") /\ Sets(f, [Attached(Own(f)) EXCEPT !.tag = tag])
         \/ IF mine.proc # None THEN Goes(f, "wait") /\ Sets(f, mine)
            ELSE Goes(f, "spawn") /\ Sets(f, [mine EXCEPT !.state = "starting"])
  /\ UNCHANGED <<kind, procs, open, file, flaws>>

(* The bundle is there, and the process is spawned; an error leaves a      *)
(* ChildProcess that never exits.                                          *)
Spawns(f) ==
  /\ At(f, "spawn")
  /\ LET e == flow[f].e IN
     \/ /\ Goes(f, "wait") /\ Sets(f, [Own(f) EXCEPT !.proc = Ghost, !.state = "error"])
        /\ UNCHANGED procs
     \/ \E p \in Pids :
          /\ procs[p].stage = "none"
          /\ procs' = [procs EXCEPT ![p] = [stage |-> "starting", by |-> e, tag |-> flow[f].tag]]
          /\ Goes(f, "wait") /\ Sets(f, [Own(f) EXCEPT !.proc = p, !.state = "running"])
  /\ UNCHANGED <<kind, open, file, flaws>>

NoBundle(f) ==
  /\ At(f, "spawn") /\ Ends(f) /\ Sets(f, [Own(f) EXCEPT !.state = "error"])
  /\ UNCHANGED <<kind, procs, open, file, flaws>>

(* waitUntilHealthy(). *)
Waits(f) ==
  /\ At(f, "wait")
  /\ IF kind = "worker" /\ Own(f).attached THEN Ends(f)
     ELSE IF Own(f).state \notin {"error", "stopped"} THEN Goes(f, "health")
     ELSE IF kind = "worker" THEN Goes(f, "again") ELSE Ends(f)
  /\ UNCHANGED <<kind, procs, mgr, open, file, flaws>>

Healthy(f) ==
  /\ At(f, "health")
  /\ Ends(f) \/ (~Reachable /\ Goes(f, "wait"))   \* it answers, or the deadline is over
  /\ UNCHANGED <<kind, procs, mgr, open, file, flaws>>

AttachesAgain(f) ==
  /\ At(f, "again") /\ Ends(f)
  /\ IF Accepts(flow[f].tag) THEN Sets(f, Attached(Own(f))) ELSE UNCHANGED mgr
  /\ UNCHANGED <<kind, procs, open, file, flaws>>

Step(f) == \/ FindsSame(f) \/ KillTimer(f) \/ HasStopped(f)
           \/ ReadsKey(f) \/ CreatesKey(f) \/ RepairsKey(f) \/ FillsKey(f)
           \/ Probes(f) \/ Spawns(f) \/ NoBundle(f)
           \/ Waits(f) \/ Healthy(f) \/ AttachesAgain(f)

-----------------------------------------------------------------------------
(* The processes.                                                          *)
Becomes(p, stage) == procs' = [procs EXCEPT ![p].stage = stage]

Listens(p) ==
  /\ procs[p].stage = "starting"
  /\ Becomes(p, IF ~Reachable THEN "up"
                ELSE IF kind = "worker" THEN "lingering" ELSE "failed")
  /\ UNCHANGED <<kind, mgr, open, flow, file, flaws>>

(* It crashes; or, the worker, is idle for too long; or, the MCP server,   *)
(* has closed after a SIGTERM.                                             *)
Ceases(p) ==
  /\ \/ procs[p].stage \in {"up", "lingering"} /\ \E s \in {"exited", "failed"} : Becomes(p, s)
     \/ procs[p].stage = "draining" /\ Becomes(p, "closed")
     \/ procs[p].stage = "closed" /\ Becomes(p, "exited")
  /\ UNCHANGED <<kind, mgr, open, flow, file, flaws>>

(* A slip: the state is not set. *)
ExitUnheard(p) ==
  /\ procs[p].stage \in {"exited", "failed"}
  /\ procs' = [procs EXCEPT ![p] = NoProc]
  /\ mgr' = IF procs[p].by \in open THEN [mgr EXCEPT ![procs[p].by].proc = None] ELSE mgr
  /\ flow' = [f \in Flows |-> IF flow[f].on = p
                              THEN [flow[f] EXCEPT !.pc = IF @ = "stopping" THEN "stopped" ELSE @,
                                                   !.on = None]
                              ELSE flow[f]]
  /\ UNCHANGED <<kind, open, file, flaws>>

(* The exit handler lets go of the manager's process, whichever it is.     *)
ExitHeard(p) ==
  /\ procs[p].stage \in {"exited", "failed"}
  /\ procs' = [procs EXCEPT ![p] = NoProc]
  /\ LET e == procs[p].by IN
     IF e \in open
     THEN /\ mgr' = [mgr EXCEPT ![e].proc = None, ![e].state =
                       IF procs[p].stage = "exited" THEN "stopped" ELSE "error"]
          /\ flow' = [f \in Flows |-> IF flow[f].on = p /\ flow[f].e = e
                                      THEN [flow[f] EXCEPT !.pc = IF @ = "stopping" THEN "stopped" ELSE @,
                                                           !.on = None]
                                      ELSE flow[f]]
     ELSE UNCHANGED <<mgr, flow>>
  /\ UNCHANGED <<kind, open, file, flaws>>

(* The window is closed: both managers are among the extension's           *)
(* subscriptions, and dispose() stops their processes.                     *)
Closes(e) ==
  /\ e \in open /\ open' = open \ {e}
  /\ procs' = IF mgr[e].attached \/ mgr[e].proc \notin Pids THEN procs ELSE Kills(procs, mgr[e].proc)
  /\ mgr' = [mgr EXCEPT ![e] = NoMgr]
  /\ flow' = [f \in Flows |-> IF flow[f].e = e THEN NoFlow ELSE flow[f]]
  /\ UNCHANGED <<kind, file, flaws>>

-----------------------------------------------------------------------------
Calls == \E f \in Flows, e \in Editors :
           \/ StartsWorker(f, e) \/ LeavesFolder(f, e) \/ AwaitsMcp(f, e)
           \/ \E root \in Folders : StartsMcp(f, e, root)
Process == \E p \in Pids : Listens(p) \/ Ceases(p) \/ ExitHeard(p)

Next == Calls \/ (\E f \in Flows : Step(f)) \/ Process \/ (\E e \in Editors : Closes(e))

Spec == Init /\ [][Next]_vars

-----------------------------------------------------------------------------
(* All editors, the key file and the workers they spawn have one key,      *)
(* unless one read the file before its content was there.                  *)
KeysAgree ==
  kind = "worker" /\ "torn" \notin flaws =>
    Cardinality(({mgr[e].tag : e \in Editors} \cup {procs[p].tag : p \in Pids} \cup {file}) \cap Keys) <= 1

(* The state is well formed, and there is one key. *)
RuntimeInv == TypeOK /\ KeysAgree

Live(p) == procs[p].stage \in {"starting", "up", "lingering"}
Orderly == flaws \cap {"overlap", "killed"} = {}

(* No process is forgotten: what an open editor has spawned is its         *)
(* manager's, which can stop it (if it has not attached to it, as a retry  *)
(* may); unless two calls overlapped, or it had not waited for an older    *)
(* one to end.                                                             *)
NothingLost ==
  Orderly => \A p \in Pids : Live(p) /\ procs[p].by \in open => mgr[procs[p].by].proc = p

(* An editor that says its service runs, and has not attached to another's,*)
(* has a process that runs or whose end it will hear of; unless what it    *)
(* has is a ChildProcess that could not be spawned: that one stays, and a  *)
(* start that finds no service any more takes it for one that comes up.    *)
RunningIsTrue ==
  Orderly => \A e \in open :
    mgr[e].state = "running" /\ ~mgr[e].attached /\ mgr[e].proc # Ghost /\ ~Busy(e) =>
      mgr[e].proc \in Pids /\ procs[mgr[e].proc].stage # "none" /\ procs[mgr[e].proc].by = e
=============================================================================
