-------------------------- MODULE EditorRuntimeProofs --------------------------
(***************************************************************************)
(* For any number of editors, calls and processes: one key, no process is  *)
(* forgotten, and an editor that says its service runs has a process.      *)
(***************************************************************************)
EXTENDS EditorRuntime, TLAPS, FiniteSetTheorems

ProcRecords == [stage : Stages, by : Editors \cup {None}, tag : Tags]
MgrRecords == [proc : Pids \cup {None, Ghost}, attached : BOOLEAN, tag : Tags,
               state : {"stopped", "starting", "running", "error"}]
FlowRecords == [e : Editors \cup {None}, tag : Tags, pc : Pcs, on : Pids \cup {None}]

(* A call is that of an open editor. *)
Called == \A f \in Flows : /\ flow[f].e \in open \cup {None}
                           /\ flow[f].pc = "idle" <=> flow[f].e = None
                           /\ flow[f].pc = "same" => kind = "mcp"

(* The key: nobody has one that is not the file's, and one call at most is *)
(* about to write the file it has created.                                 *)
Keyed ==
  kind = "worker" /\ "torn" \notin flaws =>
    /\ \A e \in Editors : mgr[e].tag \in Keys => mgr[e].tag = file
    /\ \A p \in Pids : procs[p].tag \in Keys => procs[p].tag = file
    /\ \A f \in Flows : /\ flow[f].tag \in Keys => flow[f].tag = file
                        /\ flow[f].pc \notin {"repair", "refill"}
                        /\ flow[f].pc = "reread" => file # None
                        /\ flow[f].pc = "fill" => file = Torn
    /\ \A f, g \in Flows : flow[f].pc = "fill" /\ flow[g].pc = "fill" => f = g

(* What the manager of an editor is while a call of it is at some point.   *)
Early == {"spawn"}
Gone == {"draining", "closed", "exited", "failed"}
Ended(p) == procs[p].stage \in Gone

Alone == \A f, g \in Flows : flow[f].e # None /\ flow[f].e = flow[g].e => f = g
AtPoint ==
  \A f \in Flows, e \in Editors : flow[f].e = e =>
    /\ flow[f].pc = "stopping" => /\ mgr[e].proc = None /\ flow[f].on \in Pids
                                  /\ procs[flow[f].on].by = e /\ Ended(flow[f].on)
    /\ flow[f].pc = "spawn" => mgr[e].proc = None
    /\ flow[f].pc \in Early => mgr[e].state # "running"
Known ==
  \A p \in Pids : procs[p].stage # "none" /\ procs[p].by \in open =>
    \/ mgr[procs[p].by].proc = p
    \/ \E f \in Flows : flow[f].e = procs[p].by /\ flow[f].pc = "stopping" /\ flow[f].on = p
Mine ==
  \A e \in open : mgr[e].proc \in Pids =>
    procs[mgr[e].proc].stage # "none" /\ procs[mgr[e].proc].by = e
Backed ==
  \A e \in open : mgr[e].state = "running" /\ ~mgr[e].attached =>
    \/ mgr[e].proc # None
    \/ \E f \in Flows : flow[f].e = e /\ flow[f].pc \in {"stopping", "stopped"}
Ordered == Orderly => Alone /\ AtPoint /\ Known /\ Mine /\ Backed

EditorInv == TypeOK /\ Called /\ Keyed /\ Ordered

-----------------------------------------------------------------------------
(* Types.                                                                  *)
Typed ==
  /\ kind \in {"worker", "mcp"} /\ open \subseteq Editors /\ flaws \subseteq Flaws
  /\ procs \in [Pids -> ProcRecords] /\ mgr \in [Editors -> MgrRecords]
  /\ flow \in [Flows -> FlowRecords] /\ file \in Keys \cup {None, Torn}

LEMMA TypedIs == (TypeOK <=> Typed) /\ (TypeOK' <=> Typed')
BY Zenon DEF TypeOK, Typed, ProcRecords, MgrRecords, FlowRecords

LEMMA FlowFields ==
  ASSUME NEW q \in FlowRecords
  PROVE  q.e \in Editors \cup {None} /\ q.tag \in Tags /\ q.pc \in Pcs /\ q.on \in Pids \cup {None}
BY DEF FlowRecords

LEMMA MgrFields ==
  ASSUME NEW m \in MgrRecords
  PROVE  /\ m.proc \in Pids \cup {None, Ghost} /\ m.attached \in BOOLEAN /\ m.tag \in Tags
         /\ m.state \in {"stopped", "starting", "running", "error"}
BY DEF MgrRecords

LEMMA LetGo ==
  ASSUME NEW m \in MgrRecords
  PROVE  /\ [m EXCEPT !.proc = None] \in MgrRecords /\ [m EXCEPT !.proc = None].proc = None
         /\ Halted(m) \in MgrRecords /\ Halted(m).proc = m.proc /\ Halted(m).state = "stopped"
         /\ Halted(m).tag = None
<1>1. None \in Tags
  BY DEF Tags
<1> QED BY <1>1 DEF MgrRecords, Halted

LEMMA Idles ==
  /\ NoFlow \in FlowRecords /\ NoFlow.e = None /\ NoFlow.pc = "idle" /\ NoFlow.tag = None /\ NoFlow.on = None
  /\ NoMgr \in MgrRecords /\ NoMgr.proc = None /\ NoMgr.state = "stopped" /\ NoMgr.tag = None
  /\ NoProc \in ProcRecords /\ NoProc.stage = "none" /\ NoProc.by = None /\ NoProc.tag = None
  /\ None \notin Keys /\ None \in Tags
BY RuntimeAssumption DEF RuntimeAssumption, NoFlow, NoMgr, NoProc, FlowRecords, MgrRecords, ProcRecords,
   Tags, Pcs, Stages, Keys

(* A flow that is under way, and the manager it works on.                  *)
LEMMA UnderWay ==
  ASSUME EditorInv, NEW f \in Flows, flow[f].pc # "idle"
  PROVE  /\ flow[f] \in FlowRecords /\ flow[f].e \in open /\ flow[f].e \in Editors
         /\ mgr[flow[f].e] \in MgrRecords
         /\ Orderly => \A g \in Flows \ {f} : flow[g].e # flow[f].e
<1>1. flow[f] \in FlowRecords /\ open \subseteq Editors /\ mgr \in [Editors -> MgrRecords]
  BY TypedIs DEF EditorInv, Typed
<1>2. flow[f].e \in open
  BY DEF EditorInv, Called
<1>3. None \notin Editors
  BY RuntimeAssumption DEF RuntimeAssumption
<1>4. Orderly => \A g \in Flows \ {f} : flow[g].e # flow[f].e
  BY <1>1, <1>2, <1>3 DEF EditorInv, Ordered, Alone
<1> QED BY <1>1, <1>2, <1>4

LEMMA Behind ==
  ASSUME EditorInv, Orderly, NEW f \in Flows, NEW e, e = flow[f].e, flow[f].pc # "idle"
  PROVE  /\ flow[f].pc = "spawn" => mgr[e].proc = None
         /\ flow[f].pc \in Early => mgr[e].state # "running"
         /\ flow[f].pc \notin {"stopping", "stopped"} /\ mgr[e].state = "running" /\ ~mgr[e].attached =>
              mgr[e].proc # None
<1>1. e \in open /\ e \in Editors /\ \A g \in Flows \ {f} : flow[g].e # e
  BY UnderWay
<1>2. AtPoint /\ Backed
  BY DEF EditorInv, Ordered
<1>3. /\ flow[f].pc = "spawn" => mgr[e].proc = None
      /\ flow[f].pc \in Early => mgr[e].state # "running"
  BY <1>1, <1>2 DEF AtPoint
<1>4. flow[f].pc \notin {"stopping", "stopped"} /\ mgr[e].state = "running" /\ ~mgr[e].attached =>
        mgr[e].proc # None
  BY <1>1, <1>2 DEF Backed
<1> QED BY <1>3, <1>4

(* A call moves, or begins, and works on its editor's manager only; it     *)
(* neither spawns nor stops a process.                                     *)
LEMMA Moves ==
  ASSUME EditorInv, NEW f \in Flows, NEW e \in open, NEW q \in FlowRecords, NEW m \in MgrRecords,
         flow' = [flow EXCEPT ![f] = q], mgr' = [mgr EXCEPT ![e] = m], UNCHANGED <<kind, procs, open>>,
         file' \in Keys \cup {None, Torn}, flaws \subseteq flaws', flaws' \subseteq Flaws,
         flow[f].e \in {e, None}, q.e \in {e, None}, q.pc = "idle" <=> q.e = None,
         q.pc = "same" => kind = "mcp",
         Orderly' => \A g \in Flows \ {f} : flow[g].e # e,
         Orderly' => flow[f].pc # "stopping" /\ q.pc # "stopping",
         Orderly' => m.proc = mgr[e].proc \/ (m.proc \notin Pids /\ mgr[e].proc \notin Pids),
         Orderly' => (q.pc = "spawn" => m.proc = None) /\ (q.pc \in Early => m.state # "running"),
         Orderly' => (m.state = "running" /\ ~m.attached /\ q.pc # "stopped" => m.proc # None)
  PROVE  TypeOK' /\ Called' /\ Ordered'
<1>1. Typed /\ open \subseteq Editors /\ e \in Editors
  BY TypedIs DEF EditorInv, Typed
<1>2. flow' \in [Flows -> FlowRecords] /\ flow'[f] = q /\ \A g \in Flows \ {f} : flow'[g] = flow[g]
  BY <1>1 DEF Typed
<1>3. mgr' \in [Editors -> MgrRecords] /\ mgr'[e] = m /\ \A d \in Editors \ {e} : mgr'[d] = mgr[d]
  BY <1>1 DEF Typed
<1>4. TypeOK'
  BY <1>1, <1>2, <1>3, TypedIs DEF Typed
<1>5. Called'
  BY <1>2 DEF EditorInv, Called
<1>6. ASSUME Orderly' PROVE Alone' /\ AtPoint' /\ Known' /\ Mine' /\ Backed'
  <2>1. Orderly /\ Alone /\ AtPoint /\ Known /\ Mine /\ Backed
    BY <1>6 DEF Orderly, EditorInv, Ordered
  <2>2. \A g \in Flows \ {f} : flow[g].e # e
    BY <1>6
  <2>3. None \notin Editors /\ e # None
    BY <1>1, RuntimeAssumption DEF RuntimeAssumption
  <2>4. Alone'
    BY <1>2, <2>1, <2>2, <2>3 DEF Alone
  <2>5. AtPoint'
    <3> SUFFICES ASSUME NEW g \in Flows, NEW d \in Editors, flow'[g].e = d
        PROVE  /\ flow'[g].pc = "stopping" => /\ mgr'[d].proc = None /\ flow'[g].on \in Pids
                                              /\ procs[flow'[g].on].by = d /\ Ended(flow'[g].on)
               /\ flow'[g].pc = "spawn" => mgr'[d].proc = None
               /\ flow'[g].pc \in Early => mgr'[d].state # "running"
      BY DEF AtPoint, Ended
    <3>1. CASE g = f
      BY <1>2, <1>3, <1>6, <2>3, <3>1
    <3>2. CASE g # f
      <4>1. flow'[g] = flow[g] /\ d # e /\ mgr'[d] = mgr[d]
        BY <1>2, <1>3, <2>2, <3>2
      <4> QED BY <2>1, <4>1 DEF AtPoint
    <3> QED BY <3>1, <3>2
  <2>6. Known'
    <3> SUFFICES ASSUME NEW p \in Pids, NEW d, d = procs[p].by, procs[p].stage # "none", d \in open
        PROVE  mgr'[d].proc = p \/ \E g \in Flows : flow'[g].e = d /\ flow'[g].pc = "stopping" /\ flow'[g].on = p
      BY DEF Known
    <3>1. mgr[d].proc = p \/ \E g \in Flows : flow[g].e = d /\ flow[g].pc = "stopping" /\ flow[g].on = p
      BY <2>1 DEF Known
    <3>2. CASE mgr[d].proc = p
      BY <1>1, <1>3, <1>6, <3>2
    <3>3. ASSUME NEW g \in Flows, flow[g].e = d, flow[g].pc = "stopping", flow[g].on = p
          PROVE  \E h \in Flows : flow'[h].e = d /\ flow'[h].pc = "stopping" /\ flow'[h].on = p
      <4>1. g # f
        BY <1>6, <3>3
      <4> QED BY <1>2, <3>3, <4>1
    <3> QED BY <3>1, <3>2, <3>3
  <2>7. Mine'
    <3> SUFFICES ASSUME NEW d \in open, mgr'[d].proc \in Pids
        PROVE  procs[mgr'[d].proc].stage # "none" /\ procs[mgr'[d].proc].by = d
      BY DEF Mine
    <3>1. mgr'[d].proc = mgr[d].proc
      BY <1>1, <1>3, <1>6
    <3> QED BY <2>1, <3>1 DEF Mine
  <2>8. Backed'
    <3> SUFFICES ASSUME NEW d \in open, mgr'[d].state = "running", ~mgr'[d].attached
        PROVE  mgr'[d].proc # None \/ \E g \in Flows : flow'[g].e = d /\ flow'[g].pc \in {"stopping", "stopped"}
      BY DEF Backed
    <3>1. CASE d = e
      <4>1. CASE q.pc = "stopped"
        <5>1. q.e = e
          BY <4>1
        <5> QED BY <1>2, <3>1, <4>1, <5>1
      <4>2. CASE q.pc # "stopped"
        BY <1>3, <1>6, <3>1, <4>2
      <4> QED BY <4>1, <4>2
    <3>2. CASE d # e
      <4>1. mgr'[d] = mgr[d]
        BY <1>1, <1>3, <3>2
      <4>2. mgr[d].proc # None \/ \E g \in Flows : flow[g].e = d /\ flow[g].pc \in {"stopping", "stopped"}
        BY <2>1, <4>1 DEF Backed
      <4>3. ASSUME NEW g \in Flows, flow[g].e = d PROVE flow'[g] = flow[g]
        <5>1. d # None
          BY <1>1, <2>3
        <5> QED BY <1>2, <3>2, <4>3, <5>1
      <4> QED BY <4>1, <4>2, <4>3
    <3> QED BY <3>1, <3>2
  <2> QED BY <2>4, <2>5, <2>6, <2>7, <2>8
<1> QED BY <1>4, <1>5, <1>6 DEF Ordered

(* ... and it takes no key that is not the file's.                         *)
LEMMA KeysStay ==
  ASSUME EditorInv, NEW f \in Flows, NEW e \in open, NEW q \in FlowRecords, NEW m \in MgrRecords,
         flow' = [flow EXCEPT ![f] = q], mgr' = [mgr EXCEPT ![e] = m], UNCHANGED <<kind, procs, file>>,
         flaws \subseteq flaws',
         kind = "worker" /\ "torn" \notin flaws' =>
           /\ q.tag \in Keys => q.tag = file
           /\ m.tag \in Keys => m.tag = file
           /\ q.pc \notin {"repair", "refill", "fill"}
           /\ q.pc = "reread" => file # None
  PROVE  Keyed'
<1>1. Typed
  BY TypedIs DEF EditorInv
<1>2. flow'[f] = q /\ \A g \in Flows \ {f} : flow'[g] = flow[g]
  BY <1>1 DEF Typed
<1>3. mgr'[e] = m /\ \A d \in Editors \ {e} : mgr'[d] = mgr[d]
  BY <1>1 DEF Typed
<1> SUFFICES ASSUME kind = "worker", "torn" \notin flaws'
    PROVE /\ \A d \in Editors : mgr'[d].tag \in Keys => mgr'[d].tag = file
          /\ \A p \in Pids : procs[p].tag \in Keys => procs[p].tag = file
          /\ \A g \in Flows : /\ flow'[g].tag \in Keys => flow'[g].tag = file
                              /\ flow'[g].pc \notin {"repair", "refill"}
                              /\ flow'[g].pc = "reread" => file # None
                              /\ flow'[g].pc = "fill" => file = Torn
          /\ \A g, h \in Flows : flow'[g].pc = "fill" /\ flow'[h].pc = "fill" => g = h
  BY DEF Keyed
<1>4. /\ \A d \in Editors : mgr[d].tag \in Keys => mgr[d].tag = file
      /\ \A p \in Pids : procs[p].tag \in Keys => procs[p].tag = file
      /\ \A g \in Flows : /\ flow[g].tag \in Keys => flow[g].tag = file
                          /\ flow[g].pc \notin {"repair", "refill"}
                          /\ flow[g].pc = "reread" => file # None
                          /\ flow[g].pc = "fill" => file = Torn
      /\ \A g, h \in Flows : flow[g].pc = "fill" /\ flow[h].pc = "fill" => g = h
  BY DEF EditorInv, Keyed
<1>5. \A d \in Editors : mgr'[d].tag \in Keys => mgr'[d].tag = file
  BY <1>3, <1>4
<1>6. ASSUME NEW g \in Flows
      PROVE  /\ flow'[g].tag \in Keys => flow'[g].tag = file
             /\ flow'[g].pc \notin {"repair", "refill"}
             /\ flow'[g].pc = "reread" => file # None
             /\ flow'[g].pc = "fill" => g # f /\ flow[g].pc = "fill"
  BY <1>2, <1>4
<1> QED BY <1>4, <1>5, <1>6

-----------------------------------------------------------------------------
(* Calls that begin.                                                       *)
LEMMA Began ==
  ASSUME EditorInv, NEW f \in Flows, NEW e \in open, flow[f].pc = "idle",
         NEW tag \in Tags, NEW pc \in {"read", "wait", "same", "probe"},
         flow' = [flow EXCEPT ![f] = [e |-> e, tag |-> tag, pc |-> pc, on |-> None]],
         UNCHANGED <<kind, procs, mgr, open, file>>, flaws' = IF Busy(e) THEN flaws \cup {"overlap"} ELSE flaws,
         pc \in Early => mgr[e].state # "running", pc = "same" => kind = "mcp",
         kind = "worker" => tag \notin Keys
  PROVE  EditorInv'
<1> PICK q \in FlowRecords : q = [e |-> e, tag |-> tag, pc |-> pc, on |-> None]
  BY TypedIs DEF EditorInv, Typed, FlowRecords, Pcs
<1>1. q.e = e /\ q.tag = tag /\ q.pc = pc
  OBVIOUS
<1>2. Typed /\ e \in Editors /\ e # None
  BY TypedIs, RuntimeAssumption DEF EditorInv, Typed, RuntimeAssumption
<1> PICK m \in MgrRecords : m = mgr[e]
  BY <1>2 DEF Typed
<1>3. mgr' = [mgr EXCEPT ![e] = m] /\ flow' = [flow EXCEPT ![f] = q]
  BY <1>2 DEF Typed
<1>4. flow[f].e = None
  BY DEF EditorInv, Called
<1>5. flaws \subseteq flaws' /\ flaws' \subseteq Flaws /\ file' \in Keys \cup {None, Torn}
  BY <1>2 DEF Typed, Flaws
<1>6. ASSUME Orderly' PROVE Orderly /\ \A g \in Flows : flow[g].e # e
  BY <1>6 DEF Orderly, Busy
<1>7. ASSUME Orderly' PROVE m.state = "running" /\ ~m.attached => m.proc # None
  BY <1>6, <1>7 DEF EditorInv, Ordered, Backed
<1>8. m.proc = mgr[e].proc /\ (q.pc \in Early => m.state # "running")
  BY <1>1
<1>9. q.pc \notin {"stopping", "spawn", "idle", "repair", "refill", "fill", "reread"}
  BY <1>1
<1>13. UNCHANGED <<kind, procs, open>> /\ UNCHANGED <<kind, procs, file>>
  OBVIOUS
<1>14. q.e \in {e, None} /\ (q.pc = "idle" <=> q.e = None)
  BY <1>1, <1>2
<1>15. (Orderly' => flow[f].pc # "stopping" /\ q.pc # "stopping") /\ (q.pc = "same" => kind = "mcp")
  BY <1>1, <1>9
<1>10. TypeOK' /\ Called' /\ Ordered'
  BY ONLY EditorInv, <1>3, <1>4, <1>5, <1>6, <1>7, <1>8, <1>9, <1>13, <1>14, <1>15, Moves
<1>11. kind = "worker" /\ "torn" \notin flaws' =>
         /\ q.tag \in Keys => q.tag = file
         /\ m.tag \in Keys => m.tag = file
         /\ q.pc \notin {"repair", "refill", "fill"}
         /\ q.pc = "reread" => file # None
  BY <1>1, <1>2, <1>5, <1>9 DEF EditorInv, Keyed
<1>12. Keyed'
  BY ONLY EditorInv, <1>3, <1>5, <1>11, <1>13, KeysStay
<1> QED BY <1>10, <1>12 DEF EditorInv

(* Processes: only their stages change, and none that has ended comes back.*)
LEMMA StageKeeps ==
  ASSUME EditorInv, NEW pr \in [Pids -> ProcRecords], procs' = pr,
         \A p \in Pids : /\ pr[p].by = procs[p].by /\ pr[p].tag = procs[p].tag
                         /\ procs[p].stage = "none" <=> pr[p].stage = "none"
                         /\ procs[p].stage \in Gone => pr[p].stage \in Gone,
         UNCHANGED <<kind, mgr, open, flow, file, flaws>>
  PROVE  EditorInv'
<1>1. TypeOK'
  BY TypedIs DEF EditorInv, Typed
<1>2. Called'
  BY DEF EditorInv, Called
<1>3. Keyed'
  BY DEF EditorInv, Keyed
<1>4. ASSUME Orderly' PROVE Alone' /\ AtPoint' /\ Known' /\ Mine' /\ Backed'
  <2>1. Alone /\ AtPoint /\ Known /\ Mine /\ Backed
    BY <1>4 DEF Orderly, EditorInv, Ordered
  <2>2. Alone' /\ Backed'
    BY <2>1 DEF Alone, Backed
  <2>3. AtPoint'
    BY <2>1 DEF AtPoint, Ended
  <2>4. Known' /\ Mine'
    BY <2>1 DEF Known, Mine
  <2> QED BY <2>2, <2>3, <2>4
<1> QED BY <1>1, <1>2, <1>3, <1>4 DEF EditorInv, Ordered

LEMMA KillsFacts ==
  ASSUME Typed, NEW p \in Pids, NEW pr, pr = Kills(procs, p)
  PROVE  /\ pr \in [Pids -> ProcRecords]
         /\ \A r \in Pids \ {p} : pr[r] = procs[r]
         /\ pr[p].by = procs[p].by /\ pr[p].tag = procs[p].tag
         /\ procs[p].stage = "none" <=> pr[p].stage = "none"
         /\ procs[p].stage # "none" => pr[p].stage \in Gone
<1>1. procs[p] \in ProcRecords /\ procs \in [Pids -> ProcRecords]
  BY DEF Typed
<1>2. PICK s \in Stages :
        /\ pr = [procs EXCEPT ![p].stage = s]
        /\ s = IF procs[p].stage \notin {"starting", "up", "lingering"} THEN procs[p].stage
               ELSE IF kind = "worker" \/ procs[p].stage # "up" THEN "exited" ELSE "draining"
  BY <1>1 DEF Kills, ProcRecords, Stages
<1>3. pr[p] = [procs[p] EXCEPT !.stage = s] /\ \A r \in Pids \ {p} : pr[r] = procs[r]
  BY <1>1, <1>2
<1>4. pr[p] \in ProcRecords /\ pr[p].by = procs[p].by /\ pr[p].tag = procs[p].tag /\ pr[p].stage = s
  BY <1>1, <1>3 DEF ProcRecords
<1>5. pr \in [Pids -> ProcRecords]
  BY <1>1, <1>2, <1>4
<1>6. procs[p].stage \in Stages
  BY <1>1 DEF ProcRecords
<1> QED BY <1>2, <1>3, <1>4, <1>5, <1>6 DEF Stages, Gone

(* stop(): what the manager lets go of is on its way out, and the call     *)
(* that waits for its end knows it.                                        *)
LEMMA StopsKeeps ==
  ASSUME EditorInv, NEW f \in Flows, NEW e \in open, NEW tag \in Tags, NEW after, kind = "mcp",
         Stops(e, f, tag, after), UNCHANGED <<kind, open, file>>,
         after = "probe" \/ (after = "idle" /\ flow[f].pc = "idle"),
         flow[f].e \in {e, None}, flow[f].pc \in {"idle", "same"},
         flaws \subseteq flaws', flaws' \subseteq Flaws,
         Orderly' => \A g \in Flows \ {f} : flow[g].e # e
  PROVE  EditorInv'
<1>1. Typed /\ e \in Editors /\ e # None /\ mgr[e] \in MgrRecords /\ flow[f] \in FlowRecords
      /\ Ghost \notin Pids /\ None \notin Pids
  BY TypedIs, RuntimeAssumption DEF EditorInv, Typed, RuntimeAssumption
<1>2. file' \in Keys \cup {None, Torn} /\ kind' = "mcp"
  BY <1>1 DEF Typed
<1>3. Keyed'
  BY <1>2 DEF Keyed
<1>4. CASE mgr[e].attached \/ mgr[e].proc = None
  <2>1. /\ mgr' = [mgr EXCEPT ![e] = Halted(mgr[e])] /\ procs' = procs
        /\ flow' = IF after = "idle" THEN flow
                   ELSE [flow EXCEPT ![f] = [e |-> e, tag |-> tag, pc |-> after, on |-> None]]
    BY <1>4 DEF Stops
  <2>2. PICK m \in MgrRecords : m = Halted(mgr[e]) /\ m.proc = mgr[e].proc /\ m.state = "stopped"
    BY <1>1, LetGo
  <2>3. PICK q \in FlowRecords : /\ flow' = [flow EXCEPT ![f] = q] /\ q.e \in {e, None}
                                 /\ q.pc = "idle" <=> q.e = None
                                 /\ q.pc \in {"idle", "probe"}
    <3>1. CASE after = "idle"
      <4>1. flow[f].e = None /\ flow[f].pc = "idle"
        BY <3>1 DEF EditorInv, Called
      <4> QED BY <1>1, <2>1, <3>1, <4>1 DEF Typed
    <3>2. CASE after = "probe"
      <4>1. [e |-> e, tag |-> tag, pc |-> "probe", on |-> None] \in FlowRecords
        BY <1>1 DEF FlowRecords, Pcs
      <4> QED BY <1>1, <2>1, <3>2, <4>1
    <3> QED BY <3>1, <3>2
  <2>4. mgr' = [mgr EXCEPT ![e] = m] /\ UNCHANGED <<kind, procs, open>>
    BY <2>1, <2>2
  <2>5. TypeOK' /\ Called' /\ Ordered'
    BY <1>1, <1>2, <2>2, <2>3, <2>4, Moves
  <2> QED BY <1>3, <2>5 DEF EditorInv
<1>5. ASSUME ~mgr[e].attached, mgr[e].proc # None PROVE EditorInv'
  <2>1. PICK m \in MgrRecords : m = [mgr[e] EXCEPT !.proc = None] /\ m.proc = None
    BY <1>1, LetGo
  <2>2. mgr' = [mgr EXCEPT ![e] = m]
    BY <1>1, <1>5, <2>1 DEF Stops, Typed
  <2>3. CASE mgr[e].proc = Ghost
    <3>1. procs' = procs /\ flow' = [flow EXCEPT ![f] = [e |-> e, tag |-> tag, pc |-> "stopped", on |-> None]]
      BY <1>5, <2>3 DEF Stops
    <3>2. PICK q \in FlowRecords : q = [e |-> e, tag |-> tag, pc |-> "stopped", on |-> None]
      BY <1>1 DEF FlowRecords, Pcs
    <3>3. flow' = [flow EXCEPT ![f] = q] /\ q.e = e /\ q.pc = "stopped" /\ UNCHANGED <<kind, procs, open>>
      BY <3>1, <3>2
    <3>4. q.pc \notin Early
      BY <3>3 DEF Early
    <3>5. TypeOK' /\ Called' /\ Ordered'
      BY <1>1, <1>2, <2>1, <2>2, <2>3, <3>3, <3>4, Moves, ZenonT(40)
    <3> QED BY <1>3, <3>5 DEF EditorInv
  <2>4. CASE mgr[e].proc # Ghost
    <3>1. PICK p \in Pids : p = mgr[e].proc
      BY <1>1, <1>5, <2>4, MgrFields
    <3>2. PICK q \in FlowRecords : q = [e |-> e, tag |-> tag, pc |-> "stopping", on |-> p]
      BY <1>1 DEF FlowRecords, Pcs
    <3>3. /\ q.e = e /\ q.pc = "stopping" /\ q.on = p
          /\ flow' = [flow EXCEPT ![f] = q] /\ procs' = Kills(procs, p)
      BY <1>5, <2>4, <3>1, <3>2 DEF Stops
    <3>4. /\ flow' \in [Flows -> FlowRecords] /\ flow'[f] = q /\ \A g \in Flows \ {f} : flow'[g] = flow[g]
          /\ mgr' \in [Editors -> MgrRecords] /\ mgr'[e] = m /\ \A d \in Editors \ {e} : mgr'[d] = mgr[d]
      BY <1>1, <2>2, <3>3 DEF Typed
    <3>5. PICK pr \in [Pids -> ProcRecords] :
            /\ procs' = pr
            /\ \A r \in Pids \ {p} : pr[r] = procs[r]
            /\ pr[p].by = procs[p].by /\ pr[p].tag = procs[p].tag
            /\ procs[p].stage = "none" <=> pr[p].stage = "none"
            /\ procs[p].stage # "none" => pr[p].stage \in Gone
      BY <1>1, <3>3, KillsFacts
    <3>6. TypeOK'
      BY <1>1, <1>2, <3>4, <3>5, TypedIs DEF Typed
    <3>7. Called'
      BY <3>3, <3>4, <1>1 DEF EditorInv, Called
    <3>8. ASSUME Orderly' PROVE Alone' /\ AtPoint' /\ Known' /\ Mine' /\ Backed'
      <4>1. Orderly /\ Alone /\ AtPoint /\ Known /\ Mine /\ Backed
        BY <3>8 DEF Orderly, EditorInv, Ordered
      <4>2. \A g \in Flows \ {f} : flow[g].e # e
        BY <3>8
      <4>3. procs[p].stage # "none" /\ procs[p].by = e
        BY <3>1, <4>1 DEF Mine
      <4>4. Alone'
        BY <3>3, <3>4, <4>1, <4>2 DEF Alone
      <4>5. AtPoint'
        <5> SUFFICES ASSUME NEW g \in Flows, NEW d \in Editors, flow'[g].e = d
            PROVE  /\ flow'[g].pc = "stopping" => /\ mgr'[d].proc = None /\ flow'[g].on \in Pids
                                                  /\ pr[flow'[g].on].by = d /\ pr[flow'[g].on].stage \in Gone
                   /\ flow'[g].pc = "spawn" => mgr'[d].proc = None
                   /\ flow'[g].pc \in Early => mgr'[d].state # "running"
          BY <3>5 DEF AtPoint, Ended
        <5>1. CASE g = f
          BY <2>1, <3>3, <3>4, <3>5, <4>3, <5>1 DEF Early
        <5>2. CASE g # f
          <6>1. flow'[g] = flow[g] /\ d # e /\ mgr'[d] = mgr[d]
            BY <3>4, <4>2, <5>2
          <6>2. /\ flow[g].pc = "stopping" => /\ mgr[d].proc = None /\ flow[g].on \in Pids
                                              /\ procs[flow[g].on].by = d /\ procs[flow[g].on].stage \in Gone
                /\ flow[g].pc = "spawn" => mgr[d].proc = None
                /\ flow[g].pc \in Early => mgr[d].state # "running"
            BY <4>1, <6>1 DEF AtPoint, Ended
          <6> QED BY <6>1, <6>2, <3>5, <4>3
        <5> QED BY <5>1, <5>2
      <4>6. Known'
        <5> SUFFICES ASSUME NEW r \in Pids, NEW d, d = procs[r].by, procs[r].stage # "none", d \in open
            PROVE  mgr'[d].proc = r \/ \E g \in Flows : flow'[g].e = d /\ flow'[g].pc = "stopping" /\ flow'[g].on = r
          BY <3>5 DEF Known
        <5>1. mgr[d].proc = r \/ \E g \in Flows : flow[g].e = d /\ flow[g].pc = "stopping" /\ flow[g].on = r
          BY <4>1 DEF Known
        <5>2. CASE mgr[d].proc = r
          <6>1. CASE d = e
            BY <3>1, <3>3, <3>4, <5>2, <6>1
          <6>2. CASE d # e
            BY <1>1, <3>4, <5>2, <6>2 DEF Typed
          <6> QED BY <6>1, <6>2
        <5>3. ASSUME NEW g \in Flows, flow[g].e = d, flow[g].pc = "stopping", flow[g].on = r
              PROVE  \E h \in Flows : flow'[h].e = d /\ flow'[h].pc = "stopping" /\ flow'[h].on = r
          <6>1. g # f
            BY <5>3
          <6> QED BY <3>4, <5>3, <6>1
        <5> QED BY <5>1, <5>2, <5>3
      <4>7. Mine'
        <5> SUFFICES ASSUME NEW d \in open, mgr'[d].proc \in Pids
            PROVE  pr[mgr'[d].proc].stage # "none" /\ pr[mgr'[d].proc].by = d
          BY <3>5 DEF Mine
        <5>0. d \in Editors
          BY <1>1 DEF Typed
        <5>1. d # e /\ mgr'[d] = mgr[d]
          <6>1. mgr'[e].proc = None /\ None \notin Pids
            BY <1>1, <2>1, <3>4
          <6> QED BY ONLY <5>0, <6>1, <3>4, mgr'[d].proc \in Pids
        <5>2. procs[mgr[d].proc].stage # "none" /\ procs[mgr[d].proc].by = d
          BY <4>1, <5>1 DEF Mine
        <5> QED BY <3>5, <5>1, <5>2
      <4>8. Backed'
        <5> SUFFICES ASSUME NEW d \in open, mgr'[d].state = "running", ~mgr'[d].attached
            PROVE  mgr'[d].proc # None \/ \E g \in Flows : flow'[g].e = d /\ flow'[g].pc \in {"stopping", "stopped"}
          BY DEF Backed
        <5>1. CASE d = e
          BY <3>3, <3>4, <5>1
        <5>2. CASE d # e
          <6>1. mgr'[d] = mgr[d]
            BY <1>1, <3>4, <5>2 DEF Typed
          <6>2. mgr[d].proc # None \/ \E g \in Flows : flow[g].e = d /\ flow[g].pc \in {"stopping", "stopped"}
            BY <4>1, <6>1 DEF Backed
          <6>3. ASSUME NEW g \in Flows, flow[g].e = d, flow[g].pc \in {"stopping", "stopped"} PROVE flow'[g] = flow[g]
            BY <3>4, <6>3
          <6> QED BY <6>1, <6>2, <6>3
        <5> QED BY <5>1, <5>2
      <4> QED BY <4>4, <4>5, <4>6, <4>7, <4>8
    <3> QED BY <1>3, <3>6, <3>7, <3>8 DEF EditorInv, Ordered
  <2> QED BY <2>3, <2>4
<1> QED BY <1>4, <1>5

-----------------------------------------------------------------------------
(* The steps of a call under way.                                          *)
LEMMA CallGoes ==
  ASSUME EditorInv, NEW f \in Flows, flow[f].pc \notin {"idle", "stopping"}, NEW e, e = flow[f].e,
         NEW q \in FlowRecords, NEW m \in MgrRecords,
         q = NoFlow \/ (q.e = e /\ q.pc \notin {"idle", "stopping", "same"}),
         flow' = [flow EXCEPT ![f] = q], mgr' = [mgr EXCEPT ![e] = m], UNCHANGED <<kind, procs, open>>,
         file' \in Keys \cup {None, Torn}, flaws \subseteq flaws', flaws' \subseteq Flaws,
         Orderly => m.proc = mgr[e].proc \/ (m.proc \notin Pids /\ mgr[e].proc \notin Pids),
         Orderly => (q.pc = "spawn" => m.proc = None) /\ (q.pc \in Early => m.state # "running"),
         Orderly => (m.state = "running" /\ ~m.attached /\ q.pc # "stopped" => m.proc # None)
  PROVE  TypeOK' /\ Called' /\ Ordered' /\ e \in open
<1>1. e \in open /\ e \in Editors /\ (Orderly => \A g \in Flows \ {f} : flow[g].e # e)
  BY UnderWay
<1>2. e # None /\ NoFlow.e = None /\ NoFlow.pc = "idle"
  BY <1>1, Idles, RuntimeAssumption DEF RuntimeAssumption
<1>3. q.e \in {e, None} /\ (q.pc = "idle" <=> q.e = None) /\ q.pc \notin {"stopping", "same"}
  BY <1>2
<1>4. Orderly' => Orderly
  BY DEF Orderly
<1>5. TypeOK' /\ Called' /\ Ordered'
  BY <1>1, <1>3, <1>4, Moves
<1> QED BY <1>1, <1>5

(* It goes on without a change of its manager. *)
LEMMA CallJustGoes ==
  ASSUME EditorInv, NEW f \in Flows, flow[f].pc \notin {"idle", "stopping", "stopped"},
         NEW q \in FlowRecords,
         q = NoFlow \/ (q.e = flow[f].e /\ q.pc \notin {"idle", "stopping", "spawn", "same"}),
         q.pc \in Early => flow[f].pc \in Early,
         flow' = [flow EXCEPT ![f] = q], UNCHANGED <<kind, procs, mgr, open>>,
         file' \in Keys \cup {None, Torn}, flaws \subseteq flaws', flaws' \subseteq Flaws
  PROVE  /\ TypeOK' /\ Called' /\ Ordered'
         /\ file' = file /\ (kind = "worker" /\ "torn" \notin flaws' =>
              /\ q.tag \in Keys => q.tag = file
              /\ q.pc \notin {"repair", "refill", "fill"}
              /\ q.pc = "reread" => file # None) => Keyed'
<1> PICK e \in open : e = flow[f].e /\ e \in Editors
  BY UnderWay
<1>1. Typed
  BY TypedIs DEF EditorInv
<1> PICK m \in MgrRecords : m = mgr[e]
  BY <1>1 DEF Typed
<1>2. mgr' = [mgr EXCEPT ![e] = m]
  BY <1>1 DEF Typed
<1>3. UNCHANGED <<kind, procs, open>> /\ UNCHANGED <<kind, procs>>
  OBVIOUS
<1>4. Orderly => /\ flow[f].pc \in Early => mgr[e].state # "running"
                 /\ mgr[e].state = "running" /\ ~mgr[e].attached => mgr[e].proc # None
  BY Behind
<1>5. NoFlow.pc = "idle"
  BY Idles
<1>6. Orderly => m.proc = mgr[e].proc \/ (m.proc \notin Pids /\ mgr[e].proc \notin Pids)
  OBVIOUS
<1>7. Orderly => (q.pc = "spawn" => m.proc = None) /\ (q.pc \in Early => m.state # "running")
  BY <1>4, <1>5
<1>8. Orderly => (m.state = "running" /\ ~m.attached /\ q.pc # "stopped" => m.proc # None)
  BY <1>4
<1>9. /\ flow[f].pc \notin {"idle", "stopping"} /\ e = flow[f].e
      /\ q = NoFlow \/ (q.e = e /\ q.pc \notin {"idle", "stopping", "same"})
      /\ flow' = [flow EXCEPT ![f] = q]
      /\ file' \in Keys \cup {None, Torn} /\ flaws \subseteq flaws' /\ flaws' \subseteq Flaws
  OBVIOUS
<1>10. TypeOK' /\ Called' /\ Ordered'
  BY ONLY EditorInv, f \in Flows, <1>2, <1>3, <1>6, <1>7, <1>8, <1>9, CallGoes
<1>11. ASSUME file' = file, kind = "worker" /\ "torn" \notin flaws' =>
                /\ q.tag \in Keys => q.tag = file
                /\ q.pc \notin {"repair", "refill", "fill"}
                /\ q.pc = "reread" => file # None
       PROVE  Keyed'
  <2>1. kind = "worker" /\ "torn" \notin flaws' => (m.tag \in Keys => m.tag = file)
    BY DEF EditorInv, Keyed
  <2>2. kind = "worker" /\ "torn" \notin flaws' =>
                /\ q.tag \in Keys => q.tag = file
                /\ m.tag \in Keys => m.tag = file
                /\ q.pc \notin {"repair", "refill", "fill"}
                /\ q.pc = "reread" => file # None
    BY <1>11, <2>1
  <2>3. UNCHANGED <<kind, procs, file>>
    BY <1>3, <1>11
  <2> QED BY ONLY EditorInv, f \in Flows, e \in open, <1>2, <1>9, <2>2, <2>3, KeysStay
<1> QED BY <1>10, <1>11

(* What a call has of the key. *)
LEMMA HasOfKey ==
  ASSUME EditorInv, NEW f \in Flows, kind = "worker", "torn" \notin flaws
  PROVE  /\ flow[f].tag \in Keys => flow[f].tag = file
         /\ flow[f].pc \notin {"repair", "refill"}
         /\ flow[f].pc = "reread" => file # None
         /\ flow[f].pc = "fill" => file = Torn
         /\ \A e \in Editors : mgr[e].tag \in Keys => mgr[e].tag = file
BY DEF EditorInv, Keyed

LEMMA WaitsKeeps ==
  ASSUME EditorInv, NEW f \in Flows, Waits(f) \/ Healthy(f) PROVE EditorInv'
<1>1. flow[f].pc \in {"wait", "health"} /\ UNCHANGED <<kind, procs, mgr, open, file, flaws>>
  BY DEF Waits, Healthy, At
<1>2. flow[f] \in FlowRecords /\ Typed
  BY <1>1, UnderWay, TypedIs DEF EditorInv
<1>3. PICK q \in FlowRecords : /\ q = NoFlow \/ (q.e = flow[f].e /\ q.tag = flow[f].tag /\ q.pc \in {"wait", "health", "again"})
                               /\ flow' = [flow EXCEPT ![f] = q]
  <2>1. ASSUME NEW pc \in {"wait", "health", "again"}, Goes(f, pc)
        PROVE  \E q \in FlowRecords : /\ q.e = flow[f].e /\ q.tag = flow[f].tag /\ q.pc = pc
                                      /\ flow' = [flow EXCEPT ![f] = q]
    <3>1. [flow[f] EXCEPT !.pc = pc] \in FlowRecords
      BY <1>2 DEF FlowRecords, Pcs
    <3>2. flow' = [flow EXCEPT ![f] = [flow[f] EXCEPT !.pc = pc]]
      BY <2>1, <1>2 DEF Goes, Typed
    <3> QED BY <1>2, <3>1, <3>2 DEF FlowRecords
  <2>2. CASE Ends(f)
    BY <2>2, Idles DEF Ends
  <2>3. Ends(f) \/ \E pc \in {"wait", "health", "again"} : Goes(f, pc)
    BY DEF Waits, Healthy
  <2> QED BY <2>1, <2>2, <2>3
<1>4. NoFlow.pc = "idle" /\ NoFlow.tag = None /\ None \notin Keys
  BY Idles
<1>5. q.pc \notin {"stopping", "stopped", "spawn", "same", "repair", "refill", "fill", "reread"} /\ q.pc \notin Early
      /\ (q = NoFlow \/ (q.e = flow[f].e /\ q.pc \notin {"idle", "stopping", "spawn", "same"}))
  BY <1>3, <1>4 DEF Early
<1>6. kind = "worker" /\ "torn" \notin flaws' =>
        /\ q.tag \in Keys => q.tag = file
        /\ q.pc \notin {"repair", "refill", "fill"}
        /\ q.pc = "reread" => file # None
  BY <1>1, <1>3, <1>4, <1>5, HasOfKey
<1>7. /\ flow[f].pc \notin {"idle", "stopping", "stopped"} /\ UNCHANGED <<kind, procs, mgr, open>> /\ file' = file
      /\ file' \in Keys \cup {None, Torn} /\ flaws \subseteq flaws' /\ flaws' \subseteq Flaws
  BY <1>1, <1>2 DEF Typed
<1>8. TypeOK' /\ Called' /\ Ordered' /\ Keyed'
  BY ONLY EditorInv, f \in Flows, <1>3, <1>5, <1>6, <1>7, CallJustGoes
<1> QED BY <1>8 DEF EditorInv

LEMMA NextOf ==
  ASSUME EditorInv, NEW f \in Flows, flow[f].pc # "idle", NEW pc \in Pcs, Goes(f, pc)
  PROVE  \E q \in FlowRecords : /\ q.e = flow[f].e /\ q.tag = flow[f].tag /\ q.pc = pc
                                /\ flow' = [flow EXCEPT ![f] = q]
<1>1. flow[f] \in FlowRecords /\ Typed
  BY UnderWay, TypedIs DEF EditorInv
<1>2. [flow[f] EXCEPT !.pc = pc] \in FlowRecords
  BY <1>1 DEF FlowRecords
<1>3. flow' = [flow EXCEPT ![f] = [flow[f] EXCEPT !.pc = pc]]
  BY <1>1 DEF Goes, Typed
<1> QED BY <1>1, <1>2, <1>3 DEF FlowRecords

(* It goes on, or ends, and has set its manager. *)
LEMMA CallSets ==
  ASSUME EditorInv, NEW f \in Flows, flow[f].pc \notin {"idle", "stopping"}, NEW e, e = flow[f].e,
         NEW q \in FlowRecords, NEW m \in MgrRecords,
         \/ q = NoFlow
         \/ q.e = e /\ q.tag = flow[f].tag /\ q.pc \in {"probe", "spawn", "wait"},
         flow' = [flow EXCEPT ![f] = q], mgr' = [mgr EXCEPT ![e] = m],
         UNCHANGED <<kind, procs, open, file, flaws>>, m.tag \in {mgr[e].tag, flow[f].tag, None},
         Orderly => m.proc = mgr[e].proc \/ (m.proc \notin Pids /\ mgr[e].proc \notin Pids),
         Orderly => (q.pc = "spawn" => m.proc = None) /\ (q.pc = "spawn" => m.state # "running"),
         Orderly => (m.state = "running" /\ ~m.attached => m.proc # None)
  PROVE  EditorInv'
<1>1. NoFlow.pc = "idle" /\ NoFlow.tag = None /\ None \notin Keys
  BY Idles
<1>2. e \in open /\ e \in Editors
  BY UnderWay
<1>3. q.pc \in {"idle", "probe", "spawn", "wait"} /\ q.pc \notin {"repair", "refill", "fill", "reread", "stopped"}
  BY <1>1
<1>4. kind = "worker" /\ "torn" \notin flaws' =>
        /\ q.tag \in Keys => q.tag = file
        /\ m.tag \in Keys => m.tag = file
        /\ q.pc \notin {"repair", "refill", "fill"}
        /\ q.pc = "reread" => file # None
  BY <1>1, <1>2, <1>3, HasOfKey
<1>5. UNCHANGED <<kind, procs, file>> /\ UNCHANGED <<kind, procs, open>> /\ flaws \subseteq flaws'
  OBVIOUS
<1>6. flaws' \subseteq Flaws /\ file' \in Keys \cup {None, Torn}
  BY TypedIs DEF EditorInv, Typed
<1>7. /\ flow' = [flow EXCEPT ![f] = q] /\ mgr' = [mgr EXCEPT ![e] = m]
      /\ flow[f].pc \notin {"idle", "stopping"} /\ e = flow[f].e
  OBVIOUS
<1>8. Keyed'
  BY ONLY EditorInv, f \in Flows, <1>2, <1>4, <1>5, <1>7, KeysStay
<1>9. q = NoFlow \/ (q.e = e /\ q.pc \notin {"idle", "stopping", "same"})
  OBVIOUS
<1>10. Orderly => (q.pc = "spawn" => m.proc = None) /\ (q.pc \in Early => m.state # "running")
  BY <1>3 DEF Early
<1>11. Orderly => m.proc = mgr[e].proc \/ (m.proc \notin Pids /\ mgr[e].proc \notin Pids)
  OBVIOUS
<1>12. Orderly => (m.state = "running" /\ ~m.attached /\ q.pc # "stopped" => m.proc # None)
  OBVIOUS
<1>13. TypeOK' /\ Called' /\ Ordered'
  BY ONLY EditorInv, f \in Flows, <1>5, <1>6, <1>7, <1>9, <1>10, <1>11, <1>12, CallGoes
<1> QED BY <1>8, <1>13 DEF EditorInv

LEMMA HasStoppedSets ==
  ASSUME NEW x \in MgrRecords, NEW m, m = [x EXCEPT !.tag = None, !.state = "stopped"]
  PROVE  m \in MgrRecords /\ m.tag = None /\ m.state = "stopped" /\ m.proc = x.proc
<1>1. None \in Tags
  BY DEF Tags
<1> QED BY <1>1 DEF MgrRecords

LEMMA NoBundleSets ==
  ASSUME NEW x \in MgrRecords, NEW m, m = [x EXCEPT !.state = "error"]
  PROVE  m \in MgrRecords /\ m.tag = x.tag /\ m.state = "error" /\ m.proc = x.proc
BY DEF MgrRecords

LEMMA AttachSets ==
  ASSUME NEW x \in MgrRecords
  PROVE  /\ Attached(x) \in MgrRecords /\ Attached(x).tag = x.tag
         /\ Attached(x).proc = x.proc /\ Attached(x).attached
BY DEF MgrRecords, Attached

LEMMA HasStoppedKeeps == ASSUME EditorInv, NEW f \in Flows, HasStopped(f) PROVE EditorInv'
<1>1. flow[f].pc = "stopped" /\ UNCHANGED <<kind, procs, open, file, flaws>>
  BY DEF HasStopped, At
<1> PICK e \in Editors : e = flow[f].e /\ mgr[e] \in MgrRecords
  BY <1>1, UnderWay
<1>2. PICK m : m = [mgr[e] EXCEPT !.tag = None, !.state = "stopped"] /\ m \in MgrRecords /\ m.tag = None /\ m.state = "stopped" /\ m.proc = mgr[e].proc
  BY HasStoppedSets
<1>3. mgr' = [mgr EXCEPT ![e] = m]
  BY <1>2 DEF HasStopped, Sets, Own
<1>4. PICK q \in FlowRecords : /\ q = NoFlow \/ (q.e = e /\ q.tag = flow[f].tag /\ q.pc = "probe")
                               /\ flow' = [flow EXCEPT ![f] = q]
  BY <1>1, NextOf, Idles DEF HasStopped, Ends, Pcs
<1>5. NoFlow.pc = "idle"
  BY Idles
<1> QED BY <1>1, <1>2, <1>3, <1>4, <1>5, CallSets

LEMMA NoBundleKeeps == ASSUME EditorInv, NEW f \in Flows, NoBundle(f) PROVE EditorInv'
<1>1. flow[f].pc = "spawn" /\ UNCHANGED <<kind, procs, open, file, flaws>>
  BY DEF NoBundle, At
<1> PICK e \in Editors : e = flow[f].e /\ mgr[e] \in MgrRecords
  BY <1>1, UnderWay
<1>2. PICK m : /\ m = [mgr[e] EXCEPT !.state = "error"]
               /\ m \in MgrRecords /\ m.tag = mgr[e].tag /\ m.state = "error" /\ m.proc = mgr[e].proc
  BY NoBundleSets
<1>3. mgr' = [mgr EXCEPT ![e] = m]
  BY <1>2 DEF NoBundle, Sets, Own
<1>4. PICK q \in FlowRecords : q = NoFlow /\ flow' = [flow EXCEPT ![f] = q]
  BY Idles DEF NoBundle, Ends
<1>5. NoFlow.pc = "idle"
  BY Idles
<1> QED BY <1>1, <1>2, <1>3, <1>4, <1>5, CallSets

LEMMA AttachesAgainKeeps == ASSUME EditorInv, NEW f \in Flows, AttachesAgain(f) PROVE EditorInv'
<1>1. flow[f].pc = "again" /\ UNCHANGED <<kind, procs, open, file, flaws>>
  BY DEF AttachesAgain, At
<1> PICK e \in Editors : e = flow[f].e /\ mgr[e] \in MgrRecords
  BY <1>1, UnderWay
<1>2. PICK m \in MgrRecords : /\ m.tag = mgr[e].tag /\ m.proc = mgr[e].proc
                              /\ m.attached \/ m = mgr[e]
                              /\ mgr' = [mgr EXCEPT ![e] = m]
  <2>1. CASE Accepts(flow[f].tag)
    <3>1. Attached(mgr[e]) \in MgrRecords /\ Attached(mgr[e]).tag = mgr[e].tag
          /\ Attached(mgr[e]).proc = mgr[e].proc /\ Attached(mgr[e]).attached
      BY AttachSets
    <3> QED BY <2>1, <3>1 DEF AttachesAgain, Sets, Own
  <2>2. CASE ~Accepts(flow[f].tag)
    BY <2>2, TypedIs DEF AttachesAgain, EditorInv, Typed
  <2> QED BY <2>1, <2>2
<1>3. PICK q \in FlowRecords : q = NoFlow /\ flow' = [flow EXCEPT ![f] = q]
  BY Idles DEF AttachesAgain, Ends
<1>4. NoFlow.pc = "idle"
  BY Idles
<1>5. Orderly => (m.state = "running" /\ ~m.attached => m.proc # None)
  BY <1>1, <1>2, Behind
<1> QED BY <1>1, <1>2, <1>3, <1>4, <1>5, CallSets

(* Probing: attached to what answers, or to spawn, or waiting for a        *)
(* process that the manager has already.                                   *)
LEMMA ProbesKeeps == ASSUME EditorInv, NEW f \in Flows, Probes(f) PROVE EditorInv'
<1>1. flow[f].pc = "probe" /\ UNCHANGED <<kind, procs, open, file, flaws>>
  BY DEF Probes, At
<1> PICK e \in Editors : e = flow[f].e /\ mgr[e] \in MgrRecords /\ flow[f] \in FlowRecords
  BY <1>1, UnderWay
<1> PICK r \in MgrRecords : r = mgr[e]
  OBVIOUS
<1> PICK tag \in Tags : tag = flow[f].tag
  BY FlowFields
<1>2. NoFlow.pc = "idle" /\ NoFlow \in FlowRecords
  BY Idles
<1>3. Orderly => (mgr[e].state = "running" /\ ~mgr[e].attached => mgr[e].proc # None)
  BY <1>1, Behind
<1>4. CASE Ends(f) /\ UNCHANGED mgr
  <2>1. PICK m \in MgrRecords : m = mgr[e] /\ mgr' = [mgr EXCEPT ![e] = m]
    BY <1>4, TypedIs DEF EditorInv, Typed
  <2>2. PICK q \in FlowRecords : q = NoFlow /\ flow' = [flow EXCEPT ![f] = q]
    BY <1>2, <1>4 DEF Ends
  <2> QED BY <1>1, <1>2, <1>3, <2>1, <2>2, CallSets
<1>5. ASSUME Goes(f, "wait"), NEW m \in MgrRecords, mgr' = [mgr EXCEPT ![e] = m],
             m.tag \in {mgr[e].tag, tag}, m.proc = mgr[e].proc,
             Orderly => (m.state = "running" /\ ~m.attached => m.proc # None)
      PROVE  EditorInv'
  <2>1. PICK q \in FlowRecords : /\ q.e = e /\ q.tag = flow[f].tag /\ q.pc = "wait"
                                 /\ flow' = [flow EXCEPT ![f] = q]
    BY <1>1, <1>5, NextOf DEF Pcs
  <2> QED BY <1>1, <1>5, <2>1, CallSets
<1>6. CASE Goes(f, "wait") /\ UNCHANGED mgr
  <2>1. PICK m \in MgrRecords : m = mgr[e] /\ mgr' = [mgr EXCEPT ![e] = m]
    BY <1>6, TypedIs DEF EditorInv, Typed
  <2> QED BY <1>3, <1>5, <1>6, <2>1
<1>7. CASE Goes(f, "wait") /\ Sets(f, [Attached(Own(f)) EXCEPT !.tag = tag])
  <2>1. PICK m : m = [Attached(r) EXCEPT !.tag = tag]
    OBVIOUS
  <2>2. m \in MgrRecords /\ m.tag = tag /\ m.proc = mgr[e].proc /\ m.attached
    BY ONLY r \in MgrRecords, r = mgr[e], tag \in Tags, <2>1 DEF MgrRecords, Attached
  <2>3. mgr' = [mgr EXCEPT ![e] = m]
    BY <1>7, <2>1 DEF Sets, Own
  <2> QED BY <1>5, <1>7, <2>2, <2>3
<1>8. CASE mgr[e].proc # None /\ Goes(f, "wait") /\ Sets(f, [Own(f) EXCEPT !.attached = FALSE, !.tag = tag])
  <2>1. PICK m : m = [r EXCEPT !.attached = FALSE, !.tag = tag]
    OBVIOUS
  <2>2. m \in MgrRecords /\ m.tag = tag /\ m.proc = mgr[e].proc
    BY ONLY r \in MgrRecords, r = mgr[e], tag \in Tags, <2>1 DEF MgrRecords
  <2>3. mgr' = [mgr EXCEPT ![e] = m]
    BY <1>8, <2>1 DEF Sets, Own
  <2> QED BY <1>5, <1>8, <2>2, <2>3
<1>9. CASE /\ mgr[e].proc = None /\ Goes(f, "spawn")
           /\ Sets(f, [Own(f) EXCEPT !.attached = FALSE, !.tag = tag, !.state = "starting"])
  <2>1. PICK m : m = [r EXCEPT !.attached = FALSE, !.tag = tag, !.state = "starting"]
    OBVIOUS
  <2>2. m \in MgrRecords /\ m.tag = tag /\ m.proc = mgr[e].proc /\ m.state = "starting"
    BY ONLY r \in MgrRecords, r = mgr[e], tag \in Tags, <2>1 DEF MgrRecords
  <2>3. mgr' = [mgr EXCEPT ![e] = m]
    BY <1>9, <2>1 DEF Sets, Own
  <2>4. PICK q \in FlowRecords : /\ q.e = e /\ q.tag = flow[f].tag /\ q.pc = "spawn"
                                 /\ flow' = [flow EXCEPT ![f] = q]
    BY <1>1, <1>9, NextOf DEF Pcs
  <2> QED BY <1>1, <1>9, <2>2, <2>3, <2>4, CallSets
<1>10. \/ Ends(f) /\ UNCHANGED mgr
       \/ Goes(f, "wait") /\ UNCHANGED mgr
       \/ Goes(f, "wait") /\ Sets(f, [Attached(Own(f)) EXCEPT !.tag = tag])
       \/ mgr[e].proc # None /\ Goes(f, "wait") /\ Sets(f, [Own(f) EXCEPT !.attached = FALSE, !.tag = tag])
       \/ /\ mgr[e].proc = None /\ Goes(f, "spawn")
          /\ Sets(f, [Own(f) EXCEPT !.attached = FALSE, !.tag = tag, !.state = "starting"])
  <2> DEFINE mine == [r EXCEPT !.attached = FALSE, !.tag = tag]
  <2>1. Own(f) = r BY DEF Own
  <2>2. mine.proc = mgr[e].proc
    BY ONLY r \in MgrRecords, r = mgr[e] DEF MgrRecords
  <2>3. [mine EXCEPT !.state = "starting"] = [r EXCEPT !.attached = FALSE, !.tag = tag, !.state = "starting"]
    OBVIOUS
  <2>4. \/ Ends(f) /\ UNCHANGED mgr
        \/ Goes(f, "wait") /\ UNCHANGED mgr
        \/ Goes(f, "wait") /\ Sets(f, [Attached(Own(f)) EXCEPT !.tag = tag])
        \/ IF mine.proc # None THEN Goes(f, "wait") /\ Sets(f, mine)
           ELSE Goes(f, "spawn") /\ Sets(f, [mine EXCEPT !.state = "starting"])
    BY <2>1 DEF Probes
  <2> HIDE DEF mine
  <2>5. CASE mine.proc # None BY <2>1, <2>2, <2>4, <2>5 DEF mine
  <2>6. CASE mine.proc = None BY <2>1, <2>2, <2>3, <2>4, <2>6 DEF mine
  <2> QED BY <2>5, <2>6
<1> QED BY <1>4, <1>6, <1>7, <1>8, <1>9, <1>10

-----------------------------------------------------------------------------
(* The key.                                                                *)
LEMMA HasKeyFacts ==
  ASSUME EditorInv, NEW f \in Flows, NEW e, e = flow[f].e, flow[f].pc # "idle", NEW key \in Keys, HasKey(f, key)
  PROVE  /\ \E q : /\ q \in FlowRecords /\ q.e = e /\ q.tag = key /\ q.pc = "probe"
                   /\ flow' = [flow EXCEPT ![f] = q]
         /\ \E m : /\ m \in MgrRecords /\ m.tag = key /\ m.proc = mgr[e].proc /\ m.state = mgr[e].state
                   /\ m.attached = mgr[e].attached /\ mgr' = [mgr EXCEPT ![e] = m]
<1> PICK r \in MgrRecords, s \in FlowRecords : r = mgr[e] /\ s = flow[f]
  BY UnderWay
<1>1. Typed /\ key \in Tags
  BY TypedIs DEF EditorInv, Tags
<1>2. PICK q : q = [s EXCEPT !.tag = key, !.pc = "probe"]
  OBVIOUS
<1>3. q \in FlowRecords /\ q.e = s.e /\ q.tag = key /\ q.pc = "probe"
  BY <1>1, <1>2 DEF FlowRecords, Pcs
<1>4. PICK m : m = [r EXCEPT !.tag = key]
  OBVIOUS
<1>5. m \in MgrRecords /\ m.tag = key /\ m.proc = r.proc /\ m.state = r.state /\ m.attached = r.attached
  BY <1>1, <1>4 DEF MgrRecords
<1>6. flow' = [flow EXCEPT ![f] = q]
  <2>1. flow' = [flow EXCEPT ![f].tag = key, ![f].pc = "probe"]
    BY DEF HasKey
  <2> QED BY <1>1, <1>2, <2>1 DEF Typed
<1>7. mgr' = [mgr EXCEPT ![e] = m]
  BY <1>4 DEF HasKey, Sets, Own
<1> QED BY <1>3, <1>5, <1>6, <1>7

LEMMA ReadsKeyKeeps == ASSUME EditorInv, NEW f \in Flows, ReadsKey(f) PROVE EditorInv'
<1>1. flow[f].pc \in {"read", "reread"} /\ UNCHANGED <<kind, procs, open, file>>
      /\ flaws' = IF file = Torn THEN flaws \cup {"torn"} ELSE flaws
  BY DEF ReadsKey
<1> PICK e \in open : e = flow[f].e /\ e \in Editors /\ mgr[e] \in MgrRecords
  BY <1>1, UnderWay
<1>2. Typed /\ file \in Keys \cup {None, Torn} /\ flaws' \subseteq Flaws /\ flaws \subseteq flaws'
  BY <1>1, TypedIs DEF EditorInv, Typed, Flaws
<1>3. NoFlow.pc = "idle" /\ None \notin Keys
  BY Idles
<1>4. CASE file \in Keys
  <2>1. PICK q, m : /\ q \in FlowRecords /\ q.e = e /\ q.tag = file /\ q.pc = "probe"
                    /\ flow' = [flow EXCEPT ![f] = q]
                    /\ m \in MgrRecords /\ m.tag = file /\ m.proc = mgr[e].proc /\ m.state = mgr[e].state
                    /\ m.attached = mgr[e].attached /\ mgr' = [mgr EXCEPT ![e] = m]
    BY <1>1, <1>4, HasKeyFacts DEF ReadsKey
  <2>2. /\ Orderly => (m.state = "running" /\ ~m.attached => m.proc # None)
        /\ q.pc \notin Early
    BY <1>1, <2>1, Behind DEF Early
  <2>3. TypeOK' /\ Called' /\ Ordered'
    BY <1>1, <1>2, <2>1, <2>2, CallGoes
  <2>4. Keyed'
    BY <1>1, <1>2, <2>1, KeysStay
  <2> QED BY <2>3, <2>4 DEF EditorInv
<1>5. CASE file \notin Keys
  <2>1. PICK pc \in {"create", "repair"} : /\ Goes(f, pc) /\ mgr' = mgr
                                           /\ pc = "create" <=> (file = None /\ flow[f].pc = "read")
    BY <1>5 DEF ReadsKey, At
  <2>2. PICK q \in FlowRecords : /\ q.e = flow[f].e /\ q.tag = flow[f].tag /\ q.pc = pc
                                 /\ flow' = [flow EXCEPT ![f] = q]
    BY <1>1, <2>1, NextOf DEF Pcs
  <2>3. kind = "worker" /\ "torn" \notin flaws' =>
          /\ q.tag \in Keys => q.tag = file
          /\ q.pc \notin {"repair", "refill", "fill"}
          /\ q.pc = "reread" => file # None
    BY <1>1, <1>2, <1>5, <2>1, <2>2, HasOfKey
  <2>4. /\ flow[f].pc \notin {"idle", "stopping", "stopped"} /\ q.pc \notin {"idle", "stopping", "spawn", "same"}
        /\ (q.pc \in Early => flow[f].pc \in Early) /\ UNCHANGED <<kind, procs, mgr, open>> /\ file' = file
        /\ file' \in Keys \cup {None, Torn}
    BY <1>1, <1>2, <2>1, <2>2 DEF Early
  <2>5. TypeOK' /\ Called' /\ Ordered' /\ Keyed'
    BY ONLY EditorInv, f \in Flows, <1>2, <2>2, <2>3, <2>4, CallJustGoes
  <2> QED BY <2>5 DEF EditorInv
<1> QED BY <1>4, <1>5

LEMMA CreatesKeyKeeps == ASSUME EditorInv, NEW f \in Flows, CreatesKey(f) PROVE EditorInv'
<1>1. flow[f].pc = "create" /\ UNCHANGED <<kind, procs, mgr, open, flaws>>
  BY DEF CreatesKey, At
<1>2. Typed /\ flaws' \subseteq Flaws /\ flaws \subseteq flaws'
  BY <1>1, TypedIs DEF EditorInv, Typed
<1>3. PICK pc \in {"fill", "reread"} : /\ Goes(f, pc)
                                       /\ pc = "fill" => file = None /\ file' = Torn
                                       /\ pc = "reread" => file # None /\ file' = file
  BY DEF CreatesKey
<1>4. PICK q \in FlowRecords : /\ q.e = flow[f].e /\ q.tag = flow[f].tag /\ q.pc = pc
                               /\ flow' = [flow EXCEPT ![f] = q]
  BY <1>1, <1>3, NextOf DEF Pcs
<1>5. /\ flow[f].pc \notin {"idle", "stopping", "stopped"} /\ q.pc \notin {"idle", "stopping", "spawn", "same"}
      /\ (q.pc \in Early => flow[f].pc \in Early) /\ UNCHANGED <<kind, procs, mgr, open>>
      /\ file' \in Keys \cup {None, Torn}
  BY <1>1, <1>2, <1>3, <1>4 DEF Early, Typed
<1>6. /\ TypeOK' /\ Called' /\ Ordered'
      /\ file' = file /\ (kind = "worker" /\ "torn" \notin flaws' =>
              /\ q.tag \in Keys => q.tag = file
              /\ q.pc \notin {"repair", "refill", "fill"}
              /\ q.pc = "reread" => file # None) => Keyed'
  BY ONLY EditorInv, f \in Flows, <1>2, <1>4, <1>5, CallJustGoes
<1>7. Keyed'
  <2>1. CASE pc = "reread"
    BY <1>1, <1>3, <1>4, <1>6, <2>1, HasOfKey
  <2>2. CASE pc = "fill"
    <3> SUFFICES ASSUME kind = "worker", "torn" \notin flaws PROVE Keyed'
      BY <1>1 DEF Keyed
    <3>1. file = None /\ file' = Torn /\ None \notin Keys /\ Torn # None
      BY <1>3, <2>2, Idles, RuntimeAssumption DEF RuntimeAssumption
    <3>2. /\ \A e \in Editors : mgr[e].tag \notin Keys
          /\ \A p \in Pids : procs[p].tag \notin Keys
          /\ \A g \in Flows : /\ flow[g].tag \notin Keys
                              /\ flow[g].pc \notin {"repair", "refill", "reread", "fill"}
      BY <3>1 DEF EditorInv, Keyed
    <3>3. \A g \in Flows : flow'[g] = IF g = f THEN q ELSE flow[g]
      BY <1>2, <1>4 DEF Typed
    <3>4. q.tag \notin Keys /\ q.pc = "fill"
      BY <1>4, <2>2, <3>2
    <3> QED BY <1>1, <3>1, <3>2, <3>3, <3>4 DEF Keyed
  <2> QED BY <2>1, <2>2
<1> QED BY <1>6, <1>7 DEF EditorInv

LEMMA RepairsKeyKeeps == ASSUME EditorInv, NEW f \in Flows, RepairsKey(f) PROVE EditorInv'
<1>1. flow[f].pc = "repair" /\ UNCHANGED <<kind, procs, mgr, open, flaws>> /\ file' = Torn /\ Goes(f, "refill")
  BY DEF RepairsKey, At
<1>2. Typed /\ flaws' \subseteq Flaws /\ flaws \subseteq flaws'
  BY <1>1, TypedIs DEF EditorInv, Typed
<1>3. PICK q \in FlowRecords : /\ q.e = flow[f].e /\ q.tag = flow[f].tag /\ q.pc = "refill"
                               /\ flow' = [flow EXCEPT ![f] = q]
  BY <1>1, NextOf DEF Pcs
<1>4. /\ flow[f].pc \notin {"idle", "stopping", "stopped"} /\ q.pc \notin {"idle", "stopping", "spawn", "same"}
      /\ (q.pc \in Early => flow[f].pc \in Early) /\ UNCHANGED <<kind, procs, mgr, open>>
      /\ file' \in Keys \cup {None, Torn}
  BY <1>1, <1>2, <1>3 DEF Early, Typed
<1>5. TypeOK' /\ Called' /\ Ordered'
  BY ONLY EditorInv, f \in Flows, <1>2, <1>3, <1>4, CallJustGoes
<1>6. ~(kind = "worker" /\ "torn" \notin flaws)
  BY <1>1, HasOfKey
<1> QED BY <1>1, <1>5, <1>6 DEF EditorInv, Keyed

LEMMA FillsKeyKeeps == ASSUME EditorInv, NEW f \in Flows, FillsKey(f) PROVE EditorInv'
<1>1. flow[f].pc \in {"fill", "refill"} /\ file' = flow[f].e /\ HasKey(f, flow[f].e)
      /\ UNCHANGED <<kind, procs, open, flaws>>
  BY DEF FillsKey
<1> PICK e \in open : e = flow[f].e /\ e \in Editors /\ mgr[e] \in MgrRecords
  BY <1>1, UnderWay
<1>2. Typed /\ flaws' \subseteq Flaws /\ flaws \subseteq flaws' /\ e \in Keys /\ file' \in Keys \cup {None, Torn}
  BY <1>1, TypedIs DEF EditorInv, Typed, Keys
<1>3. NoFlow.pc = "idle" /\ None \notin Keys /\ Torn \notin Keys
  BY Idles, RuntimeAssumption DEF RuntimeAssumption, Keys
<1>4. PICK q, m : /\ q \in FlowRecords /\ q.e = e /\ q.tag = e /\ q.pc = "probe"
                  /\ flow' = [flow EXCEPT ![f] = q]
                  /\ m \in MgrRecords /\ m.tag = e /\ m.proc = mgr[e].proc /\ m.state = mgr[e].state
                  /\ m.attached = mgr[e].attached /\ mgr' = [mgr EXCEPT ![e] = m]
  BY <1>1, <1>2, HasKeyFacts
<1>5. /\ Orderly => (m.state = "running" /\ ~m.attached => m.proc # None)
      /\ q.pc \notin Early
  BY <1>1, <1>4, Behind DEF Early
<1>6. TypeOK' /\ Called' /\ Ordered'
  BY <1>1, <1>2, <1>4, <1>5, CallGoes
<1>7. Keyed'
  <2> SUFFICES ASSUME kind = "worker", "torn" \notin flaws PROVE Keyed'
    BY <1>1 DEF Keyed
  <2>1. flow[f].pc = "fill" /\ file = Torn
    BY <1>1, HasOfKey
  <2>2. /\ \A d \in Editors : mgr[d].tag \notin Keys
        /\ \A p \in Pids : procs[p].tag \notin Keys
        /\ \A g \in Flows : flow[g].tag \notin Keys /\ flow[g].pc \notin {"repair", "refill"}
        /\ \A g \in Flows \ {f} : flow[g].pc # "fill"
    BY <1>3, <2>1 DEF EditorInv, Keyed
  <2>3. \A g \in Flows : flow'[g] = IF g = f THEN q ELSE flow[g]
    BY <1>2, <1>4 DEF Typed
  <2>4. \A d \in Editors : mgr'[d] = IF d = e THEN m ELSE mgr[d]
    BY <1>2, <1>4 DEF Typed
  <2>5. file' = e /\ e # None /\ procs' = procs
    BY <1>1, <1>2, <1>3
  <2> QED BY <1>4, <2>2, <2>3, <2>4, <2>5 DEF Keyed
<1> QED BY <1>6, <1>7 DEF EditorInv

-----------------------------------------------------------------------------
(* Calls, as they come.                                                    *)
LEMMA BeginsFacts ==
  ASSUME EditorInv, NEW f \in Flows, NEW e, flow[f].pc = "idle", e \in open
  PROVE  flow[f].e = None /\ e \in Editors /\ mgr[e] \in MgrRecords /\ None \in Tags /\ None \notin Keys /\ Typed
BY TypedIs, Idles DEF EditorInv, Called, Typed

LEMMA StartsWorkerKeeps ==
  ASSUME EditorInv, NEW f \in Flows, NEW e \in Editors, StartsWorker(f, e) PROVE EditorInv'
<1>1. /\ flow[f].pc = "idle" /\ e \in open
      /\ flow' = [flow EXCEPT ![f] = [e |-> e, tag |-> None, pc |-> "read", on |-> None]]
      /\ flaws' = IF Busy(e) THEN flaws \cup {"overlap"} ELSE flaws
      /\ UNCHANGED <<kind, procs, mgr, open, file>>
  BY DEF StartsWorker, Begins, At
<1>2. None \in Tags /\ None \notin Keys
  BY <1>1, BeginsFacts
<1>3. "read" \notin Early
  BY DEF Early
<1> QED BY <1>1, <1>2, <1>3, Began

LEMMA AwaitsMcpKeeps ==
  ASSUME EditorInv, NEW f \in Flows, NEW e \in Editors, AwaitsMcp(f, e) PROVE EditorInv'
<1>1. /\ flow[f].pc = "idle" /\ e \in open /\ kind = "mcp"
      /\ flow' = [flow EXCEPT ![f] = [e |-> e, tag |-> mgr[e].tag, pc |-> "wait", on |-> None]]
      /\ flaws' = IF Busy(e) THEN flaws \cup {"overlap"} ELSE flaws
      /\ UNCHANGED <<kind, procs, mgr, open, file>>
  BY DEF AwaitsMcp, Begins, At
<1> PICK tag \in Tags : tag = mgr[e].tag
  BY <1>1, BeginsFacts, MgrFields
<1>2. "wait" \notin Early /\ kind # "worker"
  BY <1>1 DEF Early
<1> QED BY <1>1, <1>2, Began

LEMMA McpCallsKeep ==
  ASSUME EditorInv, NEW f \in Flows, NEW e \in Editors,
         LeavesFolder(f, e) \/ (\E root \in Folders : StartsMcp(f, e, root))
  PROVE  EditorInv'
<1>1. /\ flow[f].pc = "idle" /\ e \in open /\ kind = "mcp" /\ UNCHANGED <<kind, open, file>>
      /\ flaws' = IF Busy(e) THEN flaws \cup {"overlap"} ELSE flaws
  BY DEF LeavesFolder, StartsMcp, Overlaps, At
<1>2. flow[f].e = None /\ None \in Tags /\ Typed /\ mgr[e] \in MgrRecords
  BY <1>1, BeginsFacts
<1>3. flaws \subseteq flaws' /\ flaws' \subseteq Flaws
  BY <1>1, <1>2 DEF Typed, Flaws
<1>4. Orderly' => \A g \in Flows \ {f} : flow[g].e # e
  BY <1>1 DEF Orderly, Busy
<1>5. flow[f].e \in {e, None} /\ flow[f].pc \in {"idle", "same"}
  BY <1>1, <1>2
<1>6. CASE LeavesFolder(f, e)
  <2>1. Stops(e, f, None, "idle")
    BY <1>6 DEF LeavesFolder
  <2> QED BY <1>1, <1>2, <1>3, <1>4, <1>5, <2>1, StopsKeeps
<1>7. ASSUME NEW root \in Folders, StartsMcp(f, e, root) PROVE EditorInv'
  <2>1. root \in Tags
    BY DEF Tags
  <2>2. CASE mgr[e].state = "running" /\ mgr[e].tag = root
    <3>1. flow' = [flow EXCEPT ![f] = [e |-> e, tag |-> root, pc |-> "same", on |-> None]]
          /\ UNCHANGED <<mgr, procs>>
      BY <1>7, <2>2 DEF StartsMcp
    <3>2. "same" \notin Early /\ kind # "worker"
      BY <1>1 DEF Early
    <3>3. UNCHANGED <<kind, procs, mgr, open, file>>
      BY <1>1, <3>1
    <3> QED BY <1>1, <2>1, <3>1, <3>2, <3>3, Began
  <2>3. CASE ~(mgr[e].state = "running" /\ mgr[e].tag = root) /\ (mgr[e].state = "running" \/ mgr[e].proc # None)
    <3>1. Stops(e, f, root, "probe")
      BY <1>7, <2>3 DEF StartsMcp
    <3> QED BY <1>1, <2>1, <1>3, <1>4, <1>5, <3>1, StopsKeeps
  <2>4. CASE mgr[e].state # "running" /\ mgr[e].proc = None
    <3>1. flow' = [flow EXCEPT ![f] = [e |-> e, tag |-> root, pc |-> "probe", on |-> None]]
          /\ UNCHANGED <<mgr, procs>>
      BY <1>7, <2>4 DEF StartsMcp
    <3>2. UNCHANGED <<kind, procs, mgr, open, file>> /\ kind # "worker"
      BY <1>1, <3>1
    <3> QED BY <1>1, <2>1, <2>4, <3>1, <3>2, Began
  <2> QED BY <2>2, <2>3, <2>4
<1> QED BY <1>6, <1>7

LEMMA FindsSameKeeps == ASSUME EditorInv, NEW f \in Flows, FindsSame(f) PROVE EditorInv'
<1>1. flow[f].pc = "same" /\ kind = "mcp" /\ UNCHANGED <<kind, open, file, flaws>>
  BY DEF FindsSame, At, EditorInv, Called
<1> PICK e \in open : e = flow[f].e /\ e \in Editors /\ flow[f] \in FlowRecords
  BY <1>1, UnderWay
<1> PICK tag \in Tags : tag = flow[f].tag
  BY FlowFields
<1>2. flaws \subseteq flaws' /\ flaws' \subseteq Flaws /\ file' \in Keys \cup {None, Torn}
  BY <1>1, TypedIs DEF EditorInv, Typed
<1>3. CASE Reachable
  <2>1. Goes(f, "wait") /\ UNCHANGED <<mgr, procs>>
    BY <1>3 DEF FindsSame
  <2>2. PICK q \in FlowRecords : /\ q.e = flow[f].e /\ q.tag = flow[f].tag /\ q.pc = "wait"
                                 /\ flow' = [flow EXCEPT ![f] = q]
    BY <1>1, <2>1, NextOf DEF Pcs
  <2>3. q.pc \notin Early /\ q.pc \notin {"idle", "stopping", "spawn", "same"}
        /\ flow[f].pc \notin {"idle", "stopping", "stopped"} /\ UNCHANGED <<kind, procs, mgr, open>>
    BY <1>1, <2>1, <2>2 DEF Early
  <2>4. TypeOK' /\ Called' /\ Ordered'
    BY ONLY EditorInv, f \in Flows, <1>2, <2>2, <2>3, CallJustGoes
  <2>5. Keyed'
    BY <1>1 DEF Keyed
  <2> QED BY <2>4, <2>5 DEF EditorInv
<1>4. CASE ~Reachable
  <2>1. Stops(e, f, tag, "probe") /\ UNCHANGED <<kind, open, file>>
    BY <1>1, <1>4 DEF FindsSame
  <2>2. Orderly' => \A g \in Flows \ {f} : flow[g].e # e
    BY <1>1, UnderWay DEF Orderly
  <2>3. flow[f].e \in {e, None} /\ flow[f].pc \in {"idle", "same"}
    BY <1>1
  <2> QED BY <1>1, <1>2, <2>1, <2>2, <2>3, StopsKeeps
<1> QED BY <1>3, <1>4

-----------------------------------------------------------------------------
(* A process is spawned: no other of its editor is there, since the call   *)
(* has found the manager without one.                                      *)
LEMMA SpawnsKeeps == ASSUME EditorInv, NEW f \in Flows, Spawns(f) PROVE EditorInv'
<1>1. flow[f].pc = "spawn" /\ UNCHANGED <<kind, open, file, flaws>>
  BY DEF Spawns, At
<1> PICK e \in open : e = flow[f].e /\ e \in Editors /\ flow[f] \in FlowRecords
                      /\ (Orderly => \A g \in Flows \ {f} : flow[g].e # e)
  BY <1>1, UnderWay
<1> PICK r \in MgrRecords : r = mgr[e]
  BY <1>1, UnderWay
<1> PICK tag \in Tags : tag = flow[f].tag
  BY FlowFields
<1>2. Typed /\ e # None /\ None \notin Pids /\ Ghost \notin Pids
  BY TypedIs, RuntimeAssumption DEF EditorInv, Typed, RuntimeAssumption
<1>3. Orderly => mgr[e].proc = None
  BY <1>1, Behind
<1>4. CASE /\ Goes(f, "wait") /\ Sets(f, [Own(f) EXCEPT !.proc = Ghost, !.state = "error"])
           /\ UNCHANGED procs
  <2>1. PICK m : m = [r EXCEPT !.proc = Ghost, !.state = "error"]
    OBVIOUS
  <2>2. m \in MgrRecords /\ m.proc = Ghost /\ m.state = "error" /\ m.tag = r.tag
    BY ONLY r \in MgrRecords, <2>1 DEF MgrRecords
  <2>3. mgr' = [mgr EXCEPT ![e] = m]
    BY <1>4, <2>1 DEF Sets, Own
  <2>4. PICK q \in FlowRecords : /\ q.e = e /\ q.tag = flow[f].tag /\ q.pc = "wait"
                                 /\ flow' = [flow EXCEPT ![f] = q]
    BY <1>1, <1>4, NextOf DEF Pcs
  <2> QED BY <1>1, <1>2, <1>3, <1>4, <2>2, <2>3, <2>4, CallSets
<1>5. ASSUME NEW p \in Pids, procs[p].stage = "none",
             procs' = [procs EXCEPT ![p] = [stage |-> "starting", by |-> e, tag |-> tag]],
             Goes(f, "wait"), Sets(f, [Own(f) EXCEPT !.proc = p, !.state = "running"])
      PROVE  EditorInv'
  <2>1. PICK m : m = [r EXCEPT !.proc = p, !.state = "running"]
    OBVIOUS
  <2>2. m \in MgrRecords /\ m.proc = p /\ m.tag = r.tag
    BY ONLY r \in MgrRecords, p \in Pids, <2>1 DEF MgrRecords
  <2>3. mgr' = [mgr EXCEPT ![e] = m]
    BY <1>5, <2>1 DEF Sets, Own
  <2>4. PICK q \in FlowRecords : /\ q.e = e /\ q.tag = flow[f].tag /\ q.pc = "wait"
                                 /\ flow' = [flow EXCEPT ![f] = q]
    BY <1>1, <1>5, NextOf DEF Pcs
  <2>5. PICK v \in ProcRecords : v = [stage |-> "starting", by |-> e, tag |-> tag]
    BY DEF ProcRecords, Stages
  <2>6. v.stage = "starting" /\ v.by = e /\ v.tag = tag /\ procs' = [procs EXCEPT ![p] = v]
    BY <1>5, <2>5
  <2>7. /\ flow' \in [Flows -> FlowRecords] /\ flow'[f] = q /\ \A g \in Flows \ {f} : flow'[g] = flow[g]
        /\ mgr' \in [Editors -> MgrRecords] /\ mgr'[e] = m /\ \A d \in Editors \ {e} : mgr'[d] = mgr[d]
        /\ procs' \in [Pids -> ProcRecords] /\ procs'[p] = v /\ \A o \in Pids \ {p} : procs'[o] = procs[o]
    BY <1>2, <2>2, <2>3, <2>4, <2>6 DEF Typed
  <2>8. TypeOK'
    BY <1>1, <1>2, <2>7, TypedIs DEF Typed
  <2>9. Called'
    BY <1>1, <1>2, <2>4, <2>7 DEF EditorInv, Called
  <2>10. Keyed'
    <3> SUFFICES ASSUME kind = "worker", "torn" \notin flaws PROVE Keyed'
      BY <1>1 DEF Keyed
    <3>1. /\ \A d \in Editors : mgr[d].tag \in Keys => mgr[d].tag = file
          /\ \A o \in Pids : procs[o].tag \in Keys => procs[o].tag = file
          /\ \A g \in Flows : /\ flow[g].tag \in Keys => flow[g].tag = file
                              /\ flow[g].pc \notin {"repair", "refill"}
                              /\ flow[g].pc = "reread" => file # None
                              /\ flow[g].pc = "fill" => file = Torn
          /\ \A g, h \in Flows : flow[g].pc = "fill" /\ flow[h].pc = "fill" => g = h
      BY DEF EditorInv, Keyed
    <3>2. \A d \in Editors : mgr'[d].tag = mgr[d].tag
      BY <2>2, <2>7
    <3>3. \A o \in Pids : procs'[o].tag \in Keys => procs'[o].tag = file
      BY <2>6, <2>7, <3>1
    <3>4. \A g \in Flows : flow'[g].tag = flow[g].tag /\ (g # f => flow'[g].pc = flow[g].pc)
      BY <2>4, <2>7
    <3>5. flow'[f].pc = "wait" /\ file' = file
      BY <1>1, <2>4, <2>7
    <3> QED BY <3>1, <3>2, <3>3, <3>4, <3>5 DEF Keyed
  <2>11. ASSUME Orderly' PROVE Alone' /\ AtPoint' /\ Known' /\ Mine' /\ Backed'
    <3>1. Orderly /\ Alone /\ AtPoint /\ Known /\ Mine /\ Backed
      BY <1>1, <2>11 DEF Orderly, EditorInv, Ordered
    <3>2. mgr[e].proc = None /\ \A g \in Flows \ {f} : flow[g].e # e
      BY <1>3, <3>1
    <3>3. \A o \in Pids : procs[o].stage # "none" => procs[o].by # e
      <4> SUFFICES ASSUME NEW o \in Pids, procs[o].stage # "none", procs[o].by = e PROVE FALSE
        OBVIOUS
      <4>1. \E g \in Flows : flow[g].e = e /\ flow[g].pc = "stopping" /\ flow[g].on = o
        BY <1>2, <3>1, <3>2 DEF Known
      <4> QED BY <1>1, <3>2, <4>1
    <3>4. \A d \in Editors \ {e}, g \in Flows : flow'[g].e = d => g # f /\ flow'[g] = flow[g]
      BY <2>4, <2>7
    <3>5. Alone'
      BY <2>4, <2>7, <3>1, <3>2 DEF Alone
    <3>6. AtPoint'
      <4> SUFFICES ASSUME NEW g \in Flows, NEW d \in Editors, flow'[g].e = d
          PROVE  /\ flow'[g].pc = "stopping" => /\ mgr'[d].proc = None /\ flow'[g].on \in Pids
                                                /\ procs'[flow'[g].on].by = d /\ procs'[flow'[g].on].stage \in Gone
                 /\ flow'[g].pc = "spawn" => mgr'[d].proc = None
                 /\ flow'[g].pc \in Early => mgr'[d].state # "running"
        BY DEF AtPoint, Ended
      <4>1. CASE g = f
        BY <2>4, <2>7, <4>1 DEF Early
      <4>2. CASE g # f
        <5>1. flow'[g] = flow[g] /\ d # e /\ mgr'[d] = mgr[d]
          BY <2>7, <3>2, <4>2
        <5>2. /\ flow[g].pc = "stopping" => /\ mgr[d].proc = None /\ flow[g].on \in Pids
                                            /\ procs[flow[g].on].by = d /\ procs[flow[g].on].stage \in Gone
              /\ flow[g].pc = "spawn" => mgr[d].proc = None
              /\ flow[g].pc \in Early => mgr[d].state # "running"
          BY <3>1, <5>1 DEF AtPoint, Ended
        <5>3. procs[p].stage \notin Gone
          BY <1>5 DEF Gone
        <5> QED BY <2>7, <5>1, <5>2, <5>3
      <4> QED BY <4>1, <4>2
    <3>7. Known'
      <4> SUFFICES ASSUME NEW o \in Pids, NEW d, d = procs'[o].by, procs'[o].stage # "none", d \in open
          PROVE  mgr'[d].proc = o \/ \E g \in Flows : flow'[g].e = d /\ flow'[g].pc = "stopping" /\ flow'[g].on = o
        BY <1>1 DEF Known
      <4>1. CASE o = p
        BY <2>2, <2>6, <2>7, <4>1
      <4>2. CASE o # p
        <5>1. procs[o].stage # "none" /\ d = procs[o].by /\ d # e /\ d \in Editors
          BY <1>2, <2>7, <3>3, <4>2 DEF Typed
        <5>2. mgr[d].proc = o \/ \E g \in Flows : flow[g].e = d /\ flow[g].pc = "stopping" /\ flow[g].on = o
          BY <3>1, <5>1 DEF Known
        <5>3. ASSUME NEW g \in Flows, flow[g].pc = "stopping" PROVE flow'[g] = flow[g]
          BY <1>1, <2>7, <5>3
        <5> QED BY <2>7, <5>1, <5>2, <5>3
      <4> QED BY <4>1, <4>2
    <3>8. Mine'
      <4> SUFFICES ASSUME NEW d \in open, mgr'[d].proc \in Pids
          PROVE  procs'[mgr'[d].proc].stage # "none" /\ procs'[mgr'[d].proc].by = d
        BY <1>1 DEF Mine
      <4>1. CASE d = e
        BY <2>2, <2>6, <2>7, <4>1
      <4>2. CASE d # e
        <5>1. mgr'[d] = mgr[d] /\ d \in Editors
          BY <1>2, <2>7, <4>2 DEF Typed
        <5>2. procs[mgr[d].proc].stage # "none" /\ procs[mgr[d].proc].by = d
          BY <3>1, <5>1 DEF Mine
        <5> QED BY <1>5, <2>7, <5>1, <5>2
      <4> QED BY <4>1, <4>2
    <3>9. Backed'
      <4> SUFFICES ASSUME NEW d \in open, mgr'[d].state = "running", ~mgr'[d].attached
          PROVE  mgr'[d].proc # None \/ \E g \in Flows : flow'[g].e = d /\ flow'[g].pc \in {"stopping", "stopped"}
        BY <1>1 DEF Backed
      <4>1. CASE d = e
        BY <2>2, <2>7, <4>1, RuntimeAssumption DEF RuntimeAssumption
      <4>2. CASE d # e
        <5>1. mgr'[d] = mgr[d]
          BY <1>2, <2>7, <4>2 DEF Typed
        <5>2. mgr[d].proc # None \/ \E g \in Flows : flow[g].e = d /\ flow[g].pc \in {"stopping", "stopped"}
          BY <3>1, <5>1 DEF Backed
        <5>3. ASSUME NEW g \in Flows, flow[g].pc \in {"stopping", "stopped"} PROVE flow'[g] = flow[g]
          BY <1>1, <2>7, <5>3
        <5> QED BY <5>1, <5>2, <5>3
      <4> QED BY <4>1, <4>2
    <3> QED BY <3>5, <3>6, <3>7, <3>8, <3>9
  <2> QED BY <2>8, <2>9, <2>10, <2>11 DEF EditorInv, Ordered
<1> QED BY <1>4, <1>5 DEF Spawns

(* A process is killed though it was not waited for to the end.            *)
LEMMA KillTimerKeeps == ASSUME EditorInv, NEW f \in Flows, KillTimer(f) PROVE EditorInv'
<1>1. flow[f].pc = "stopping" /\ UNCHANGED <<kind, mgr, open, file>> /\ flaws' = flaws \cup {"killed"}
      /\ procs' = [procs EXCEPT ![flow[f].on].stage = "exited"] /\ Goes(f, "stopped")
  BY DEF KillTimer, At
<1>2. Typed /\ ~Orderly'
  BY <1>1, TypedIs DEF EditorInv, Orderly
<1>3. PICK q \in FlowRecords : /\ q.e = flow[f].e /\ q.tag = flow[f].tag /\ q.pc = "stopped"
                               /\ flow' = [flow EXCEPT ![f] = q]
  BY <1>1, NextOf DEF Pcs
<1>4. /\ procs' \in [Pids -> ProcRecords]
      /\ \A p \in Pids : procs'[p].tag = procs[p].tag
  <2>1. ASSUME NEW p \in Pids PROVE procs'[p] \in ProcRecords /\ procs'[p].tag = procs[p].tag
    <3> PICK x \in ProcRecords : x = procs[p]
      BY <1>2 DEF Typed
    <3>1. procs'[p] = x \/ procs'[p] = [x EXCEPT !.stage = "exited"]
      BY <1>1, <1>2 DEF Typed
    <3>2. [x EXCEPT !.stage = "exited"] \in ProcRecords /\ [x EXCEPT !.stage = "exited"].tag = x.tag
      BY ONLY x \in ProcRecords DEF ProcRecords, Stages
    <3> QED BY <3>1, <3>2
  <2>2. procs' = [p \in Pids |-> procs'[p]]
    BY <1>1, <1>2 DEF Typed
  <2> QED BY <2>1, <2>2
<1>5. \A g \in Flows : flow'[g] = IF g = f THEN q ELSE flow[g]
  BY <1>2, <1>3 DEF Typed
<1>6. TypeOK'
  BY <1>1, <1>2, <1>3, <1>4, TypedIs DEF Typed, Flaws
<1>7. Called'
  BY <1>1, <1>3, <1>5 DEF EditorInv, Called
<1>8. Keyed'
  BY <1>1, <1>3, <1>4, <1>5 DEF EditorInv, Keyed
<1> QED BY <1>2, <1>6, <1>7, <1>8 DEF EditorInv, Ordered

-----------------------------------------------------------------------------
(* The processes go on by themselves.                                      *)
LEMMA ListensKeeps == ASSUME EditorInv, NEW p \in Pids, Listens(p) \/ Ceases(p) PROVE EditorInv'
<1>1. Typed /\ procs[p] \in ProcRecords
  BY TypedIs DEF EditorInv, Typed
<1>2. PICK s \in Stages : /\ procs' = [procs EXCEPT ![p].stage = s]
                          /\ s # "none" /\ procs[p].stage # "none"
                          /\ procs[p].stage \in Gone => s \in Gone
  BY DEF Listens, Ceases, Becomes, Stages, Gone
<1> PICK x \in ProcRecords : x = procs[p]
  BY <1>1
<1>3. PICK v : v = [x EXCEPT !.stage = s]
  OBVIOUS
<1>4. v \in ProcRecords /\ v.by = x.by /\ v.tag = x.tag /\ v.stage = s
  BY ONLY x \in ProcRecords, s \in Stages, <1>3 DEF ProcRecords
<1>5. PICK pr \in [Pids -> ProcRecords] : pr = [procs EXCEPT ![p] = v] /\ procs' = pr
  BY <1>1, <1>2, <1>3, <1>4 DEF Typed
<1>6. \A o \in Pids : /\ pr[o].by = procs[o].by /\ pr[o].tag = procs[o].tag
                      /\ procs[o].stage = "none" <=> pr[o].stage = "none"
                      /\ procs[o].stage \in Gone => pr[o].stage \in Gone
  <2> SUFFICES ASSUME NEW o \in Pids
      PROVE  /\ pr[o].by = procs[o].by /\ pr[o].tag = procs[o].tag
             /\ procs[o].stage = "none" <=> pr[o].stage = "none"
             /\ procs[o].stage \in Gone => pr[o].stage \in Gone
    OBVIOUS
  <2>1. CASE o = p
    BY <1>1, <1>2, <1>4, <1>5, <2>1 DEF Typed
  <2>2. CASE o # p
    BY <1>1, <1>5, <2>2 DEF Typed
  <2> QED BY <2>1, <2>2
<1>7. UNCHANGED <<kind, mgr, open, flow, file, flaws>>
  BY DEF Listens, Ceases
<1> QED BY ONLY EditorInv, <1>5, <1>6, <1>7, StageKeeps

(* What a call is once its process has ended. *)
LEMMA HeardOf ==
  ASSUME NEW x \in FlowRecords,
         NEW y, y = [x EXCEPT !.pc = IF @ = "stopping" THEN "stopped" ELSE @, !.on = None]
  PROVE  /\ y \in FlowRecords /\ y.e = x.e /\ y.tag = x.tag
         /\ y.pc = IF x.pc = "stopping" THEN "stopped" ELSE x.pc
BY DEF FlowRecords, Pcs

(* The end of a process is heard: it is the one its editor's manager has,  *)
(* or a stopping call has let go of it.                                    *)
LEMMA ExitHeardKeeps == ASSUME EditorInv, NEW p \in Pids, ExitHeard(p) PROVE EditorInv'
<1>1. Typed /\ procs[p] \in ProcRecords /\ None \notin Pids /\ None \notin Editors
  BY TypedIs, RuntimeAssumption DEF EditorInv, Typed, RuntimeAssumption
<1>2. procs[p].stage \in {"exited", "failed"} /\ procs' = [procs EXCEPT ![p] = NoProc]
      /\ UNCHANGED <<kind, open, file, flaws>>
  BY DEF ExitHeard
<1>3. /\ procs' \in [Pids -> ProcRecords] /\ procs'[p].stage = "none" /\ procs'[p].tag = None
      /\ \A o \in Pids \ {p} : procs'[o] = procs[o]
  BY <1>1, <1>2, Idles DEF Typed
<1>4. None \notin Keys
  BY Idles
<1> PICK e \in Editors \cup {None} : e = procs[p].by
  BY <1>1 DEF ProcRecords
<1>5. CASE e \notin open
  <2>1. UNCHANGED <<mgr, flow>>
    BY <1>5 DEF ExitHeard
  <2>2. TypeOK' /\ Called'
    BY <1>1, <1>2, <1>3, <2>1, TypedIs DEF Typed, EditorInv, Called
  <2>3. \A o \in Pids : procs'[o].tag \in Keys => procs'[o].tag = procs[o].tag
    BY <1>3, <1>4
  <2>4. Keyed'
    BY <1>2, <2>1, <2>3 DEF EditorInv, Keyed
  <2>5. ASSUME Orderly' PROVE Alone' /\ AtPoint' /\ Known' /\ Mine' /\ Backed'
    <3>1. Alone /\ AtPoint /\ Known /\ Mine /\ Backed
      BY <1>2, <2>5 DEF Orderly, EditorInv, Ordered
    <3>2. Alone' /\ Backed'
      BY <1>2, <2>1, <3>1 DEF Alone, Backed
    <3>3. AtPoint'
      <4> SUFFICES ASSUME NEW g \in Flows, NEW d \in Editors, flow[g].e = d
          PROVE  /\ flow[g].pc = "stopping" => /\ mgr[d].proc = None /\ flow[g].on \in Pids
                                               /\ procs'[flow[g].on].by = d /\ procs'[flow[g].on].stage \in Gone
                 /\ flow[g].pc = "spawn" => mgr[d].proc = None
                 /\ flow[g].pc \in Early => mgr[d].state # "running"
        BY <2>1 DEF AtPoint, Ended
      <4>1. d \in open
        BY <1>1 DEF EditorInv, Called
      <4>2. /\ flow[g].pc = "stopping" => /\ mgr[d].proc = None /\ flow[g].on \in Pids
                                          /\ procs[flow[g].on].by = d /\ procs[flow[g].on].stage \in Gone
            /\ flow[g].pc = "spawn" => mgr[d].proc = None
            /\ flow[g].pc \in Early => mgr[d].state # "running"
        BY <3>1 DEF AtPoint, Ended
      <4> QED BY <1>3, <1>5, <4>1, <4>2
    <3>4. Known' /\ Mine'
      BY <1>2, <1>3, <1>5, <2>1, <3>1 DEF Known, Mine
    <3> QED BY <3>1, <3>2, <3>3, <3>4
  <2> QED BY <2>2, <2>4, <2>5 DEF EditorInv, Ordered
<1>6. ASSUME e \in open PROVE EditorInv'
  <2>1. e \in Editors
    BY <1>1, <1>6 DEF Typed
  <2>2. PICK r \in MgrRecords : r = mgr[e]
    BY <1>1, <2>1 DEF Typed
  <2>3. PICK s \in {"stopped", "error"} : s = IF procs[p].stage = "exited" THEN "stopped" ELSE "error"
    OBVIOUS
  <2>4. PICK m : m = [r EXCEPT !.proc = None, !.state = s]
    OBVIOUS
  <2>5. m \in MgrRecords /\ m.proc = None /\ m.state = s /\ m.tag = r.tag
    BY ONLY r \in MgrRecords, s \in {"stopped", "error"}, <2>4 DEF MgrRecords
  <2>6. mgr' = [mgr EXCEPT ![e] = m]
    BY <1>1, <1>6, <2>1, <2>2, <2>3, <2>4 DEF ExitHeard, Typed
  <2>7. mgr' \in [Editors -> MgrRecords] /\ mgr'[e] = m /\ \A d \in Editors \ {e} : mgr'[d] = mgr[d]
    BY <1>1, <2>1, <2>5, <2>6 DEF Typed
  <2>8. flow' = [f \in Flows |-> IF flow[f].on = p /\ flow[f].e = e
                                 THEN [flow[f] EXCEPT !.pc = IF @ = "stopping" THEN "stopped" ELSE @,
                                                      !.on = None]
                                 ELSE flow[f]]
    BY <1>6 DEF ExitHeard
  <2>9. ASSUME NEW g \in Flows
        PROVE  /\ flow'[g] \in FlowRecords /\ flow'[g].e = flow[g].e /\ flow'[g].tag = flow[g].tag
               /\ flow'[g].pc = flow[g].pc \/ (flow[g].pc = "stopping" /\ flow'[g].pc = "stopped")
               /\ flow[g].on # p \/ flow[g].e # e => flow'[g] = flow[g]
               /\ flow[g].on = p /\ flow[g].e = e => flow'[g].pc # "stopping"
    <3> PICK x \in FlowRecords : x = flow[g]
      BY <1>1 DEF Typed
    <3>1. PICK y : y = [x EXCEPT !.pc = IF @ = "stopping" THEN "stopped" ELSE @, !.on = None]
      OBVIOUS
    <3>2. /\ y \in FlowRecords /\ y.e = x.e /\ y.tag = x.tag
          /\ y.pc = IF x.pc = "stopping" THEN "stopped" ELSE x.pc
      BY ONLY x \in FlowRecords, <3>1, HeardOf, ZenonT(40)
    <3>3. flow'[g] = IF x.on = p /\ x.e = e THEN y ELSE x
      BY <2>8, <3>1
    <3> QED BY <3>2, <3>3
  <2>10. flow' \in [Flows -> FlowRecords]
    BY <2>8, <2>9
  <2>11. TypeOK'
    BY <1>1, <1>2, <1>3, <2>7, <2>10, TypedIs DEF Typed
  <2>12. Called'
    BY <1>2, <2>9 DEF EditorInv, Called
  <2>13. Keyed'
    <3> SUFFICES ASSUME kind = "worker", "torn" \notin flaws PROVE Keyed'
      BY <1>2 DEF Keyed
    <3>1. /\ \A d \in Editors : mgr[d].tag \in Keys => mgr[d].tag = file
          /\ \A o \in Pids : procs[o].tag \in Keys => procs[o].tag = file
          /\ \A g \in Flows : /\ flow[g].tag \in Keys => flow[g].tag = file
                              /\ flow[g].pc \notin {"repair", "refill"}
                              /\ flow[g].pc = "reread" => file # None
                              /\ flow[g].pc = "fill" => file = Torn
          /\ \A g, h \in Flows : flow[g].pc = "fill" /\ flow[h].pc = "fill" => g = h
      BY DEF EditorInv, Keyed
    <3>2. \A d \in Editors : mgr'[d].tag = mgr[d].tag
      BY <2>2, <2>5, <2>7
    <3>3. \A o \in Pids : procs'[o].tag \in Keys => procs'[o].tag = file
      BY <1>3, <1>4, <3>1
    <3>4. file' = file
      BY <1>2
    <3> QED BY <2>9, <3>1, <3>2, <3>3, <3>4 DEF Keyed
  <2>14. ASSUME Orderly' PROVE Alone' /\ AtPoint' /\ Known' /\ Mine' /\ Backed'
    <3>1. Alone /\ AtPoint /\ Known /\ Mine /\ Backed
      BY <1>2, <2>14 DEF Orderly, EditorInv, Ordered
    <3>2. Alone'
      BY <2>9, <3>1 DEF Alone
    <3>3. \A g \in Flows, d \in Editors : flow[g].e = d =>
            /\ flow[g].pc = "stopping" => /\ mgr[d].proc = None /\ flow[g].on \in Pids
                                          /\ procs[flow[g].on].by = d /\ procs[flow[g].on].stage \in Gone
            /\ flow[g].pc = "spawn" => mgr[d].proc = None
            /\ flow[g].pc \in Early => mgr[d].state # "running"
      BY <3>1 DEF AtPoint, Ended
    <3>4. mgr[e].proc \in {p, None}
      <4>1. mgr[e].proc = p \/ \E g \in Flows : flow[g].e = e /\ flow[g].pc = "stopping" /\ flow[g].on = p
        BY <1>2, <1>6, <3>1 DEF Known
      <4> QED BY <2>1, <3>3, <4>1
    <3>5. AtPoint'
      <4> SUFFICES ASSUME NEW g \in Flows, NEW d \in Editors, flow'[g].e = d
          PROVE  /\ flow'[g].pc = "stopping" => /\ mgr'[d].proc = None /\ flow'[g].on \in Pids
                                                /\ procs'[flow'[g].on].by = d /\ procs'[flow'[g].on].stage \in Gone
                 /\ flow'[g].pc = "spawn" => mgr'[d].proc = None
                 /\ flow'[g].pc \in Early => mgr'[d].state # "running"
        BY DEF AtPoint, Ended
      <4>1. flow'[g].pc = "stopping" => /\ flow[g].pc = "stopping" /\ flow'[g] = flow[g]
                                        /\ flow[g].on # p \/ d # e
        BY <2>9
      <4>2. flow[g].e = d /\ (flow[g].pc = "stopping" /\ d # e => flow[g].on # p)
        BY <2>9, <3>3
      <4>3. flow'[g].pc = "stopping" => /\ flow'[g].on \in Pids
                                        /\ procs'[flow'[g].on].by = d /\ procs'[flow'[g].on].stage \in Gone
        BY <1>3, <3>3, <4>1, <4>2
      <4>4. CASE d = e
        <5>1. mgr'[d].proc = None /\ mgr'[d].state # "running"
          BY <2>5, <2>7, <4>4
        <5> QED BY <4>3, <5>1
      <4>5. CASE d # e
        <5>1. mgr'[d] = mgr[d] /\ flow'[g] = flow[g]
          BY <2>7, <2>9, <4>2, <4>5
        <5> QED BY <3>3, <4>2, <4>3, <5>1
      <4> QED BY <4>4, <4>5
    <3>6. Known'
      <4> SUFFICES ASSUME NEW o \in Pids, NEW d, d = procs'[o].by, procs'[o].stage # "none", d \in open
          PROVE  mgr'[d].proc = o \/ \E g \in Flows : flow'[g].e = d /\ flow'[g].pc = "stopping" /\ flow'[g].on = o
        BY <1>2 DEF Known
      <4>1. o # p /\ procs'[o] = procs[o] /\ d \in Editors /\ None \notin Pids
        BY <1>1, <1>3 DEF Typed
      <4>2. mgr[d].proc = o \/ \E g \in Flows : flow[g].e = d /\ flow[g].pc = "stopping" /\ flow[g].on = o
        BY <3>1, <4>1 DEF Known
      <4>3. ASSUME NEW g \in Flows, flow[g].on = o PROVE flow'[g] = flow[g]
        BY <2>9, <4>1, <4>3
      <4>4. mgr[d].proc = o => mgr'[d] = mgr[d]
        BY <2>7, <3>4, <4>1
      <4> QED BY <4>2, <4>3, <4>4
    <3>7. Mine'
      <4> SUFFICES ASSUME NEW d \in open, mgr'[d].proc \in Pids
          PROVE  procs'[mgr'[d].proc].stage # "none" /\ procs'[mgr'[d].proc].by = d
        BY <1>2 DEF Mine
      <4>1. d # e /\ d \in Editors /\ mgr'[d] = mgr[d]
        BY <1>1, <2>5, <2>7 DEF Typed
      <4>2. procs[mgr[d].proc].stage # "none" /\ procs[mgr[d].proc].by = d
        BY <3>1, <4>1 DEF Mine
      <4> QED BY <1>3, <4>1, <4>2
    <3>8. Backed'
      <4> SUFFICES ASSUME NEW d \in open, mgr'[d].state = "running", ~mgr'[d].attached
          PROVE  mgr'[d].proc # None \/ \E g \in Flows : flow'[g].e = d /\ flow'[g].pc \in {"stopping", "stopped"}
        BY <1>2 DEF Backed
      <4>1. d # e /\ mgr'[d] = mgr[d]
        BY <1>1, <2>5, <2>7 DEF Typed
      <4>2. mgr[d].proc # None \/ \E g \in Flows : flow[g].e = d /\ flow[g].pc \in {"stopping", "stopped"}
        BY <3>1, <4>1 DEF Backed
      <4> QED BY <2>9, <4>1, <4>2
    <3> QED BY <3>2, <3>5, <3>6, <3>7, <3>8
  <2> QED BY <2>11, <2>12, <2>13, <2>14 DEF EditorInv, Ordered
<1> QED BY <1>5, <1>6

(* A window is closed: its calls and its managers are no more.             *)
LEMMA ClosesKeeps == ASSUME EditorInv, NEW e \in Editors, Closes(e) PROVE EditorInv'
<1>1. Typed /\ mgr[e] \in MgrRecords /\ None \notin Pids /\ None \notin Editors
  BY TypedIs, RuntimeAssumption DEF EditorInv, Typed, RuntimeAssumption
<1>2. /\ e \in open /\ open' = open \ {e} /\ UNCHANGED <<kind, file, flaws>>
      /\ procs' = IF mgr[e].attached \/ mgr[e].proc \notin Pids THEN procs ELSE Kills(procs, mgr[e].proc)
      /\ mgr' = [mgr EXCEPT ![e] = NoMgr]
      /\ flow' = [f \in Flows |-> IF flow[f].e = e THEN NoFlow ELSE flow[f]]
  BY DEF Closes
<1>3. /\ procs' \in [Pids -> ProcRecords]
      /\ \A o \in Pids : /\ procs'[o].by = procs[o].by /\ procs'[o].tag = procs[o].tag
                         /\ procs[o].stage = "none" <=> procs'[o].stage = "none"
                         /\ procs[o].stage \in Gone => procs'[o].stage \in Gone
  <2>1. CASE mgr[e].attached \/ mgr[e].proc \notin Pids
    BY <1>1, <1>2, <2>1 DEF Typed
  <2>2. CASE ~(mgr[e].attached \/ mgr[e].proc \notin Pids)
    <3> PICK p \in Pids : p = mgr[e].proc
      BY <2>2
    <3>1. procs' = Kills(procs, p)
      BY <1>2, <2>2
    <3>2. /\ procs' \in [Pids -> ProcRecords]
          /\ \A r \in Pids \ {p} : procs'[r] = procs[r]
          /\ procs'[p].by = procs[p].by /\ procs'[p].tag = procs[p].tag
          /\ procs[p].stage = "none" <=> procs'[p].stage = "none"
          /\ procs[p].stage # "none" => procs'[p].stage \in Gone
      BY <1>1, <3>1, KillsFacts
    <3>3. procs[p].stage \in Gone => procs[p].stage # "none"
      BY DEF Gone
    <3> QED BY <3>2, <3>3
  <2> QED BY <2>1, <2>2
<1>4. /\ mgr' \in [Editors -> MgrRecords] /\ mgr'[e] = NoMgr /\ \A d \in Editors \ {e} : mgr'[d] = mgr[d]
      /\ flow' \in [Flows -> FlowRecords]
      /\ \A g \in Flows : flow'[g] = IF flow[g].e = e THEN NoFlow ELSE flow[g]
      /\ None \notin Keys
  BY <1>1, <1>2, Idles DEF Typed
<1>5. /\ NoFlow.e = None /\ NoFlow.pc = "idle" /\ NoFlow.tag = None /\ NoMgr.proc = None
      /\ NoMgr.state = "stopped" /\ NoMgr.tag = None
  BY Idles
<1>6. TypeOK'
  BY <1>1, <1>2, <1>3, <1>4, TypedIs DEF Typed
<1>7. Called'
  BY <1>2, <1>4, <1>5 DEF EditorInv, Called
<1>8. Keyed'
  <2> SUFFICES ASSUME kind = "worker", "torn" \notin flaws PROVE Keyed'
    BY <1>2 DEF Keyed
  <2>1. /\ \A d \in Editors : mgr[d].tag \in Keys => mgr[d].tag = file
        /\ \A o \in Pids : procs[o].tag \in Keys => procs[o].tag = file
        /\ \A g \in Flows : /\ flow[g].tag \in Keys => flow[g].tag = file
                            /\ flow[g].pc \notin {"repair", "refill"}
                            /\ flow[g].pc = "reread" => file # None
                            /\ flow[g].pc = "fill" => file = Torn
        /\ \A g, h \in Flows : flow[g].pc = "fill" /\ flow[h].pc = "fill" => g = h
    BY DEF EditorInv, Keyed
  <2>2. \A d \in Editors : mgr'[d].tag \in Keys => mgr'[d].tag = file
    BY <1>4, <1>5, <2>1
  <2>3. \A o \in Pids : procs'[o].tag \in Keys => procs'[o].tag = file
    BY <1>3, <2>1
  <2>4. \A g \in Flows : flow'[g] = flow[g] \/ flow'[g] = NoFlow
    BY <1>4
  <2>5. file' = file
    BY <1>2
  <2> QED BY <1>4, <1>5, <2>1, <2>2, <2>3, <2>4, <2>5 DEF Keyed
<1>9. ASSUME Orderly' PROVE Alone' /\ AtPoint' /\ Known' /\ Mine' /\ Backed'
  <2>1. Alone /\ AtPoint /\ Known /\ Mine /\ Backed
    BY <1>2, <1>9 DEF Orderly, EditorInv, Ordered
  <2>2. \A g \in Flows : flow'[g].e # None => flow'[g] = flow[g] /\ flow[g].e # e
    BY <1>4, <1>5
  <2>3. Alone'
    BY <2>1, <2>2 DEF Alone
  <2>4. AtPoint'
    <3> SUFFICES ASSUME NEW g \in Flows, NEW d \in Editors, flow'[g].e = d
        PROVE  /\ flow'[g].pc = "stopping" => /\ mgr'[d].proc = None /\ flow'[g].on \in Pids
                                              /\ procs'[flow'[g].on].by = d /\ procs'[flow'[g].on].stage \in Gone
               /\ flow'[g].pc = "spawn" => mgr'[d].proc = None
               /\ flow'[g].pc \in Early => mgr'[d].state # "running"
      BY DEF AtPoint, Ended
    <3>1. flow'[g] = flow[g] /\ d # e /\ mgr'[d] = mgr[d]
      BY <1>1, <1>4, <2>2
    <3>2. /\ flow[g].pc = "stopping" => /\ mgr[d].proc = None /\ flow[g].on \in Pids
                                        /\ procs[flow[g].on].by = d /\ procs[flow[g].on].stage \in Gone
          /\ flow[g].pc = "spawn" => mgr[d].proc = None
          /\ flow[g].pc \in Early => mgr[d].state # "running"
      BY <2>1, <3>1 DEF AtPoint, Ended
    <3> QED BY <1>3, <3>1, <3>2
  <2>5. Known'
    <3> SUFFICES ASSUME NEW o \in Pids, NEW d, d = procs'[o].by, procs'[o].stage # "none", d \in open, d # e
        PROVE  mgr'[d].proc = o \/ \E g \in Flows : flow'[g].e = d /\ flow'[g].pc = "stopping" /\ flow'[g].on = o
      BY <1>2 DEF Known
    <3>1. d = procs[o].by /\ procs[o].stage # "none" /\ d \in Editors /\ mgr'[d] = mgr[d]
      BY <1>1, <1>3, <1>4 DEF Typed
    <3>2. mgr[d].proc = o \/ \E g \in Flows : flow[g].e = d /\ flow[g].pc = "stopping" /\ flow[g].on = o
      BY <2>1, <3>1 DEF Known
    <3>3. \A g \in Flows : flow[g].e = d => flow'[g] = flow[g]
      BY <1>4
    <3> QED BY <3>1, <3>2, <3>3
  <2>6. Mine'
    <3> SUFFICES ASSUME NEW d \in open, d # e, mgr'[d].proc \in Pids
        PROVE  procs'[mgr'[d].proc].stage # "none" /\ procs'[mgr'[d].proc].by = d
      BY <1>2 DEF Mine
    <3>1. mgr'[d] = mgr[d]
      BY <1>1, <1>4 DEF Typed
    <3>2. procs[mgr[d].proc].stage # "none" /\ procs[mgr[d].proc].by = d
      BY <2>1, <3>1 DEF Mine
    <3> QED BY <1>3, <3>1, <3>2
  <2>7. Backed'
    <3> SUFFICES ASSUME NEW d \in open, d # e, mgr'[d].state = "running", ~mgr'[d].attached
        PROVE  mgr'[d].proc # None \/ \E g \in Flows : flow'[g].e = d /\ flow'[g].pc \in {"stopping", "stopped"}
      BY <1>2 DEF Backed
    <3>1. mgr'[d] = mgr[d]
      BY <1>1, <1>4 DEF Typed
    <3>2. mgr[d].proc # None \/ \E g \in Flows : flow[g].e = d /\ flow[g].pc \in {"stopping", "stopped"}
      BY <2>1, <3>1 DEF Backed
    <3>3. \A g \in Flows : flow[g].e = d => flow'[g] = flow[g]
      BY <1>4
    <3> QED BY <3>1, <3>2, <3>3
  <2> QED BY <2>3, <2>4, <2>5, <2>6, <2>7
<1> QED BY <1>6, <1>7, <1>8, <1>9 DEF EditorInv, Ordered

-----------------------------------------------------------------------------
(* The invariant is inductive.                                             *)
LEMMA InitKeeps == ASSUME Init PROVE EditorInv
<1>1. kind \in {"worker", "mcp"} /\ mgr = [e \in Editors |-> NoMgr] /\ open = Editors
      /\ flow = [f \in Flows |-> NoFlow] /\ file = None /\ flaws = {}
  BY DEF Init
<1>2. /\ NoFlow \in FlowRecords /\ NoFlow.e = None /\ NoFlow.pc = "idle" /\ NoFlow.tag = None
      /\ NoMgr \in MgrRecords /\ NoMgr.proc = None /\ NoMgr.state = "stopped" /\ NoMgr.tag = None
      /\ NoProc \in ProcRecords /\ NoProc.stage = "none" /\ NoProc.by = None /\ NoProc.tag = None
      /\ None \notin Keys
  BY Idles
<1>3. /\ None \notin Pids /\ None \notin Editors /\ Stale \notin Keys
  BY RuntimeAssumption DEF RuntimeAssumption, Keys
<1> DEFINE left == [NoProc EXCEPT !.stage = "up", !.tag = Stale]
<1>4. left \in ProcRecords /\ left.by = None /\ left.tag = Stale
  BY DEF NoProc, ProcRecords, Stages, Tags
<1> HIDE DEF left
<1>5. procs \in {[p \in Pids |-> NoProc]} \cup {[p \in Pids |-> IF p = q THEN left ELSE NoProc] : q \in Pids}
  BY DEF Init, left
<1>6. procs \in [Pids -> ProcRecords] /\ \A p \in Pids : procs[p].by = None /\ procs[p].tag \notin Keys
  <2>1. CASE procs = [p \in Pids |-> NoProc]
    BY <1>2, <2>1
  <2>2. ASSUME NEW q \in Pids, procs = [p \in Pids |-> IF p = q THEN left ELSE NoProc]
        PROVE  procs \in [Pids -> ProcRecords] /\ \A p \in Pids : procs[p].by = None /\ procs[p].tag \notin Keys
    BY <1>2, <1>3, <1>4, <2>2
  <2> QED BY <1>5, <2>1, <2>2
<1>7. TypeOK
  BY <1>1, <1>2, <1>6, TypedIs DEF Typed
<1>8. Called
  BY <1>1, <1>2 DEF Called
<1>9. Keyed
  BY <1>1, <1>2, <1>6 DEF Keyed
<1>10. Alone /\ AtPoint
  BY <1>1, <1>2, <1>3 DEF Alone, AtPoint
<1>11. Known /\ Mine /\ Backed
  BY <1>1, <1>2, <1>3, <1>6 DEF Known, Mine, Backed
<1> QED BY <1>7, <1>8, <1>9, <1>10, <1>11 DEF EditorInv, Ordered

LEMMA StepKeeps == ASSUME EditorInv, [Next]_vars PROVE EditorInv'
<1>1. CASE UNCHANGED vars
  <2>1. UNCHANGED <<kind, procs, mgr, open, flow, file, flaws>>
    BY <1>1 DEF vars
  <2>2. TypeOK' /\ Called' /\ Keyed'
    BY <2>1, TypedIs DEF EditorInv, Typed, Called, Keyed
  <2>3. Ordered'
    BY <2>1 DEF EditorInv, Ordered, Orderly, Alone, AtPoint, Known, Mine, Backed, Ended
  <2> QED BY <2>2, <2>3 DEF EditorInv
<1>2. ASSUME NEW f \in Flows, NEW e \in Editors, StartsWorker(f, e) PROVE EditorInv'
  BY <1>2, StartsWorkerKeeps
<1>3. ASSUME NEW f \in Flows, NEW e \in Editors,
             LeavesFolder(f, e) \/ \E root \in Folders : StartsMcp(f, e, root)
      PROVE  EditorInv'
  BY <1>3, McpCallsKeep
<1>4. ASSUME NEW f \in Flows, NEW e \in Editors, AwaitsMcp(f, e) PROVE EditorInv'
  BY <1>4, AwaitsMcpKeeps
<1>5. ASSUME NEW f \in Flows, Step(f) PROVE EditorInv'
  BY <1>5, FindsSameKeeps, KillTimerKeeps, HasStoppedKeeps, ReadsKeyKeeps, CreatesKeyKeeps, RepairsKeyKeeps,
     FillsKeyKeeps, ProbesKeeps, SpawnsKeeps, NoBundleKeeps, WaitsKeeps, AttachesAgainKeeps DEF Step
<1>6. ASSUME NEW p \in Pids, Listens(p) \/ Ceases(p) \/ ExitHeard(p) PROVE EditorInv'
  BY <1>6, ListensKeeps, ExitHeardKeeps
<1>7. ASSUME NEW e \in Editors, Closes(e) PROVE EditorInv'
  BY <1>7, ClosesKeeps
<1> QED BY <1>1, <1>2, <1>3, <1>4, <1>5, <1>6, <1>7 DEF Next, Calls, Process

LEMMA EditorsAgree == Spec => []EditorInv
BY InitKeeps, StepKeeps, PTL DEF Spec

-----------------------------------------------------------------------------
(* Whatever the editors, and whoever of them creates, finds empty, waits   *)
(* for or reads the key file (getOrCreateSharedWorkerKey): they, the       *)
(* workers and the file have one key, unless one read the file torn.       *)
THEOREM OneKey == Spec => []RuntimeInv
<1>1. EditorInv => RuntimeInv
  <2> SUFFICES ASSUME EditorInv, kind = "worker", "torn" \notin flaws
      PROVE  Cardinality(({mgr[e].tag : e \in Editors} \cup {procs[p].tag : p \in Pids} \cup {file}) \cap Keys) <= 1
    BY DEF RuntimeInv, KeysAgree, EditorInv
  <2> DEFINE K == ({mgr[e].tag : e \in Editors} \cup {procs[p].tag : p \in Pids} \cup {file}) \cap Keys
  <2>1. K \subseteq {file}
    BY DEF EditorInv, Keyed
  <2>2. IsFiniteSet({file}) /\ Cardinality({file}) = 1
    BY FS_Singleton
  <2> HIDE DEF K
  <2>3. Cardinality(K) <= 1
    BY <2>1, <2>2, FS_Subset
  <2> QED BY <2>3 DEF K
<1> QED BY <1>1, EditorsAgree, PTL

(* An open editor has every process it has spawned and that has not ended: *)
(* the managers' start() and stop() (BaseProcessManager) lose none, unless *)
(* calls overlap or a kill is not waited for.                              *)
THEOREM NoneIsForgotten == Spec => []NothingLost
<1>1. EditorInv => NothingLost
  <2> SUFFICES ASSUME EditorInv, Orderly, NEW p \in Pids, Live(p), procs[p].by \in open
      PROVE  mgr[procs[p].by].proc = p
    BY DEF NothingLost
  <2>1. open \subseteq Editors /\ AtPoint /\ Known
    BY TypedIs DEF EditorInv, Ordered, Typed
  <2>2. procs[p].stage # "none" /\ ~Ended(p)
    BY DEF Live, Ended, Gone
  <2>3. \A f \in Flows : ~(flow[f].e = procs[p].by /\ flow[f].pc = "stopping" /\ flow[f].on = p)
    BY <2>1, <2>2 DEF AtPoint
  <2> QED BY <2>1, <2>2, <2>3 DEF Known
<1> QED BY <1>1, EditorsAgree, PTL

(* A manager that says "running" when no call of its editor is under way,  *)
(* and has not attached to another's service, has a process it spawned, if *)
(* that could be spawned at all.                                           *)
THEOREM RunningIsNoRumour == Spec => []RunningIsTrue
<1>1. EditorInv => RunningIsTrue
  <2> SUFFICES ASSUME EditorInv, Orderly, NEW e \in open, mgr[e].state = "running", ~mgr[e].attached, mgr[e].proc # Ghost, ~Busy(e)
      PROVE  mgr[e].proc \in Pids /\ procs[mgr[e].proc].stage # "none" /\ procs[mgr[e].proc].by = e
    BY DEF RunningIsTrue
  <2>1. mgr[e].proc # None
    BY DEF EditorInv, Ordered, Backed, Busy
  <2>2. e \in Editors /\ mgr[e] \in MgrRecords
    BY TypedIs DEF EditorInv, Typed
  <2>3. mgr[e].proc \in Pids
    BY <2>1, <2>2, MgrFields
  <2> QED BY <2>3 DEF EditorInv, Ordered, Mine
<1> QED BY <1>1, EditorsAgree, PTL

=============================================================================
