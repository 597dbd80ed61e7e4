------------------------------ MODULE CommandRun ------------------------------
(***************************************************************************)
(* The commands of one session: the steps of a batch on its tabs           *)
(* (commands/command-executor.ts), the reads that hand out refs and deltas *)
(* (snapshot/), the refs an action is given (interactions/ref-resolver.ts) *)
(* and the tool that remembers the last read (runtime-mcp, browser_read).  *)
(*                                                                         *)
(* What a page holds may change at any time, so a read finds any elements; *)
(* of the actions in the page only that they end.  Sessions that end or    *)
(* are created are WorkerSessions' subject.                                *)
(***************************************************************************)
EXTENDS Naturals, SequencesExt, FiniteSetsExt

CONSTANTS Refs, Urls, TabIds, Nothing,
          MaxSteps,        \* Bound: the steps of a batch.
          MaxSnapshots,    \* Bound: the snapshots of a session.
          CacheSize,       \* VINDICATE_DELTA_CACHE_SIZE
          DescriptorCap    \* VINDICATE_SNAPSHOT_DESCRIPTOR_CAP

ASSUME CommandAssumption ==
  /\ MaxSteps \in Nat /\ MaxSnapshots \in Nat /\ CacheSize \in Nat /\ DescriptorCap \in Nat
  /\ IsFiniteSet(TabIds) /\ IsFiniteSet(Refs)
  /\ Nothing \notin TabIds \cup Urls \cup [added : SUBSET Refs, removed : SUBSET Refs]

VARIABLES ctx,      \* the context is there
          tabs,     \* its open pages
          active,   \* activePageIndex, from 1
          status,   \* of the session
          memory,   \* SnapshotMemoryTable: the last id, and the cache
          descs,    \* refDescriptors, the oldest first; read is where a ref was found (history)
          run,      \* the batch and the read of resume_from_pause
          agent,    \* what browser_read remembers, and what it was told (history)
          chosen,   \* the tab opened or switched to last, if none has closed since (history)
          flaws     \* a page moved under a read; a read ended after its session had died (history)

commandVars == <<ctx, tabs, active, status, memory, descs, run, agent, chosen, flaws>>
page == <<ctx, tabs, active, chosen>>

Runners == {"command", "resume"}
Ids == 0 .. MaxSnapshots
NoRun == [pc |-> "idle", left |-> 0, tab |-> Nothing, url |-> Nothing, place |-> Nothing, id |-> 0,
          since |-> 0, seen |-> {}, delta |-> Nothing, fresh |-> FALSE]
Pcs == {"idle", "step", "capture", "commit", "act", "goto", "opened", "answer"}
Deltas == [added : SUBSET Refs, removed : SUBSET Refs] \cup {Nothing}
Runs == [pc : Pcs, left : 0 .. MaxSteps, tab : TabIds \cup {Nothing}, url : Urls \cup {Nothing},
         place : Urls \cup {Nothing}, id : Ids, since : Ids, seen : SUBSET Refs,
         delta : Deltas, fresh : BOOLEAN]
Descriptors == [ref : Refs, url : Urls, read : Urls]
Entries == [url : Urls, els : SUBSET Refs]
Memories == [next : Ids, cache : UNION {[ids -> Entries] : ids \in SUBSET (Ids \ {0})}]
NoMemory == [next |-> 0, cache |-> << >>]
NewTabs == [id : TabIds, url : Urls]
NoTab == [id |-> Nothing, url |-> Nothing]

AreTabs(s) == /\ s \in Seq(NewTabs) /\ Len(s) <= Cardinality(TabIds)
              /\ \A i, j \in DOMAIN s : s[i].id = s[j].id => i = j
TabsFit == AreTabs(tabs) /\ active \in 1 .. Cardinality(TabIds) /\ chosen \in TabIds \cup {Nothing}
MemoryFits ==
  /\ memory \in Memories /\ Cardinality(DOMAIN memory.cache) <= CacheSize
  /\ descs \in Seq(Descriptors) /\ Len(descs) <= DescriptorCap
CommandTypeOK ==
  /\ TabsFit /\ MemoryFits /\ run \in [Runners -> Runs]
  /\ ctx \in BOOLEAN /\ status \in {"active", "paused", "dead"} /\ flaws \subseteq {"strayed", "late"}
  /\ agent \in [last : Ids, els : SUBSET Refs, fresh : BOOLEAN]

CommandInit ==
  /\ ctx = TRUE /\ active = 1 /\ chosen = Nothing /\ status = "active"
  /\ tabs \in {<<t>> : t \in NewTabs}
  /\ memory = NoMemory /\ descs = << >> /\ flaws = {}
  /\ run = [r \in Runners |-> NoRun]
  /\ agent = [last |-> 0, els |-> {}, fresh |-> FALSE]

-----------------------------------------------------------------------------
(* Tabs.                                                                   *)
Open == {tabs[i].id : i \in DOMAIN tabs}
TabOf(id) == CHOOSE i \in DOMAIN tabs : tabs[i].id = id
Least(a, b) == IF a < b THEN a ELSE b
Losing(runs, ids) == [r \in Runners |-> [runs[r] EXCEPT !.tab = IF @ \in ids THEN Nothing ELSE @]]

Strayed(id) == IF \E r \in Runners : run[r].pc = "capture" /\ run[r].tab = id
               THEN flaws \cup {"strayed"} ELSE flaws

(* A click, a redirect or the person at the window moves a page, opens one *)
(* or closes one.                                                          *)
PageMoves(i, url) ==
  /\ tabs[i].url # url /\ tabs' = [tabs EXCEPT ![i].url = url]
  /\ flaws' = Strayed(tabs[i].id)
  /\ UNCHANGED <<ctx, active, chosen, status, memory, descs, run, agent>>

PopupOpens(t) ==
  /\ ctx /\ t.id \notin Open /\ tabs' = Append(tabs, t)
  /\ UNCHANGED <<ctx, active, chosen, status, memory, descs, run, agent, flaws>>

PopupCloses(i) ==
  /\ tabs' = RemoveAt(tabs, i) /\ chosen' = Nothing /\ run' = Losing(run, {tabs[i].id})
  /\ UNCHANGED <<ctx, active, status, memory, descs, agent, flaws>>

-----------------------------------------------------------------------------
(* The session around its commands.                                        *)
ContextEnds ==
  /\ ctx /\ ctx' = FALSE /\ tabs' = << >> /\ active' = 1 /\ chosen' = Nothing
  /\ run' = Losing(run, Open)
  /\ UNCHANGED <<status, memory, descs, agent, flaws>>

(* onContextDead: the crash is stored, and the snapshots are dropped.      *)
DeathHeard ==
  /\ ~ctx /\ status # "dead" /\ status' = "dead"
  /\ memory' = NoMemory /\ descs' = << >>
  /\ agent' = [agent EXCEPT !.els = {}, !.fresh = FALSE]
  /\ run' = [r \in Runners |-> [run[r] EXCEPT !.fresh = FALSE]]
  /\ UNCHANGED <<page, flaws>>

Resume(t) ==
  /\ status = "dead" /\ status' = "active" /\ ctx' = TRUE /\ tabs' = <<t>> /\ active' = 1
  /\ UNCHANGED <<chosen, memory, descs, run, agent, flaws>>

-----------------------------------------------------------------------------
(* POST /sessions/:id/commands: refused unless the session is active and   *)
(* the queue free.  browser_read sends one read.  That the governor refuses*)
(* a batch, or breaks one off between two steps, is among what Fails.      *)
Post(n) ==
  /\ status = "active" /\ run["command"].pc = "idle"
  /\ run' = [run EXCEPT !["command"] = [NoRun EXCEPT !.pc = "step", !.left = n]]
  /\ UNCHANGED <<page, status, memory, descs, agent, flaws>>

(* A step is over: the next one, or the answer; or the batch has failed.   *)
Ended(v) == [v EXCEPT !.pc = IF v.left > 1 THEN "step" ELSE "answer",
                      !.left = IF @ > 1 THEN @ - 1 ELSE 0]
Done(new) == run' = [run EXCEPT !["command"] = Ended(new)]
Fails(r) ==
  /\ run[r].pc \in {"step", "capture", "act", "goto", "opened"}
  /\ run' = [run EXCEPT ![r] = NoRun]
  /\ UNCHANGED <<page, status, memory, descs, agent, flaws>>

(* A step begins on the page getPage() finds, which clamps the index and   *)
(* opens a page when there is none.                                        *)
Begins == run["command"].pc = "step" /\ ctx
Spare == IF tabs = << >> THEN NewTabs ELSE {NoTab}
Pages(t) == IF tabs = << >> THEN <<t>> ELSE tabs
Here(t) == Pages(t)[Least(active, Len(Pages(t)))]
Found(t) == tabs' = Pages(t) /\ active' = Least(active, Len(Pages(t)))

PauseForHuman ==
  /\ run["command"].pc = "step"
  /\ status = "active" /\ status' = "paused" /\ Done(run["command"])
  /\ UNCHANGED <<page, memory, descs, agent, flaws>>

(* A slip: the URL is not compared. *)
ResolvesAnywhere(d, url) == TRUE

(* resolveRef(): the ref is of the page that is shown.                     *)
Resolves(d, url) == d.url = url

Act(t, d) ==
  /\ Begins /\ Found(t) /\ Resolves(d, Here(t).url)
  /\ run' = [run EXCEPT !["command"] = [@ EXCEPT !.pc = "act", !.tab = Here(t).id,
                                                 !.url = Here(t).url, !.place = d.read]]
  /\ UNCHANGED <<ctx, chosen, status, memory, descs, agent, flaws>>

Acts ==
  /\ run["command"].pc = "act" /\ run["command"].tab \in Open
  /\ Done([NoRun EXCEPT !.left = run["command"].left])
  /\ UNCHANGED <<page, status, memory, descs, agent, flaws>>

(* navigate: goto moves the page, and later the cache is cleared.          *)
Navigate(t, url) ==
  /\ Begins /\ active' = Least(active, Len(Pages(t)))
  /\ tabs' = [Pages(t) EXCEPT ![active'].url = url]
  /\ run' = [run EXCEPT !["command"].pc = "goto"]
  /\ flaws' = Strayed(Here(t).id)
  /\ UNCHANGED <<ctx, chosen, status, memory, descs, agent>>

Navigated ==
  /\ run["command"].pc = "goto" /\ Done(run["command"])
  /\ memory' = [memory EXCEPT !.cache = << >>]
  /\ UNCHANGED <<page, status, descs, agent, flaws>>

(* new_tab: the index is looked up when the page is there.  (That getPage()*)
(* has first opened one when there was none is left out, here and below.)  *)
OpensTab(t) ==
  /\ Begins /\ tabs # << >> /\ t.id \notin Open
  /\ tabs' = Append(tabs, t)
  /\ run' = [run EXCEPT !["command"].pc = "opened", !["command"].tab = t.id]
  /\ UNCHANGED <<ctx, active, chosen, status, memory, descs, agent, flaws>>

(* A slip: the new tab is taken for the last one. *)
LastIndex(id) == Len(tabs)

IndexOfNew(id) == IF id \in Open THEN TabOf(id) ELSE Len(tabs)

SelectsTab ==
  /\ run["command"].pc = "opened" /\ tabs # << >>
  /\ active' = IndexOfNew(run["command"].tab)
  /\ chosen' = run["command"].tab   \* Nothing when it has closed again
  /\ Done([run["command"] EXCEPT !.tab = Nothing])
  /\ UNCHANGED <<ctx, tabs, status, memory, descs, agent, flaws>>

(* switch_tab, switch_tab_by_url.                                          *)
SwitchTab(i) ==
  /\ Begins /\ active' = i /\ chosen' = tabs[i].id
  /\ Done(run["command"])
  /\ UNCHANGED <<ctx, tabs, status, memory, descs, agent, flaws>>

(* close_tab selects the tab it closes.                                    *)
CloseTab(i) ==
  /\ Begins /\ tabs' = RemoveAt(tabs, i) /\ chosen' = Nothing
  /\ active' = IF tabs' = << >> THEN 1 ELSE Least(i, Len(tabs'))
  /\ run' = [Losing(run, {tabs[i].id}) EXCEPT !["command"] = Ended(@)]
  /\ UNCHANGED <<ctx, status, memory, descs, agent, flaws>>

-----------------------------------------------------------------------------
(* A slip: the ids start again when the cache is cleared. *)
AllocatedAfterClear(m) ==
  [m EXCEPT !.next = IF m.cache = << >> THEN 1 ELSE @ + 1]

(* takeSnapshot().  The URL is read and the id is taken before the page    *)
(* has settled; the elements are read later, and the answer is put         *)
(* together later still, when the frames have been read.                   *)
Allocated(m) == [m EXCEPT !.next = @ + 1]

Read(r, t, since) ==
  /\ run[r].pc = "idle" /\ ctx /\ Found(t) /\ memory.next < MaxSnapshots
  /\ memory' = Allocated(memory)
  /\ run' = [run EXCEPT ![r] = [NoRun EXCEPT !.pc = "capture", !.tab = Here(t).id, !.fresh = TRUE,
                                             !.url = Here(t).url, !.id = memory'.next, !.since = since]]
  /\ UNCHANGED <<ctx, chosen, descs, agent, flaws>>

PostRead(t, delta) ==
  status = "active" /\ Read("command", t, IF delta THEN agent.last ELSE 0) /\ UNCHANGED status

(* With include_snapshot, this read does not wait for the queue.           *)
ResumeFromPause(t) ==
  /\ status = "paused" /\ ctx /\ status' = "active"
  /\ \/ Read("resume", t, 0)
     \/ UNCHANGED <<page, memory, descs, run, agent, flaws>>

Captures(r, els) ==
  /\ run[r].pc = "capture" /\ run[r].tab \in Open
  /\ run' = [run EXCEPT ![r] = [@ EXCEPT !.pc = "commit", !.seen = els, !.tab = Nothing,
                                         !.place = tabs[TabOf(run[r].tab)].url]]
  /\ UNCHANGED <<page, status, memory, descs, agent, flaws>>

(* Descriptors are merged: a ref that is seen again is the youngest, and   *)
(* the oldest go when there are too many.                                  *)
Nth(places, n) == CHOOSE i \in places : Cardinality({j \in places : j <= i}) = n
Only(s, places) == [n \in 1 .. Cardinality(places) |-> s[Nth(places, n)]]
Youngest(s, n) == SubSeq(s, Len(s) - Least(Len(s), n) + 1, Len(s))
Merged(v) ==
  LET old == Only(descs, {i \in DOMAIN descs : descs[i].ref \notin v.seen})
      new == SetToSeq({[ref |-> x, url |-> v.url, read |-> v.place] : x \in v.seen})
  IN  Youngest(old \o new, DescriptorCap)

Delta(prev, cur) == [added |-> cur \ prev, removed |-> prev \ cur]
DeltaOf(v) ==
  IF v.since \in DOMAIN memory.cache THEN
    IF memory.cache[v.since].url = v.url THEN Delta(memory.cache[v.since].els, v.seen) ELSE Nothing
  ELSE Nothing

Committed(m, v) ==
  LET ids == DOMAIN m.cache \cup {v.id}
      kept == IF Cardinality(ids) > CacheSize THEN ids \ {Min(ids)} ELSE ids
  IN  [next |-> IF m = NoMemory THEN v.id ELSE m.next,
       cache |-> [i \in kept |-> IF i = v.id THEN [url |-> v.url, els |-> v.seen] ELSE m.cache[i]]]

Commits(r) ==
  LET v == run[r] IN
  /\ v.pc = "commit"
  /\ descs' = Merged(v) /\ memory' = Committed(memory, v)
  /\ flaws' = IF v.fresh THEN flaws ELSE flaws \cup {"late"}
  /\ run' = [run EXCEPT ![r] =
                IF r = "resume" THEN NoRun
                ELSE [NoRun EXCEPT !.pc = "answer", !.id = v.id, !.since = v.since,
                                   !.seen = v.seen, !.delta = DeltaOf(v), !.fresh = v.fresh]]
  /\ UNCHANGED <<page, status, agent>>

(* The answer arrives, or the agent has stopped waiting for it.            *)
Answered(heard) ==
  LET v == run["command"] IN
  /\ v.pc = "answer" /\ run' = [run EXCEPT !["command"] = NoRun]
  /\ agent' = IF heard /\ v.id # 0 THEN [last |-> v.id, els |-> v.seen, fresh |-> v.fresh]
              ELSE agent
  /\ UNCHANGED <<page, status, memory, descs, flaws>>

-----------------------------------------------------------------------------
World ==
  \/ \E i \in DOMAIN tabs : PopupCloses(i) \/ \E url \in Urls : PageMoves(i, url)
  \/ \E t \in NewTabs : PopupOpens(t) \/ Resume(t)
  \/ ContextEnds \/ DeathHeard

Posts == \/ \E n \in 1 .. MaxSteps : Post(n)
         \/ \E t \in Spare : ResumeFromPause(t) \/ \E delta \in BOOLEAN : PostRead(t, delta)

Steps ==
  \/ PauseForHuman \/ Acts \/ Navigated \/ SelectsTab \/ \E heard \in BOOLEAN : Answered(heard)
  \/ \E t \in NewTabs : OpensTab(t)
  \/ \E t \in Spare : \/ \E i \in DOMAIN descs : Act(t, descs[i])
                     \/ \E url \in Urls : Navigate(t, url)
  \/ \E i \in DOMAIN tabs : SwitchTab(i) \/ CloseTab(i)

Reads(r) ==
  \/ Fails(r) \/ Commits(r)
  \/ \E els \in SUBSET Refs : Captures(r, els)

CommandNext == World \/ Posts \/ Steps \/ \E r \in Runners : Reads(r)

CommandSpec == CommandInit /\ [][CommandNext]_commandVars

-----------------------------------------------------------------------------
(* A delta is the difference from what the agent was told under the id it  *)
(* names, if the session has not died since, and no read outlived a death. *)
DeltaIsTrue ==
  LET v == run["command"] IN
  "late" \notin flaws /\ v.pc = "answer" /\ v.delta # Nothing /\ agent.fresh /\ v.since = agent.last =>
    v.delta = Delta(agent.els, v.seen)

Orderly == flaws = {}

(* An action is given a ref only on the page where the ref was read, if no *)
(* page ever moved under a read.                                           *)
ActsWhereRead ==
  run["command"].pc = "act" /\ "strayed" \notin flaws => run["command"].place = run["command"].url

(* Commands go to the tab that was opened or chosen last, whatever other   *)
(* tabs open.                                                              *)
TabKept == chosen # Nothing => active \in DOMAIN tabs /\ tabs[active].id = chosen

(* A session that is dead has no context, and one without context no tabs; *)
(* what runs has a tab that is open, or has lost it.                       *)
TabsKnown ==
  /\ status = "dead" => ~ctx
  /\ ~ctx => tabs = << >>
  /\ \A r \in Runners : run[r].tab \in Open \cup {Nothing}

(* What is known of a batch and of a read at each of its waits.            *)
Known(v) ==
  /\ v.pc \in {"capture", "commit"} => v.url # Nothing /\ v.id # 0
  /\ v.pc = "commit" => v.place # Nothing
  /\ v.pc # "answer" => v.delta = Nothing
  /\ v.pc \notin {"capture", "commit", "answer"} => ~v.fresh /\ v.id = 0
  /\ v.fresh => v.id # 0
ReadsKnow == run["resume"].pc \in {"idle", "capture", "commit"} /\ \A r \in Runners : Known(run[r])

(* The URL of a read and of each ref is the one of the page the elements   *)
(* were found on, unless a page has moved under a read.                    *)
Placed(v) ==
  /\ v.pc \in {"commit", "act"} => v.place = v.url
  /\ v.pc = "capture" => \A i \in DOMAIN tabs : tabs[i].id = v.tab => tabs[i].url = v.url
PlacesAgree ==
  "strayed" \notin flaws =>
    (\A i \in DOMAIN descs : descs[i].read = descs[i].url) /\ \A r \in Runners : Placed(run[r])

(* An id stands for one read since the session last died: no two reads, and*)
(* no read and what the agent was told last, share one.                    *)
IdsDiffer ==
  /\ \A r \in Runners : run[r].fresh => run[r].id <= memory.next
  /\ run["command"].fresh /\ run["resume"].fresh => run["command"].id # run["resume"].id
  /\ agent.fresh => /\ agent.last # 0 /\ agent.last <= memory.next
                    /\ \A r \in Runners : run[r].fresh /\ run[r].pc # "answer" => run[r].id # agent.last

(* The cache holds under an id what the agent was told under it, or is told*)
(* by the answer that is on its way.                                       *)
CacheIsTold ==
  LET v == run["command"] IN
  /\ agent.fresh /\ agent.last \in DOMAIN memory.cache => memory.cache[agent.last].els = agent.els
  /\ v.fresh /\ v.pc = "answer" /\ v.id \in DOMAIN memory.cache => memory.cache[v.id].els = v.seen

Remembered == "late" \notin flaws => IdsDiffer /\ CacheIsTold

(* The state is well formed (the snapshot caches and descriptors keep to   *)
(* their caps), and commands stay on their tab.                            *)
RunInv == CommandTypeOK /\ TabKept /\ TabsKnown /\ ReadsKnow /\ PlacesAgree /\ Remembered
=============================================================================
