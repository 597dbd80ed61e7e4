------------------------------ MODULE PagesProofs ------------------------------
(****************************************************************************)
(* The pages of a session, recorded and read.  For every bound on what is   *)
(* under way: the pages of a recorded session agree on its pause, and all   *)
(* of them report while it runs.  For every document: a locator found       *)
(* unique is the element's own, nothing in a shadow root is given an XPath, *)
(* and no two rows of an answer share a ref.  However frames come and go: a *)
(* read walks them as it should, and what it reports is fit for use.        *)
(****************************************************************************)
EXTENDS RecorderPages, FrameRead, TLAPS, FiniteSetTheorems, WellFoundedInduction

-----------------------------------------------------------------------------
(* What is in a queue after a report or a message came, or was taken.      *)
LEMMA Appended ==
  ASSUME NEW S, NEW s \in Seq(S), NEW x \in S
  PROVE  /\ Append(s, x) \in Seq(S) /\ Len(Append(s, x)) = Len(s) + 1
         /\ \A n \in 1..Len(s) : Append(s, x)[n] = s[n]
         /\ Append(s, x)[Len(s) + 1] = x
OBVIOUS

LEMMA Taken ==
  ASSUME NEW S, NEW s \in Seq(S), s # <<>>
  PROVE  /\ Tail(s) \in Seq(S) /\ Len(Tail(s)) = Len(s) - 1 /\ Len(s) \in Nat \ {0}
         /\ \A n \in 1..Len(Tail(s)) : Tail(s)[n] = s[n + 1]
         /\ Head(s) = s[1] /\ Head(s) \in S
OBVIOUS

LEMMA AppendedRange ==
  ASSUME NEW S, NEW s \in Seq(S), NEW x \in S, NEW t, t = Append(s, x)
  PROVE  {t[n] : n \in DOMAIN t} = {s[n] : n \in DOMAIN s} \cup {x}
<1>1. DOMAIN t = 1..(Len(s) + 1) /\ DOMAIN s = 1..Len(s) /\ Len(s) \in Nat
  BY Appended
<1>2. \A n \in 1..Len(s) : t[n] = s[n]
  BY Appended
<1>3. t[Len(s) + 1] = x
  BY Appended
<1>4. \A n \in 1..(Len(s) + 1) : n \in 1..Len(s) \/ n = Len(s) + 1
  BY <1>1
<1>5. 1..Len(s) \subseteq 1..(Len(s) + 1) /\ Len(s) + 1 \in 1..(Len(s) + 1)
  BY <1>1
<1> QED BY <1>1, <1>2, <1>3, <1>4, <1>5, Zenon

LEMMA TakenRange ==
  ASSUME NEW S, NEW s \in Seq(S), s # <<>>, NEW t, t = Tail(s)
  PROVE  /\ {s[n] : n \in DOMAIN s} = {t[n] : n \in DOMAIN t} \cup {Head(s)}
<1>1. DOMAIN t = 1..(Len(s) - 1) /\ DOMAIN s = 1..Len(s) /\ Len(s) \in Nat \ {0}
  BY Taken
<1>2. \A n \in 1..(Len(s) - 1) : t[n] = s[n + 1] /\ n + 1 \in 1..Len(s)
  BY <1>1, Taken
<1>3. \A n \in 1..Len(s) : n = 1 \/ (n - 1 \in 1..(Len(s) - 1) /\ t[n - 1] = s[n])
  BY <1>1, <1>2
<1>4. Head(s) = s[1] /\ 1 \in 1..Len(s)
  BY <1>1, Taken
<1>5. ASSUME NEW n \in DOMAIN s PROVE s[n] \in {t[m] : m \in DOMAIN t} \cup {Head(s)}
  BY <1>1, <1>3, <1>4, <1>5
<1>6. ASSUME NEW n \in DOMAIN t PROVE t[n] \in {s[m] : m \in DOMAIN s}
  BY <1>1, <1>2, <1>6
<1>7. Head(s) \in {s[m] : m \in DOMAIN s}
  BY <1>1, <1>4
<1> QED BY <1>5, <1>6, <1>7

-----------------------------------------------------------------------------
(* Types.                                                                  *)
PageStates == [open : BOOLEAN, script : BOOLEAN, paused : BOOLEAN, stopped : BOOLEAN,
               asks : BOOLEAN, fresh : BOOLEAN, stale : BOOLEAN]
Endings == [at : {"no", "pausing", "picturing"}, from : SUBSET Pages, of : SUBSET Pages]

Typed ==
  /\ status \in {"none", "recording", "over"} /\ paused \in BOOLEAN
  /\ starting \in {"no", "binding", "injecting"} /\ starts \in 0..MaxStarts
  /\ alive \in BOOLEAN /\ bound \in BOOLEAN /\ scripted \in BOOLEAN /\ setup \in BOOLEAN
  /\ remade \in BOOLEAN
  /\ page \in [Pages -> PageStates]
  /\ up \in [Pages -> Seq(Reports)] /\ down \in [Pages -> Seq(Messages)]
  /\ ending \in [1..MaxStarts -> Endings]

LEMMA TypedIs == (TypeOK <=> Typed) /\ (TypeOK' <=> Typed')
<1>1. TypeOK <=> Typed
  BY Zenon DEF TypeOK, Typed, PageStates, Endings
<1>2. TypeOK' <=> Typed'
  BY Zenon DEF TypeOK, Typed, PageStates, Endings
<1> QED BY <1>1, <1>2

LEMMA PageFields ==
  ASSUME NEW r \in PageStates, NEW b \in BOOLEAN, NEW d \in BOOLEAN
  PROVE  /\ r.open \in BOOLEAN /\ r.script \in BOOLEAN /\ r.paused \in BOOLEAN
         /\ r.stopped \in BOOLEAN /\ r.fresh \in BOOLEAN /\ r.stale \in BOOLEAN
         /\ [r EXCEPT !.paused = b] \in PageStates /\ [r EXCEPT !.stopped = b] \in PageStates
         /\ [r EXCEPT !.fresh = b] \in PageStates /\ [r EXCEPT !.stale = b] \in PageStates
         /\ [r EXCEPT !.stopped = b, !.asks = d] \in PageStates /\ r.asks \in BOOLEAN
         /\ [r EXCEPT !.fresh = b, !.stale = d] \in PageStates
BY DEF PageStates

(* What is left of a document's flags when one of them changes.            *)
Alike(r, q) == q.open = r.open /\ q.script = r.script
LEMMA PauseFlips ==
  ASSUME NEW r \in PageStates, NEW b, NEW q, q = [r EXCEPT !.paused = b]
  PROVE  Alike(r, q) /\ q.stopped = r.stopped /\ q.fresh = r.fresh /\ q.stale = r.stale /\ q.asks = r.asks
BY DEF PageStates, Alike
LEMMA StopFlips ==
  ASSUME NEW r \in PageStates, NEW b, NEW q, q = [r EXCEPT !.stopped = b]
  PROVE  Alike(r, q) /\ q.paused = r.paused /\ q.fresh = r.fresh /\ q.stale = r.stale /\ q.stopped = b
BY DEF PageStates, Alike
Asked(r, q) == /\ Alike(r, q) /\ q.paused = r.paused /\ q.fresh = r.fresh /\ q.stale = r.stale
LEMMA AskFlips ==
  ASSUME NEW r \in PageStates, NEW b \in BOOLEAN, NEW q, q = [r EXCEPT !.stopped = b, !.asks = b]
  PROVE  Asked(r, q) /\ q.stopped = b /\ q.asks = b
BY DEF PageStates, Alike, Asked
Staled(r, q) == /\ Alike(r, q) /\ q.paused = r.paused /\ q.stopped = r.stopped /\ q.fresh = r.fresh
                /\ q.asks = r.asks
LEMMA Stales ==
  ASSUME NEW r \in PageStates, NEW b \in BOOLEAN, NEW q, q = [r EXCEPT !.stale = b]
  PROVE  Staled(r, q) /\ q.stale = b
BY DEF PageStates, Alike, Staled
LEMMA Freshens ==
  ASSUME NEW r \in PageStates, NEW b, NEW q, q = [r EXCEPT !.fresh = b]
  PROVE  Alike(r, q) /\ q.paused = r.paused /\ q.stopped = r.stopped /\ q.stale = r.stale /\ q.fresh = b
BY DEF PageStates, Alike
LEMMA Loaded ==
  /\ \A ran \in BOOLEAN : /\ Document(ran) \in PageStates
                          /\ Document(ran).open /\ Document(ran).fresh /\ Document(ran).script = ran
                          /\ ~Document(ran).stopped /\ ~Document(ran).paused
  /\ NoPage \in PageStates /\ ~NoPage.open /\ NoPage.fresh /\ ~NoPage.script /\ ~NoPage.stopped
BY DEF Document, NoPage, PageStates

LEMMA ToldTypes ==
  ASSUME TypeOK, NEW ps \in SUBSET Pages, NEW m \in Messages, Tell(ps, m)
  PROVE  /\ down' \in [Pages -> Seq(Messages)]
         /\ \A p \in ps : down'[p] = Append(down[p], m)
         /\ \A p \in Pages \ ps : down'[p] = down[p]
BY TypedIs DEF Tell, Typed

LEMMA HeardTypes ==
  ASSUME TypeOK, NEW p \in Pages, NEW m \in Reports, Hears(p, m)
  PROVE  /\ up' \in [Pages -> Seq(Reports)] /\ up[p] # <<>> /\ Head(up[p]) = m
         /\ up'[p] = Tail(up[p])
         /\ \A q \in Pages \ {p} : up'[q] = up[q]
         /\ UnderWay(p) = UnderWay(p)' \cup {m}
<1>1. /\ up[p] # <<>> /\ Head(up[p]) = m /\ up[p] \in Seq(Reports) /\ up'[p] = Tail(up[p])
      /\ Tail(up[p]) \in Seq(Reports)
  BY Taken DEF Hears, TypeOK
<1>2. UnderWay(p) = UnderWay(p)' \cup {m}
  BY <1>1, TakenRange DEF UnderWay
<1> QED BY <1>1, <1>2 DEF Hears, TypeOK

LEMMA SentTypes ==
  ASSUME TypeOK, NEW p \in Pages, NEW m \in Reports, Send(p, m)
  PROVE  /\ up' \in [Pages -> Seq(Reports)] /\ UnderWay(p)' = UnderWay(p) \cup {m}
         /\ \A q \in Pages \ {p} : up'[q] = up[q]
<1>1. up[p] \in Seq(Reports) /\ up'[p] = Append(up[p], m) /\ Append(up[p], m) \in Seq(Reports)
  BY Appended DEF Send, TypeOK
<1>2. UnderWay(p)' = UnderWay(p) \cup {m}
  BY <1>1, AppendedRange DEF UnderWay
<1> QED BY <1>1, <1>2 DEF Send, TypeOK

(* A stop under way, and what a page that goes leaves of those there are.  *)
LEMMA EndingFields ==
  ASSUME NEW r \in Endings
  PROVE  r.at \in {"no", "pausing", "picturing"} /\ r.from \subseteq Pages /\ r.of \subseteq Pages
BY DEF Endings
LEMMA Loses ==
  ASSUME NEW r \in Endings, NEW a, NEW b, a \subseteq Pages, b \subseteq Pages
  PROVE  [r EXCEPT !.from = a, !.of = b] \in Endings /\ [r EXCEPT !.from = a, !.of = b].at = r.at
BY DEF Endings
LEMMA GoesOn ==
  ASSUME NEW r \in Endings, NEW b, b \subseteq Pages
  PROVE  /\ [r EXCEPT !.at = "picturing", !.of = b] \in Endings
         /\ [at |-> "pausing", from |-> b, of |-> {}] \in Endings /\ NoStop \in Endings
BY DEF Endings, NoStop

Fewer == /\ ending' \in [1..MaxStarts -> Endings]
         /\ \A n \in 1..MaxStarts : ending'[n].at = ending[n].at
LEMMA LoadTypes ==
  ASSUME Typed, NEW p \in Pages, NEW d, Loads(p, d)
  PROVE  Fewer
<1>1. \A n \in 1..MaxStarts : ending[n] \in Endings
  BY DEF Typed
<1>2. ASSUME NEW n \in 1..MaxStarts
      PROVE  /\ [ending[n] EXCEPT !.from = @ \ {p}, !.of = IF d.open THEN @ ELSE @ \ {p}] \in Endings
             /\ [ending[n] EXCEPT !.from = @ \ {p}, !.of = IF d.open THEN @ ELSE @ \ {p}].at = ending[n].at
  <2> DEFINE a == ending[n].from \ {p}
             b == IF d.open THEN ending[n].of ELSE ending[n].of \ {p}
  <2>1. ending[n] \in Endings
    BY <1>1
  <2>2. a \subseteq Pages /\ b \subseteq Pages
    BY <2>1, EndingFields
  <2> HIDE DEF a, b
  <2>3. [ending[n] EXCEPT !.from = a, !.of = b] \in Endings /\ [ending[n] EXCEPT !.from = a, !.of = b].at = ending[n].at
    BY <2>1, <2>2, Loses
  <2> QED BY <2>3 DEF a, b
<1>3. /\ DOMAIN ending = 1..MaxStarts
      /\ ending' = [n \in DOMAIN ending |->
            [ending[n] EXCEPT !.from = @ \ {p}, !.of = IF d.open THEN @ ELSE @ \ {p}]]
  BY DEF Loads, Typed
<1> QED BY <1>2, <1>3 DEF Fewer

LEMMA ContextTypes ==
  ASSUME Typed, NEW d, NewContext(d)
  PROVE  Fewer
<1>1. \A n \in 1..MaxStarts : ending[n] \in Endings /\ {} \in SUBSET Pages
  BY DEF Typed
<1>2. /\ DOMAIN ending = 1..MaxStarts
      /\ ending' = [n \in DOMAIN ending |-> [ending[n] EXCEPT !.from = {}, !.of = {}]]
  BY DEF NewContext, Typed
<1>3. ASSUME NEW n \in 1..MaxStarts
      PROVE  ending'[n] \in Endings /\ ending'[n].at = ending[n].at
  <2>1. ending'[n] = [ending[n] EXCEPT !.from = {}, !.of = {}] /\ ending[n] \in Endings
    BY <1>1, <1>2
  <2>2. \A a : a \subseteq Pages =>
           /\ [ending[n] EXCEPT !.from = a, !.of = a] \in Endings
           /\ [ending[n] EXCEPT !.from = a, !.of = a].at = ending[n].at
    BY <2>1, Loses
  <2> QED BY <2>1, <2>2
<1> QED BY <1>2, <1>3 DEF Fewer

(* A stop that begins, goes on or ends.                                    *)
LEMMA EndsTypes ==
  ASSUME Typed, NEW from \in SUBSET Pages, Ends(from)
  PROVE  /\ ending' \in [1..MaxStarts -> Endings] /\ status = "recording" /\ status' = "over"
         /\ UNCHANGED down
         /\ \A n \in 1..MaxStarts : ending'[n].at = "no" \/ n = starts \/ ending'[n] = ending[n]
BY GoesOn DEF Ends, Typed
LEMMA EndedTypes ==
  ASSUME Typed, NEW n \in DOMAIN ending, NEW told \in SUBSET Pages, NEW m \in Messages, Ended(n, told, m)
  PROVE  /\ ending' \in [1..MaxStarts -> Endings] /\ down' \in [Pages -> Seq(Messages)]
         /\ \A k \in 1..MaxStarts : ending'[k].at = "no" \/ ending'[k] = ending[k]
         /\ UNCHANGED <<worker, context, up>> /\ Tell(told, m)
<1>1. n \in 1..MaxStarts /\ ending' = [ending EXCEPT ![n] = NoStop] /\ Tell(told, m)
  BY DEF Ended, Typed
<1>2. NoStop \in Endings /\ NoStop.at = "no"
  BY DEF NoStop, Endings
<1>3. down' \in [Pages -> Seq(Messages)]
  BY <1>1, TypedIs, ToldTypes
<1> QED BY <1>1, <1>2, <1>3 DEF Ended, Typed

(* A step of one page, and of all of them.                                 *)
LEMMA TypeInductive ==
  /\ Init => Typed
  /\ Typed /\ [Next]_vars => Typed'
<1> USE PagesAssumption, Loaded
<1>1. ASSUME Init PROVE Typed
  <2>1. page \in [Pages -> PageStates]
    BY <1>1 DEF Init
  <2>2. up \in [Pages -> Seq(Reports)] /\ down \in [Pages -> Seq(Messages)]
    BY <1>1 DEF Init
  <2>3. starts \in 0..MaxStarts
    BY <1>1 DEF Init
  <2>4. ending \in [1..MaxStarts -> Endings]
    BY <1>1 DEF Init, NoStop, Endings
  <2> QED BY <1>1, <2>1, <2>2, <2>3, <2>4 DEF Init, Typed
<1>2. ASSUME Typed, [Next]_vars PROVE Typed'
  <2> USE <1>2, TypedIs
  <2>1. ASSUME NEW p \in Pages, Toggles(p) \/ PressesStop(p) PROVE Typed'
    <3>1. page[p] \in PageStates
      BY DEF Typed
    <3>2. PICK r \in PageStates : page' = [page EXCEPT ![p] = r]
      <4>1. CASE Toggles(p)
        <5>1. (~page[p].paused) \in BOOLEAN
          OBVIOUS
        <5>2. [page[p] EXCEPT !.paused = ~page[p].paused] \in PageStates
          BY <3>1, <5>1, PageFields
        <5> QED BY <4>1, <5>2 DEF Toggles
      <4>2. CASE PressesStop(p)
        <5>1. page' = [page EXCEPT ![p] = [page[p] EXCEPT !.stopped = TRUE, !.asks = TRUE]]
          BY <4>2 DEF PressesStop, Typed
        <5> QED BY <3>1, <5>1, PageFields
      <4> QED BY <2>1, <4>1, <4>2
    <3>3. page' \in [Pages -> PageStates]
      BY <3>2 DEF Typed
    <3>4. up' \in [Pages -> Seq(Reports)]
      BY <2>1, SentTypes DEF Toggles, PressesStop, Reports
    <3> QED BY <2>1, <3>3, <3>4 DEF Toggles, PressesStop, Typed, worker, context
  <2>2. ASSUME NEW p \in Pages, Receives(p) PROVE Typed'
    <3>1. page[p] \in PageStates
      BY DEF Typed
    <3>2. page' = page \/ \E r \in PageStates : page' = [page EXCEPT ![p] = r]
      <4>1. /\ [page[p] EXCEPT !.paused = TRUE] \in PageStates
            /\ [page[p] EXCEPT !.paused = FALSE] \in PageStates
            /\ [page[p] EXCEPT !.stopped = TRUE] \in PageStates
            /\ [page[p] EXCEPT !.stopped = FALSE, !.asks = FALSE] \in PageStates
        BY <3>1, PageFields
      <4>2. \/ page' = page
            \/ page' = [page EXCEPT ![p] = [page[p] EXCEPT !.paused = TRUE]]
            \/ page' = [page EXCEPT ![p] = [page[p] EXCEPT !.paused = FALSE]]
            \/ page' = [page EXCEPT ![p] = [page[p] EXCEPT !.stopped = TRUE]]
            \/ page' = [page EXCEPT ![p] = [page[p] EXCEPT !.stopped = FALSE, !.asks = FALSE]]
        BY <2>2 DEF Receives, Typed
      <4> QED BY <4>1, <4>2
    <3>3. page' \in [Pages -> PageStates]
      BY <3>2 DEF Typed
    <3>4. down' \in [Pages -> Seq(Messages)]
      BY <2>2, Taken DEF Receives, Typed
    <3> QED BY <2>2, <3>3, <3>4 DEF Receives, Typed, worker, context
  <2>3. CASE (\E p \in Pages : Navigates(p)) \/ PopupOpens \/ PopupCloses
    <3>1. PICK p \in Pages, d \in PageStates : Loads(p, d) /\ UNCHANGED <<worker, context, up>>
      BY <2>3 DEF Navigates, PopupOpens, PopupCloses, Typed, Pages
    <3>2. page' \in [Pages -> PageStates] /\ down' \in [Pages -> Seq(Messages)]
      <4>1. /\ page' = [page EXCEPT ![p] = d] /\ down' = [down EXCEPT ![p] = <<>>]
            /\ page \in [Pages -> PageStates] /\ down \in [Pages -> Seq(Messages)]
        BY <3>1 DEF Loads, Typed
      <4>2. page' \in [Pages -> PageStates]
        BY <4>1
      <4>3. down' \in [Pages -> Seq(Messages)]
        BY <4>1
      <4> QED BY <4>2, <4>3
    <3>3. ending' \in [1..MaxStarts -> Endings]
      BY <3>1, LoadTypes DEF Fewer
    <3> QED BY <3>1, <3>2, <3>3 DEF Typed, worker, context
  <2>4. ASSUME NEW p \in Pages, HearsPaused(p) PROVE Typed'
    <3>1. page' \in [Pages -> PageStates]
      <4>1. ASSUME NEW q \in Pages
            PROVE  [page[q] EXCEPT !.fresh = @ /\ (status = "none" \/ ~page[q].script)] \in PageStates
        <5>1. (page[q].fresh /\ (status = "none" \/ ~page[q].script)) \in BOOLEAN /\ page[q] \in PageStates
          BY DEF Typed
        <5> QED BY <5>1, PageFields
      <4> QED BY <2>4, <4>1 DEF HearsPaused
    <3>2. paused' \in BOOLEAN
      BY <2>4 DEF HearsPaused, Typed
    <3>3. up' \in [Pages -> Seq(Reports)]
      BY <2>4, HeardTypes DEF HearsPaused, Reports
    <3>4. down' \in [Pages -> Seq(Messages)]
      BY <2>4, ToldTypes DEF HearsPaused, Messages, OpenPages, Typed
    <3> QED BY <2>4, <3>1, <3>2, <3>3, <3>4 DEF HearsPaused, Typed, context
  <2>5. ASSUME NEW p \in Pages, HearsStop(p) PROVE Typed'
    <3>1. up' \in [Pages -> Seq(Reports)]
      BY <2>5, HeardTypes DEF HearsStop, Reports
    <3>2. PICK from \in SUBSET Pages :
            \/ Ends(from)
            \/ Tell(from, "stopped") /\ UNCHANGED <<status, ending>>
      <4>1. (IF page[p].asks THEN {p} ELSE {}) \in SUBSET Pages
        OBVIOUS
      <4> QED BY <2>5, <4>1 DEF HearsStop
    <3>3. CASE Ends(from)
      BY <2>5, <3>1, <3>3, EndsTypes DEF HearsStop, Typed, context
    <3>4. CASE Tell(from, "stopped") /\ UNCHANGED <<status, ending>>
      <4>1. down' \in [Pages -> Seq(Messages)]
        BY <3>4, ToldTypes DEF Messages
      <4> QED BY <2>5, <3>1, <3>4, <4>1 DEF HearsStop, Typed, context
    <3> QED BY <3>2, <3>3, <3>4
  <2>6. CASE Stop
    <3>1. Ends({}) /\ {} \in SUBSET Pages
      BY <2>6 DEF Stop
    <3> QED BY <2>6, <3>1, EndsTypes DEF Stop, Typed, context
  <2>15. ASSUME NEW n \in DOMAIN ending, Pauses(n) PROVE Typed'
    <3>1. ending[n] \in Endings /\ n \in 1..MaxStarts
      BY DEF Typed
    <3>2. CASE \E told \in {ending[n].from, {}}, m \in {"failed", "stopped"} : Ended(n, told, m) /\ UNCHANGED page
      <4>1. PICK told \in SUBSET Pages, m \in Messages : Ended(n, told, m) /\ UNCHANGED page
        <5>1. {ending[n].from, {}} \subseteq SUBSET Pages /\ {"failed", "stopped"} \subseteq Messages
          BY <3>1, EndingFields DEF Messages
        <5> QED BY <3>2, <5>1
      <4> QED BY <4>1, EndedTypes DEF Typed, worker, context
    <3>3. CASE /\ \E q \in OpenPages : ending' = [ending EXCEPT ![n].at = "picturing", ![n].of = {q}]
               /\ UNCHANGED <<worker, context, page, up, down>>
      <4>1. PICK q \in Pages : ending' = [ending EXCEPT ![n] = [ending[n] EXCEPT !.at = "picturing", !.of = {q}]]
        BY <3>3 DEF OpenPages, Typed
      <4>2. [ending[n] EXCEPT !.at = "picturing", !.of = {q}] \in Endings
        BY <3>1, GoesOn
      <4>3. ending' \in [1..MaxStarts -> Endings]
        BY <4>1, <4>2 DEF Typed
      <4> QED BY <3>3, <4>3 DEF Typed, worker, context
    <3> QED BY <2>15, <3>2, <3>3 DEF Pauses
  <2>16. ASSUME NEW n \in DOMAIN ending, Pictured(n) PROVE Typed'
    <3>1. ending[n] \in Endings /\ n \in 1..MaxStarts
      BY DEF Typed
    <3>2. PICK told \in SUBSET Pages :
            /\ Ended(n, told, "stopped")
            /\ page' = [p \in Pages |-> [page[p] EXCEPT !.stale = @ \/ (p \in told /\ n < starts)]]
      <4>1. {ending[n].from, ending[n].from \cup ending[n].of} \subseteq SUBSET Pages
        BY <3>1, EndingFields
      <4> QED BY <2>16, <4>1 DEF Pictured
    <3>3. page' \in [Pages -> PageStates]
      <4>1. ASSUME NEW p \in Pages
            PROVE  [page[p] EXCEPT !.stale = @ \/ (p \in told /\ n < starts)] \in PageStates
        <5>1. (page[p].stale \/ (p \in told /\ n < starts)) \in BOOLEAN /\ page[p] \in PageStates
          BY DEF Typed
        <5> QED BY <5>1, PageFields
      <4> QED BY <3>2, <4>1
    <3>4. "stopped" \in Messages
      BY DEF Messages
    <3> QED BY <3>2, <3>3, <3>4, EndedTypes DEF Typed, worker, context
  <2>7. CASE Start
    <3>1. page' \in [Pages -> PageStates]
      <4>1. ASSUME NEW p \in Pages
            PROVE  [page[p] EXCEPT !.fresh = TRUE,
                      !.stale = @ \/ page[p].stopped \/ "stopped" \in OnTheWay(p)] \in PageStates
        <5>1. (page[p].stale \/ page[p].stopped \/ "stopped" \in OnTheWay(p)) \in BOOLEAN /\ page[p] \in PageStates
          BY DEF Typed
        <5> QED BY <5>1, PageFields
      <4> QED BY <2>7, <4>1 DEF Start
    <3>2. starts' \in 0..MaxStarts
      <4>1. MaxStarts \in Nat
        OBVIOUS
      <4>2. starts \in 0..MaxStarts /\ starts < MaxStarts /\ starts' = starts + 1
        BY <2>7 DEF Start, Typed
      <4> QED BY <4>1, <4>2
    <3> QED BY <2>7, <3>1, <3>2 DEF Start, Typed, context
  <2>8. CASE Bind
    <3>1. (setup \/ alive) \in BOOLEAN /\ (bound \/ (alive /\ ~setup)) \in BOOLEAN
      OBVIOUS
    <3>2. (IF ~setup /\ alive THEN FALSE ELSE remade) \in BOOLEAN
      BY DEF Typed
    <3> QED BY <2>8, <3>1, <3>2 DEF Bind, Typed
  <2>9. CASE Discard
    BY <2>9 DEF Discard, Typed, context
  <2>10. CASE Inject
    <3>1. page' \in [Pages -> PageStates]
      BY <2>10 DEF Inject, Typed
    <3>2. down' \in [Pages -> Seq(Messages)]
      BY <2>10 DEF Inject, Typed
    <3>3. (scripted \/ alive) \in BOOLEAN
      OBVIOUS
    <3> QED BY <2>10, <3>1, <3>2, <3>3 DEF Inject, Typed
  <2>11. ASSUME NEW d \in {NoPage, Document(FALSE)}, NewContext(d)
         PROVE  /\ page' \in [Pages -> PageStates] /\ down' \in [Pages -> Seq(Messages)]
                /\ bound' = FALSE /\ scripted' = FALSE /\ remade' = TRUE /\ Fewer
    <3>1. d \in PageStates /\ NoPage \in PageStates
      BY <2>11
    <3>2. page' \in [Pages -> PageStates]
      BY <2>11, <3>1 DEF NewContext
    <3>3. down' \in [Pages -> Seq(Messages)]
      <4>1. down' = [q \in Pages |-> <<>>]
        BY <2>11 DEF NewContext
      <4> QED BY <4>1
    <3> QED BY <2>11, <3>2, <3>3, ContextTypes DEF NewContext
  <2>12. CASE ContextDies
    BY <2>11, <2>12 DEF ContextDies, Typed, Fewer
  <2>13. CASE Resumed \/ Recreated
    BY <2>11, <2>13 DEF Resumed, Recreated, Typed, worker, Fewer
  <2>14. CASE UNCHANGED vars
    BY <2>14 DEF vars, worker, context, Typed
  <2> QED BY <2>1, <2>2, <2>3, <2>4, <2>5, <2>6, <2>7, <2>8, <2>9, <2>10, <2>12, <2>13, <2>14, <2>15, <2>16 DEF Next
<1> QED BY <1>1, <1>2

-----------------------------------------------------------------------------
(* What a message or a report does to a queue of a page.                   *)
LEMMA ToldWay ==
  ASSUME Typed, NEW ps \in SUBSET Pages, NEW m \in Messages, Tell(ps, m), NEW p \in Pages
  PROVE  /\ p \in ps => down'[p] = Append(down[p], m) /\ OnTheWay(p)' = OnTheWay(p) \cup {m}
         /\ p \notin ps => down'[p] = down[p] /\ OnTheWay(p)' = OnTheWay(p)
<1>1. CASE p \in ps
  <2>1. down'[p] = Append(down[p], m) /\ down[p] \in Seq(Messages)
    BY <1>1, TypedIs, ToldTypes DEF Typed
  <2>2. OnTheWay(p)' = OnTheWay(p) \cup {m}
    BY <2>1, AppendedRange DEF OnTheWay
  <2> QED BY <1>1, <2>1, <2>2
<1>2. CASE p \notin ps
  BY <1>2, TypedIs, ToldTypes, ZenonT(40) DEF OnTheWay
<1> QED BY <1>1, <1>2

LEMMA ReceivedWay ==
  ASSUME Typed, NEW p \in Pages, Receives(p)
  PROVE  /\ down[p] \in Seq(Messages) /\ down[p] # <<>> /\ down'[p] = Tail(down[p])
         /\ OnTheWay(p) = OnTheWay(p)' \cup {Head(down[p])}
         /\ \A q \in Pages \ {p} : down'[q] = down[q] /\ page'[q] = page[q]
         /\ UNCHANGED up
<1>1. /\ down[p] \in Seq(Messages) /\ down[p] # <<>> /\ down'[p] = Tail(down[p])
      /\ \A q \in Pages \ {p} : down'[q] = down[q] /\ page'[q] = page[q]
      /\ UNCHANGED up
  BY DEF Receives, Typed
<1>2. OnTheWay(p) = OnTheWay(p)' \cup {Head(down[p])}
  BY <1>1, TakenRange DEF OnTheWay
<1> QED BY <1>1, <1>2

-----------------------------------------------------------------------------
(* All pages report while a recording runs.  A context the setup was made  *)
(* for is alive and has the binding and the init script; what is stopped,  *)
(* or will be, was so before this recording or by the stop() of an earlier *)
(* one, or has a stop of its own under way.  A stop() that has not ended   *)
(* is of a recording that is over.                                         *)
MayStop(p) == /\ page[p].stopped => page[p].stale \/ (page[p].asks /\ "stop" \in UnderWay(p))
              /\ "stopped" \in OnTheWay(p) => page[p].stale
SetUp == /\ ~alive => remade
         /\ ~remade /\ setup => bound
         /\ status = "recording" /\ ~remade /\ starting # "binding" => setup
         /\ status = "recording" /\ ~remade /\ starting = "no" => scripted
Scripted == status = "recording" /\ ~remade /\ starting = "no"
              => \A p \in Pages : page[p].open => page[p].script
Earlier == \A n \in 1..MaxStarts :
  ending[n].at # "no" => n <= starts /\ (status = "recording" => n < starts)
RunsInv == /\ Typed /\ Earlier /\ SetUp /\ Scripted
           /\ (status = "recording" => \A p \in Pages : MayStop(p))

LEMMA EarlierIsInductive ==
  ASSUME Typed, Earlier, [Next]_vars
  PROVE  Earlier'
<1> USE DEF Earlier
<1>1. starts \in 0..MaxStarts /\ MaxStarts \in Nat /\ status \in {"none", "recording", "over"}
  BY PagesAssumption DEF Typed
<1>2. CASE \A n \in 1..MaxStarts : ending'[n].at = ending[n].at
  <2>1. CASE Start
    <3>1. starts' = starts + 1 /\ starts \in Nat
      <4>1. starts' = starts + 1
        BY <2>1 DEF Start
      <4> QED BY <1>1, <4>1
    <3>2. \A n \in 1..MaxStarts : ending'[n].at # "no" => n <= starts
      BY <1>2
    <3>3. ASSUME NEW n \in 1..MaxStarts, ending'[n].at # "no" PROVE n <= starts' /\ n < starts'
      BY <3>1, <3>2, <3>3
    <3> QED BY <3>3
  <2>2. CASE starts' = starts /\ (status' = "recording" => status = "recording")
    BY <1>1, <1>2, <2>2
  <2>3. Start \/ (starts' = starts /\ (status' = "recording" => status = "recording"))
    BY DEF Next, vars, worker, Toggles, PressesStop, Receives, Navigates, PopupOpens, PopupCloses, HearsPaused, HearsStop, Ends,
           Bind, Inject, Stop, Discard, Pauses, Pictured, Ended, ContextDies, Resumed, Recreated
  <2> QED BY <2>1, <2>2, <2>3
<1>3. ASSUME NEW from \in SUBSET Pages, Ends(from), starts' = starts PROVE Earlier'
  <2>1. /\ status' = "over"
        /\ \A n \in 1..MaxStarts : ending'[n].at = "no" \/ n = starts \/ ending'[n] = ending[n]
    BY <1>3, EndsTypes
  <2> QED BY <1>1, <1>3, <2>1
<1>4. ASSUME \A n \in 1..MaxStarts : ending'[n].at = "no" \/ ending'[n] = ending[n] \/ ending[n].at # "no",
             UNCHANGED <<status, starts>>
      PROVE  Earlier'
  BY <1>4
<1>5. ASSUME NEW p \in Pages, HearsStop(p) PROVE Earlier'
  <2>1. CASE Ends(IF page[p].asks THEN {p} ELSE {})
    BY <1>3, <1>5, <2>1 DEF HearsStop
  <2>2. CASE UNCHANGED <<status, ending>>
    BY <1>5, <2>2 DEF HearsStop
  <2> QED BY <1>5, <2>1, <2>2 DEF HearsStop
<1>6. CASE Stop
  BY <1>3, <1>6 DEF Stop
<1>7. ASSUME NEW n \in DOMAIN ending, Pauses(n) \/ Pictured(n) PROVE Earlier'
  <2>1. UNCHANGED <<status, starts>> /\ ending[n].at # "no" /\ DOMAIN ending = 1..MaxStarts
    BY <1>7 DEF Pauses, Pictured, Ended, worker, Typed
  <2>2. \A k \in 1..MaxStarts \ {n} : ending'[k] = ending[k]
    BY <1>7 DEF Pauses, Pictured, Ended, Typed
  <2> QED BY <1>4, <2>1, <2>2
<1>8. CASE (\E p \in Pages : Navigates(p)) \/ PopupOpens \/ PopupCloses \/ ContextDies \/ Resumed \/ Recreated
  <2>1. (\E p \in Pages : \E d : Loads(p, d)) \/ (\E d : NewContext(d))
    BY <1>8 DEF Navigates, PopupOpens, PopupCloses, ContextDies, Resumed, Recreated, Pages
  <2> QED BY <1>2, <2>1, LoadTypes, ContextTypes DEF Fewer
<1>9. CASE \/ \E p \in Pages : Toggles(p) \/ PressesStop(p) \/ Receives(p) \/ HearsPaused(p)
           \/ Start \/ Bind \/ Inject \/ Discard \/ UNCHANGED vars
  <2>1. ending' = ending
    BY <1>9 DEF Toggles, PressesStop, Receives, HearsPaused, Start, Bind, Inject, Discard, vars
  <2> QED BY <1>2, <2>1
<1> QED BY <1>5, <1>6, <1>7, <1>8, <1>9 DEF Next

LEMMA RunsIsInductive ==
  /\ Init => RunsInv
  /\ RunsInv /\ [Next]_vars => RunsInv'
<1> USE Loaded
<1>1. ASSUME Init PROVE RunsInv
  <2>1. Typed
    BY <1>1, TypeInductive
  <2>2. Earlier
    BY <1>1 DEF Init, NoStop, Earlier
  <2> QED BY <1>1, <2>1, <2>2 DEF Init, RunsInv, SetUp, Scripted
<1>2. ASSUME RunsInv, [Next]_vars PROVE RunsInv'
  <2> USE <1>2 DEF RunsInv
  <2>1. Typed' /\ Earlier'
    BY TypeInductive, EarlierIsInductive
  <2> SUFFICES SetUp' /\ Scripted' /\ (status' = "recording" => \A p \in Pages : MayStop(p)')
    BY <2>1
  <2>2. ASSUME NEW p \in Pages, Toggles(p) \/ PressesStop(p)
        PROVE  SetUp' /\ Scripted' /\ (status' = "recording" => \A q \in Pages : MayStop(q)')
    <3>1. UNCHANGED <<worker, context, down>>
      BY <2>2 DEF Toggles, PressesStop
    <3>2. \A q \in Pages : page'[q].open = page[q].open /\ page'[q].script = page[q].script
                           /\ page'[q].stale = page[q].stale
      <4>1. \A q \in Pages \ {p} : page'[q] = page[q]
        BY <2>2 DEF Toggles, PressesStop, Typed
      <4>2. page[p] \in PageStates
        BY DEF Typed
      <4>3. CASE Toggles(p)
        <5>1. page'[p] = [page[p] EXCEPT !.paused = ~page[p].paused]
          BY <4>3 DEF Toggles, Typed
        <5> QED BY <4>1, <4>2, <5>1, PauseFlips DEF Alike
      <4>4. CASE PressesStop(p)
        <5>1. page'[p] = [page[p] EXCEPT !.stopped = TRUE, !.asks = TRUE]
          BY <4>4 DEF PressesStop, Typed
        <5>2. Asked(page[p], page'[p])
          BY <4>2, <5>1, AskFlips
        <5> QED BY <4>1, <5>2 DEF Asked, Alike
      <4> QED BY <2>2, <4>3, <4>4
    <3>3. PICK m \in Reports :
            /\ Send(p, m)
            /\ \A q \in Pages : \/ page'[q].stopped = page[q].stopped /\ page'[q].asks = page[q].asks
                                \/ q = p /\ m = "stop" /\ page'[q].asks
      <4>1. CASE Toggles(p)
        BY <4>1 DEF Toggles, Typed, PageStates, Reports
      <4>2. CASE PressesStop(p)
        <5>1. /\ page'[p] = [page[p] EXCEPT !.stopped = TRUE, !.asks = TRUE] /\ Send(p, "stop")
              /\ \A q \in Pages \ {p} : page'[q] = page[q]
          BY <4>2 DEF PressesStop, Typed
        <5>2. page'[p].asks /\ "stop" \in Reports
          BY <5>1 DEF PageStates, Typed, Reports
        <5> QED BY <5>1, <5>2
      <4> QED BY <2>2, <4>1, <4>2
    <3>4. \A q \in Pages : UnderWay(q) \subseteq UnderWay(q)' /\ m \in UnderWay(p)'
      BY <3>3, TypedIs, SentTypes, ZenonT(40) DEF UnderWay
    <3>5. \A q \in Pages : OnTheWay(q)' = OnTheWay(q)
      BY <3>1 DEF OnTheWay
    <3> QED BY <3>1, <3>2, <3>3, <3>4, <3>5 DEF SetUp, Scripted, MayStop, worker, context
  <2>3. ASSUME NEW p \in Pages, Receives(p)
        PROVE  SetUp' /\ Scripted' /\ (status' = "recording" => \A q \in Pages : MayStop(q)')
    <3>1. UNCHANGED <<worker, context, up>>
      BY <2>3 DEF Receives
    <3>2. \A q \in Pages : page'[q].open = page[q].open /\ page'[q].script = page[q].script
                           /\ page'[q].stale = page[q].stale
      BY <2>3 DEF Receives, Typed, PageStates
    <3>3. \A q \in Pages : page'[q].stopped => \/ page[q].stopped /\ page'[q].asks = page[q].asks
                                             \/ "stopped" \in OnTheWay(q)
      <4>1. \A q \in Pages \ {p} : page'[q].stopped = page[q].stopped /\ page'[q].asks = page[q].asks
        BY <2>3, ReceivedWay
      <4>2. page'[p].stopped => \/ page[p].stopped /\ page'[p].asks = page[p].asks
                                \/ Head(down[p]) = "stopped"
        <5>1. page[p] \in PageStates
          BY DEF Typed
        <5>2. \/ page' = page \/ Head(down[p]) = "stopped"
              \/ \E b : page'[p] = [page[p] EXCEPT !.paused = b]
              \/ page'[p] = [page[p] EXCEPT !.stopped = FALSE, !.asks = FALSE]
          BY <2>3 DEF Receives, Typed
        <5>3. CASE \E b : page'[p] = [page[p] EXCEPT !.paused = b]
          BY <5>1, <5>3, PauseFlips
        <5>4. CASE page'[p] = [page[p] EXCEPT !.stopped = FALSE, !.asks = FALSE]
          <6>1. page'[p].stopped = FALSE
            BY <5>1, <5>4, AskFlips
          <6> QED BY <6>1
        <5> QED BY <5>2, <5>3, <5>4
      <4> QED BY <2>3, <4>1, <4>2, ReceivedWay
    <3>4. \A q \in Pages : OnTheWay(q)' \subseteq OnTheWay(q) /\ UnderWay(q)' = UnderWay(q)
      <4>1. OnTheWay(p)' \subseteq OnTheWay(p)
        BY <2>3, ReceivedWay
      <4>2. \A q \in Pages \ {p} : OnTheWay(q)' \subseteq OnTheWay(q)
        BY <2>3, ReceivedWay DEF OnTheWay
      <4> QED BY <3>1, <4>1, <4>2 DEF UnderWay
    <3> QED BY <3>1, <3>2, <3>3, <3>4 DEF SetUp, Scripted, MayStop, worker, context
  <2>4. CASE (\E p \in Pages : Navigates(p)) \/ PopupOpens \/ PopupCloses
    <3>1. PICK p \in Pages, d \in {NoPage, Document(scripted)} : Loads(p, d) /\ UNCHANGED <<worker, context, up>>
      BY <2>4 DEF Navigates, PopupOpens, PopupCloses, Pages
    <3>2. /\ page'[p] = d /\ down'[p] = <<>>
          /\ \A q \in Pages \ {p} : page'[q] = page[q] /\ down'[q] = down[q]
      BY <3>1 DEF Loads, Typed
    <3>3. ~d.stopped /\ (d.open => d.script = scripted)
      BY <3>1 DEF Typed
    <3>4. OnTheWay(p)' = {} /\ \A q \in Pages \ {p} : OnTheWay(q)' = OnTheWay(q)
      BY <3>2 DEF OnTheWay
    <3>5. \A q \in Pages : UnderWay(q)' = UnderWay(q)
      BY <3>1 DEF UnderWay
    <3> QED BY <3>1, <3>2, <3>3, <3>4, <3>5 DEF SetUp, Scripted, MayStop, worker, context
  <2>5. ASSUME NEW p \in Pages, HearsPaused(p)
        PROVE  SetUp' /\ Scripted' /\ (status' = "recording" => \A q \in Pages : MayStop(q)')
    <3>1. UNCHANGED <<status, starting, starts, context>>
      BY <2>5 DEF HearsPaused
    <3>2. \A q \in Pages : page'[q].open = page[q].open /\ page'[q].script = page[q].script
                           /\ page'[q].stale = page[q].stale /\ page'[q].stopped = page[q].stopped
                           /\ page'[q].asks = page[q].asks
      BY <2>5 DEF HearsPaused, Typed, PageStates
    <3>3. \A q \in Pages : "stop" \in UnderWay(q) => "stop" \in UnderWay(q)'
      <4>1. PICK m \in {"pause", "resume"} : Hears(p, m)
        BY <2>5 DEF HearsPaused
      <4>2. UnderWay(p) = UnderWay(p)' \cup {m} /\ \A q \in Pages \ {p} : up'[q] = up[q]
        BY <4>1, TypedIs, HeardTypes DEF Reports
      <4> QED BY <4>1, <4>2 DEF UnderWay
    <3>4. \A q \in Pages : "stopped" \in OnTheWay(q)' => "stopped" \in OnTheWay(q)
      <4>1. UNCHANGED down \/ \E m \in {"paused", "running"} : Tell(OpenPages, m)
        BY <2>5 DEF HearsPaused
      <4>2. OpenPages \in SUBSET Pages /\ {"paused", "running"} \subseteq Messages
        BY DEF OpenPages, Messages
      <4>3. ASSUME NEW m \in {"paused", "running"}, Tell(OpenPages, m), NEW q \in Pages
            PROVE  "stopped" \in OnTheWay(q)' => "stopped" \in OnTheWay(q)
        <5>1. m \in Messages /\ m # "stopped"
          BY <4>2, <4>3
        <5>2. OnTheWay(q)' = OnTheWay(q) \/ OnTheWay(q)' = OnTheWay(q) \cup {m}
          BY <4>2, <4>3, <5>1, ToldWay
        <5> QED BY <5>1, <5>2
      <4> QED BY <4>1, <4>3 DEF OnTheWay
    <3> QED BY <3>1, <3>2, <3>3, <3>4 DEF SetUp, Scripted, MayStop, context
  <2>6. ASSUME NEW p \in Pages, HearsStop(p)
        PROVE  SetUp' /\ Scripted' /\ (status' = "recording" => \A q \in Pages : MayStop(q)')
    BY <2>6 DEF HearsStop, Ends, SetUp, Scripted, context
  <2>7. CASE Stop \/ Discard
    BY <2>7 DEF Stop, Ends, Discard, SetUp, Scripted, context
  <2>14. ASSUME NEW n \in DOMAIN ending, Pauses(n) \/ Pictured(n)
         PROVE  SetUp' /\ Scripted' /\ (status' = "recording" => \A q \in Pages : MayStop(q)')
    <3>1. UNCHANGED <<worker, context, up>> /\ ending[n].at # "no" /\ n \in 1..MaxStarts /\ ending[n] \in Endings
      BY <2>14 DEF Pauses, Pictured, Ended, Typed
    <3>2. \A q \in Pages : UnderWay(q)' = UnderWay(q)
      BY <3>1 DEF UnderWay
    <3>3. PICK told \in SUBSET Pages :
            \/ page' = page /\ UNCHANGED down
            \/ page' = page /\ Tell(told, "failed")
            \/ page' = page /\ Tell(told, "stopped") /\ told = {}
            \/ /\ Tell(told, "stopped")
               /\ page' = [p \in Pages |-> [page[p] EXCEPT !.stale = @ \/ (p \in told /\ n < starts)]]
      <4>1. /\ ending[n].from \in SUBSET Pages /\ {} \in SUBSET Pages
            /\ ending[n].from \cup ending[n].of \in SUBSET Pages
        BY <3>1, EndingFields
      <4>2. CASE Pauses(n)
        <5>1. page' = page
          BY <4>2 DEF Pauses
        <5>2. (Tell(ending[n].from, "failed") \/ Tell({}, "stopped")) \/ UNCHANGED down
          BY <4>2 DEF Pauses, Ended
        <5> QED BY <4>1, <5>1, <5>2
      <4>3. CASE Pictured(n)
        BY <4>1, <4>3 DEF Pictured, Ended
      <4> QED BY <2>14, <4>2, <4>3
    <3>4. ASSUME NEW q \in Pages
          PROVE  /\ Staled(page[q], page'[q]) /\ (page[q].stale => page'[q].stale)
                 /\ UNCHANGED down \/ Tell(told, "failed")
                      \/ (Tell(told, "stopped") /\ (q \in told /\ n < starts => page'[q].stale))
      <4>1. page[q] \in PageStates
        BY DEF Typed
      <4>2. CASE page' = page /\ (UNCHANGED down \/ Tell(told, "failed") \/ (Tell(told, "stopped") /\ told = {}))
        BY <4>2 DEF Staled, Alike
      <4>3. CASE /\ Tell(told, "stopped")
                 /\ page' = [p \in Pages |-> [page[p] EXCEPT !.stale = @ \/ (p \in told /\ n < starts)]]
        <5> DEFINE c == page[q].stale \/ (q \in told /\ n < starts)
        <5>1. page'[q] = [page[q] EXCEPT !.stale = c] /\ c \in BOOLEAN /\ (page[q].stale => c)
              /\ (q \in told /\ n < starts => c)
          BY <4>3 DEF Typed
        <5> HIDE DEF c
        <5>2. Staled(page[q], page'[q]) /\ page'[q].stale = c
          BY <4>1, <5>1, Stales
        <5> QED BY <4>3, <5>1, <5>2
      <4> QED BY <3>3, <4>2, <4>3
    <3>5. status = "recording" => n < starts
      BY <3>1 DEF Earlier
    <3>6. ASSUME NEW q \in Pages, status = "recording"
          PROVE  "stopped" \in OnTheWay(q)' => "stopped" \in OnTheWay(q) \/ page'[q].stale
      <4>1. CASE UNCHANGED down
        BY <4>1 DEF OnTheWay
      <4>2. CASE Tell(told, "failed")
        <5>1. OnTheWay(q)' = OnTheWay(q) \/ OnTheWay(q)' = OnTheWay(q) \cup {"failed"}
          BY <4>2, ToldWay DEF Messages
        <5> QED BY <5>1
      <4>3. CASE Tell(told, "stopped") /\ (q \in told /\ n < starts => page'[q].stale)
        <5>1. q \in told \/ OnTheWay(q)' = OnTheWay(q)
          BY <4>3, ToldWay DEF Messages
        <5> QED BY <3>5, <3>6, <4>3, <5>1
      <4> QED BY <3>4, <4>1, <4>2, <4>3
    <3>7. SetUp' /\ Scripted'
      BY <3>1, <3>4 DEF SetUp, Scripted, Alike, Staled, worker, context
    <3> QED BY <3>1, <3>2, <3>4, <3>6, <3>7 DEF MayStop, Staled, worker
  <2>8. CASE Start
    <3>1. \A q \in Pages : page'[q].stopped = page[q].stopped
                           /\ page'[q].stale = (page[q].stale \/ page[q].stopped \/ "stopped" \in OnTheWay(q))
      <4>1. ASSUME NEW q \in Pages
            PROVE  /\ page'[q].stopped = page[q].stopped
                   /\ page'[q].stale = (page[q].stale \/ page[q].stopped \/ "stopped" \in OnTheWay(q))
        <5> DEFINE d == page[q].stale \/ page[q].stopped \/ "stopped" \in OnTheWay(q)
        <5>1. page[q] \in PageStates /\ page'[q] = [page[q] EXCEPT !.fresh = TRUE, !.stale = d]
          BY <2>8 DEF Start, Typed
        <5> HIDE DEF d
        <5>2. page'[q].stopped = page[q].stopped /\ page'[q].stale = d
          BY <5>1 DEF PageStates
        <5> QED BY <5>2 DEF d
      <4> QED BY <4>1
    <3>2. \A q \in Pages : OnTheWay(q)' = OnTheWay(q)
      BY <2>8 DEF Start, OnTheWay
    <3> QED BY <2>8, <3>1, <3>2 DEF Start, SetUp, Scripted, MayStop, context
  <2>9. CASE Bind
    <3>1. \A q \in Pages : OnTheWay(q)' = OnTheWay(q) /\ UnderWay(q)' = UnderWay(q)
      BY <2>9 DEF Bind, OnTheWay, UnderWay
    <3>2. SetUp' /\ Scripted'
      BY <2>9 DEF Bind, SetUp, Scripted, Typed
    <3> QED BY <2>9, <3>1, <3>2 DEF Bind, MayStop
  <2>10. CASE Inject
    <3>1. \A q \in Pages : UnderWay(q)' = UnderWay(q)
      BY <2>10 DEF Inject, UnderWay
    <3>2. ASSUME NEW q \in Pages
          PROVE  /\ page'[q] = IF page[q].open /\ ~page[q].script THEN Document(TRUE) ELSE page[q]
                 /\ page[q].script => down'[q] = down[q]
                 /\ ~page[q].script => down'[q] = <<>>
      BY <2>10 DEF Inject
    <3>3. ASSUME NEW q \in Pages PROVE page'[q].open => page'[q].script
      BY <3>2, <3>3 DEF Typed
    <3>4. ASSUME NEW q \in Pages, status = "recording" PROVE MayStop(q)'
      <4>1. CASE page[q].script
        <5>1. page'[q] = page[q] /\ down'[q] = down[q]
          BY <3>2, <4>1
        <5>2. OnTheWay(q)' = OnTheWay(q)
          BY <5>1 DEF OnTheWay
        <5> QED BY <3>1, <3>4, <5>1, <5>2 DEF MayStop
      <4>2. CASE ~page[q].script
        <5>1. OnTheWay(q)' = {}
          <6>1. down'[q] = <<>>
            BY <3>2, <4>2
          <6> QED BY <6>1 DEF OnTheWay
        <5> QED BY <3>1, <3>2, <3>4, <4>2, <5>1 DEF MayStop
      <4> QED BY <4>1, <4>2
    <3>5. SetUp' /\ Scripted'
      BY <2>10, <3>3 DEF Inject, SetUp, Scripted
    <3> QED BY <2>10, <3>4, <3>5 DEF Inject
  <2>11. ASSUME NEW d \in {NoPage, Document(FALSE)}, NewContext(d)
         PROVE  /\ remade' /\ \A q \in Pages : MayStop(q)'
    <3>1. \A q \in Pages : ~page'[q].stopped /\ down'[q] = <<>>
      BY <2>11 DEF NewContext
    <3>2. \A q \in Pages : OnTheWay(q)' = {}
      BY <3>1 DEF OnTheWay
    <3> QED BY <2>11, <3>1, <3>2 DEF NewContext, MayStop
  <2>12. CASE ContextDies \/ Resumed \/ Recreated
    BY <2>11, <2>12 DEF ContextDies, Resumed, Recreated, SetUp, Scripted, worker
  <2>13. CASE UNCHANGED vars
    <3>1. \A q \in Pages : OnTheWay(q)' = OnTheWay(q) /\ UnderWay(q)' = UnderWay(q)
      BY <2>13 DEF vars, OnTheWay, UnderWay
    <3> QED BY <2>13, <3>1 DEF vars, worker, context, SetUp, Scripted, MayStop
  <2> QED BY <2>2, <2>3, <2>4, <2>5, <2>6, <2>7, <2>8, <2>9, <2>10, <2>12, <2>13, <2>14 DEF Next
<1> QED BY <1>1, <1>2

(* While a recording runs and is set up, every open page reports to it,    *)
(* unless it was stopped before, or since by the stop() of an earlier      *)
(* recording, which tells a page after its waits (setupRecording,          *)
(* injectScript, takeFinalScreenshot).                                     *)
THEOREM AllPagesReport == Spec => []RunsEverywhere
<1>1. RunsInv => RunsEverywhere
  BY DEF RunsInv, SetUp, Scripted, MayStop, RunsEverywhere, OpenPages
<1> QED BY <1>1, RunsIsInductive, PTL DEF Spec

-----------------------------------------------------------------------------
(* The pages agree on the pause.  To a page that runs the script and was   *)
(* pushed a pause of this recording, the last word under way is what the   *)
(* recording does; when none is, the page shows it, unless it has reported *)
(* a click of its own that the worker has not heard.                       *)
Says == {"paused", "running"}
Word == IF paused THEN "paused" ELSE "running"
LastWord(q, word) == \A n \in DOMAIN q :
  (q[n] \in Says /\ \A k \in DOMAIN q : k > n => q[k] \notin Says) => q[n] = word
Heeds(p) ==
  /\ LastWord(down[p], Word)
  /\ OnTheWay(p) \cap Says = {} /\ UnderWay(p) \subseteq {"stop"} => (page[p].paused <=> paused)
Pushed(p) == page[p].open /\ ~page[p].fresh
PausedInv == /\ Typed
             /\ status # "none" => \A p \in Pages : Pushed(p) => page[p].script /\ Heeds(p)

LEMMA WordAdded ==
  ASSUME NEW q \in Seq(Messages), NEW m \in Messages, NEW r, r = Append(q, m), NEW word,
         \/ m \notin Says /\ LastWord(q, word)
         \/ m \in Says /\ word = m
  PROVE  LastWord(r, word)
<1>1. /\ DOMAIN r = 1..(Len(q) + 1) /\ DOMAIN q = 1..Len(q) /\ Len(q) \in Nat
      /\ \A n \in 1..Len(q) : r[n] = q[n]
      /\ r[Len(q) + 1] = m
  BY Appended
<1>2. CASE m \notin Says
  BY <1>1, <1>2 DEF LastWord
<1>3. CASE m \in Says
  BY <1>1, <1>3 DEF LastWord
<1> QED BY <1>2, <1>3

LEMMA WordTaken ==
  ASSUME NEW q \in Seq(Messages), q # <<>>, NEW r, r = Tail(q), NEW word, LastWord(q, word)
  PROVE  /\ LastWord(r, word)
         /\ {r[n] : n \in DOMAIN r} \cap Says = {} /\ Head(q) \in Says => Head(q) = word
<1>1. /\ DOMAIN r = 1..(Len(q) - 1) /\ DOMAIN q = 1..Len(q) /\ Len(q) \in Nat \ {0}
      /\ \A n \in 1..(Len(q) - 1) : r[n] = q[n + 1]
      /\ Head(q) = q[1]
  BY Taken
<1>2. ASSUME NEW n \in DOMAIN r, r[n] \in Says, \A k \in DOMAIN r : k > n => r[k] \notin Says
      PROVE  r[n] = word
  <2>1. n + 1 \in DOMAIN q /\ q[n + 1] = r[n]
    BY <1>1, <1>2
  <2>2. ASSUME NEW k \in DOMAIN q, k > n + 1 PROVE q[k] \notin Says
    <3>1. k - 1 \in DOMAIN r /\ k - 1 > n /\ r[k - 1] = q[k]
      BY <1>1, <1>2, <2>2
    <3> QED BY <1>2, <3>1
  <2> QED BY <1>2, <2>1, <2>2 DEF LastWord
<1>3. ASSUME {r[n] : n \in DOMAIN r} \cap Says = {}, Head(q) \in Says
      PROVE  Head(q) = word
  <2>1. ASSUME NEW k \in DOMAIN q, k > 1 PROVE q[k] \notin Says
    <3>1. k - 1 \in DOMAIN r /\ r[k - 1] = q[k]
      BY <1>1, <2>1
    <3> QED BY <1>3, <3>1
  <2>2. 1 \in DOMAIN q
    BY <1>1
  <2> QED BY <1>1, <1>3, <2>1, <2>2 DEF LastWord
<1> QED BY <1>2, <1>3 DEF LastWord

(* What a step that says nothing of the pause leaves of a page's pause.    *)
LEMMA HeedsOn ==
  ASSUME NEW p \in Pages, Heeds(p), paused' <=> paused, page'[p].paused <=> page[p].paused,
         down'[p] = down[p],
         UnderWay(p)' \subseteq {"stop"} => UnderWay(p) \subseteq {"stop"}
  PROVE  Heeds(p)'
BY DEF Heeds, LastWord, Word, OnTheWay

LEMMA HeedsStill ==
  ASSUME NEW p \in Pages, Typed, Heeds(p), paused' <=> paused, page'[p].paused <=> page[p].paused,
         NEW ps \in SUBSET Pages, NEW m \in {"stopped", "failed"}, Tell(ps, m),
         UnderWay(p)' \subseteq {"stop"} => UnderWay(p) \subseteq {"stop"}
  PROVE  Heeds(p)'
<1>1. m \in Messages /\ m \notin Says
  BY DEF Messages, Says
<1>2. CASE p \in ps
  <2>1. down[p] \in Seq(Messages) /\ down'[p] = Append(down[p], m) /\ OnTheWay(p)' = OnTheWay(p) \cup {m}
    BY <1>1, <1>2, ToldWay DEF Typed
  <2>2. LastWord(down'[p], Word)
    BY <1>1, <2>1, WordAdded DEF Heeds, Typed
  <2> QED BY <1>1, <2>1, <2>2 DEF Heeds, Word
<1>3. CASE p \notin ps
  <2>1. down'[p] = down[p]
    BY <1>1, <1>3, ToldWay
  <2> QED BY <2>1, HeedsOn
<1> QED BY <1>2, <1>3

LEMMA PausedIsInductive ==
  /\ Init => PausedInv
  /\ PausedInv /\ [Next]_vars => PausedInv'
<1> USE Loaded
<1>1. ASSUME Init PROVE PausedInv
  <2>1. Typed
    BY <1>1, TypeInductive
  <2> QED BY <1>1, <2>1 DEF Init, PausedInv
<1>2. ASSUME PausedInv, [Next]_vars PROVE PausedInv'
  <2>1. Typed /\ Typed'
    BY <1>2, TypeInductive DEF PausedInv
  <2>2. ASSUME NEW p \in Pages, Pushed(p), status # "none" PROVE page[p].script /\ Heeds(p)
    BY <1>2, <2>2 DEF PausedInv
  <2> SUFFICES ASSUME NEW p \in Pages, Pushed(p)', status' # "none" PROVE page'[p].script /\ Heeds(p)'
    BY <2>1 DEF PausedInv
  <2> USE <2>1
  <2>3. ASSUME NEW q \in Pages, Toggles(q) \/ PressesStop(q) PROVE page'[p].script /\ Heeds(p)'
    <3>1. UNCHANGED <<worker, context, down>>
      BY <2>3 DEF Toggles, PressesStop
    <3>2. PICK m \in Reports : /\ Send(q, m)
                               /\ p # q => page'[p] = page[p]
                               /\ Alike(page[p], page'[p]) /\ page'[p].fresh = page[p].fresh
                               /\ p = q => m # "stop" \/ page'[p].paused = page[p].paused
      <4>1. page[q] \in PageStates
        BY DEF Typed
      <4>2. CASE Toggles(q)
        <5>1. /\ page'[q] = [page[q] EXCEPT !.paused = ~page[q].paused]
              /\ \A r \in Pages \ {q} : page'[r] = page[r]
          BY <4>2 DEF Toggles, Typed
        <5>2. Send(q, "pause") \/ Send(q, "resume")
          BY <4>2 DEF Toggles
        <5> QED BY <4>1, <5>1, <5>2, PauseFlips DEF Alike, Reports
      <4>3. CASE PressesStop(q)
        <5>1. /\ page'[q] = [page[q] EXCEPT !.stopped = TRUE, !.asks = TRUE]
              /\ \A r \in Pages \ {q} : page'[r] = page[r]
              /\ Send(q, "stop")
          BY <4>3 DEF PressesStop, Typed
        <5>2. Asked(page[q], page'[q])
          BY <4>1, <5>1, AskFlips
        <5> QED BY <5>1, <5>2 DEF Asked, Alike, Reports
      <4> QED BY <2>3, <4>2, <4>3
    <3>3. Pushed(p) /\ status # "none"
      BY <3>1, <3>2 DEF Pushed, Alike, worker
    <3>4. page[p].script /\ Heeds(p)
      BY <2>2, <3>3
    <3>5. UnderWay(q)' = UnderWay(q) \cup {m} /\ (p # q => UnderWay(p)' = UnderWay(p))
      <4>1. UnderWay(q)' = UnderWay(q) \cup {m} /\ \A r \in Pages \ {q} : up'[r] = up[r]
        BY <3>2, TypedIs, SentTypes
      <4> QED BY <4>1 DEF UnderWay
    <3>6. CASE p = q /\ m # "stop"
      BY <3>1, <3>2, <3>4, <3>5, <3>6 DEF Heeds, LastWord, Word, worker, Alike
    <3>7. CASE p # q \/ m = "stop"
      BY <3>1, <3>2, <3>4, <3>5, <3>7, HeedsOn DEF worker, Alike
    <3> QED BY <3>6, <3>7
  <2>4. ASSUME NEW q \in Pages, Receives(q) PROVE page'[p].script /\ Heeds(p)'
    <3>1. UNCHANGED <<worker, context, up>> /\ UnderWay(p)' = UnderWay(p)
      BY <2>4 DEF Receives, UnderWay
    <3>2. CASE p # q
      <4>1. page'[p] = page[p] /\ down'[p] = down[p]
        BY <2>4, <3>2, ReceivedWay
      <4>2. page[p].script /\ Heeds(p)
        BY <2>2, <3>1, <4>1 DEF Pushed, worker
      <4> QED BY <3>1, <4>1, <4>2, HeedsOn DEF worker
    <3>3. CASE p = q
      <4>1. /\ down[p] \in Seq(Messages) /\ down[p] # <<>> /\ down'[p] = Tail(down[p])
            /\ OnTheWay(p) = OnTheWay(p)' \cup {Head(down[p])}
        BY <2>4, <3>3, ReceivedWay
      <4>2. page[p] \in PageStates
        BY DEF Typed
      <4>3. /\ Alike(page[p], page'[p]) /\ page'[p].fresh = page[p].fresh
            /\ Head(down[p]) \notin Says => page'[p].paused = page[p].paused
            /\ page[p].script /\ Head(down[p]) \in Says => page'[p].paused = (Head(down[p]) = "paused")
        <5>1. CASE page' = page /\ ~page[p].script
          BY <5>1 DEF Alike
        <5>2. CASE page'[p] = [page[p] EXCEPT !.paused = TRUE] /\ Head(down[p]) = "paused"
          BY <4>2, <5>2 DEF Alike, Says, PageStates
        <5>3. CASE page'[p] = [page[p] EXCEPT !.paused = FALSE] /\ Head(down[p]) = "running"
          BY <4>2, <5>3 DEF Alike, Says, PageStates
        <5>4. ASSUME NEW b, page'[p] = [page[p] EXCEPT !.stopped = b], Head(down[p]) \notin Says
              PROVE  /\ Alike(page[p], page'[p]) /\ page'[p].fresh = page[p].fresh
                     /\ page'[p].paused = page[p].paused
          BY <4>2, <5>4, StopFlips
        <5>8. ASSUME page'[p] = [page[p] EXCEPT !.stopped = FALSE, !.asks = FALSE], Head(down[p]) \notin Says
              PROVE  /\ Alike(page[p], page'[p]) /\ page'[p].fresh = page[p].fresh
                     /\ page'[p].paused = page[p].paused
          <6>1. Asked(page[p], page'[p])
            BY <4>2, <5>8, AskFlips
          <6> QED BY <6>1 DEF Asked
        <5>5. Head(down[p]) \in Messages
          BY <4>1, Taken
        <5>6. \/ ~page[p].script /\ page' = page
              \/ page[p].script /\ Head(down[p]) = "paused" /\ page'[p] = [page[p] EXCEPT !.paused = TRUE]
              \/ page[p].script /\ Head(down[p]) = "running" /\ page'[p] = [page[p] EXCEPT !.paused = FALSE]
              \/ Head(down[p]) = "stopped" /\ page'[p] = [page[p] EXCEPT !.stopped = TRUE]
              \/ Head(down[p]) = "failed" /\ page'[p] = [page[p] EXCEPT !.stopped = FALSE, !.asks = FALSE]
          <6>1. page[p].script \in BOOLEAN
            BY <4>2, PageFields
          <6>2. CASE ~page[p].script
            BY <2>4, <3>3, <6>2 DEF Receives
          <6>3. CASE page[p].script
            BY <2>4, <3>3, <5>5, <6>3 DEF Receives, Typed, Messages
          <6> QED BY <6>1, <6>2, <6>3
        <5>7. CASE Head(down[p]) \in {"stopped", "failed"} /\ page' # page
          <6>1. Head(down[p]) \notin Says
            BY <5>7 DEF Says
          <6> QED BY <5>4, <5>6, <5>7, <5>8, <6>1
        <5> QED BY <5>1, <5>2, <5>3, <5>4, <5>6, <5>8 DEF Says
      <4>4. page[p].script /\ Heeds(p)
        BY <2>2, <3>1, <4>3 DEF Pushed, worker, Alike
      <4>5. /\ LastWord(down'[p], Word)
            /\ OnTheWay(p)' \cap Says = {} /\ Head(down[p]) \in Says => Head(down[p]) = Word
        <5>1. LastWord(down[p], Word)
          BY <4>4 DEF Heeds
        <5>2. /\ LastWord(down'[p], Word)
              /\ {down'[p][n] : n \in DOMAIN down'[p]} \cap Says = {} /\ Head(down[p]) \in Says
                   => Head(down[p]) = Word
          BY <4>1, <5>1, WordTaken
        <5> QED BY <5>2 DEF OnTheWay
      <4> QED BY <3>1, <4>1, <4>3, <4>4, <4>5 DEF Heeds, Word, Says, worker, Alike
    <3> QED BY <3>2, <3>3
  <2>5. ASSUME \/ (\E q \in Pages : Navigates(q)) \/ PopupOpens \/ PopupCloses
        PROVE  page'[p].script /\ Heeds(p)'
    <3>1. PICK q \in Pages, d \in {NoPage, Document(scripted)} : Loads(q, d) /\ UNCHANGED <<worker, context, up>>
      BY <2>5 DEF Navigates, PopupOpens, PopupCloses, Pages
    <3>2. /\ page'[q] = d /\ \A r \in Pages \ {q} : page'[r] = page[r] /\ down'[r] = down[r]
      BY <3>1 DEF Loads, Typed
    <3>3. d.fresh
      BY <3>1 DEF Typed
    <3>4. p # q /\ page'[p] = page[p] /\ down'[p] = down[p]
      BY <3>2, <3>3 DEF Pushed
    <3>5. page[p].script /\ Heeds(p)
      BY <2>2, <3>1, <3>4 DEF Pushed, worker
    <3>6. UnderWay(p)' = UnderWay(p)
      BY <3>1 DEF UnderWay
    <3> QED BY <3>1, <3>4, <3>5, <3>6, HeedsOn DEF worker
  <2>6. ASSUME NEW q \in Pages, HearsPaused(q) PROVE page'[p].script /\ Heeds(p)'
    <3>1. UNCHANGED <<status, starting, starts, context>>
      BY <2>6 DEF HearsPaused
    <3>2. /\ page[p] \in PageStates
          /\ page'[p] = [page[p] EXCEPT !.fresh = @ /\ (status = "none" \/ ~page[p].script)]
      BY <2>6 DEF HearsPaused, Typed
    <3>3. Alike(page[p], page'[p]) /\ page'[p].fresh = (page[p].fresh /\ (status = "none" \/ ~page[p].script))
      BY <3>2 DEF PageStates, Alike
    <3>4. page[p].script
      BY <2>2, <3>1, <3>3 DEF Pushed, Alike
    <3>5. p \in OpenPages
      BY <3>3 DEF Pushed, Alike, OpenPages
    <3>6. PICK m \in {"paused", "running"} : Tell(OpenPages, m) /\ paused' = (m = "paused")
      <4>1. CASE Hears(q, "pause")
        BY <2>6, <3>1, <4>1 DEF HearsPaused, Hears, Typed
      <4>2. CASE Hears(q, "resume")
        BY <2>6, <3>1, <4>2 DEF HearsPaused, Hears, Typed
      <4> QED BY <2>6, <4>1, <4>2 DEF HearsPaused
    <3>7. m \in Messages /\ m \in Says /\ Word' = m /\ OpenPages \in SUBSET Pages
      BY <3>6 DEF Messages, Says, Word, OpenPages
    <3>8. down'[p] = Append(down[p], m) /\ OnTheWay(p)' = OnTheWay(p) \cup {m} /\ down[p] \in Seq(Messages)
      <4>1. PICK ps \in SUBSET Pages : p \in ps /\ Tell(ps, m)
        BY <3>5, <3>6, <3>7
      <4>2. down'[p] = Append(down[p], m) /\ OnTheWay(p)' = OnTheWay(p) \cup {m}
        <5>1. m \in Messages
          BY <3>7
        <5>2. Tell(ps, m)
          BY <4>1
        <5>3. p \in ps
          BY <4>1
        <5>4. Typed
          OBVIOUS
        <5> QED BY ONLY <5>1, <5>2, <5>3, <5>4, ToldWay
      <4> QED BY <4>2 DEF Typed
    <3>9. LastWord(down'[p], m)
      BY <3>7, <3>8, WordAdded
    <3> QED BY <3>3, <3>4, <3>7, <3>8, <3>9 DEF Heeds, Alike
  <2>7. ASSUME NEW ps \in SUBSET Pages, NEW m \in {"stopped", "failed"},
               Tell(ps, m) \/ UNCHANGED down, UNCHANGED paused, status # "none",
               Alike(page[p], page'[p]), page'[p].fresh = page[p].fresh, page'[p].paused = page[p].paused,
               UnderWay(p)' \subseteq {"stop"} => UnderWay(p) \subseteq {"stop"}
        PROVE  page'[p].script /\ Heeds(p)'
    <3>1. page[p].script /\ Heeds(p)
      BY <2>2, <2>7 DEF Pushed, Alike
    <3> QED BY <2>7, <3>1, HeedsStill, HeedsOn DEF Alike
  <2>8. ASSUME NEW q \in Pages, HearsStop(q) PROVE page'[p].script /\ Heeds(p)'
    <3>1. UNCHANGED <<paused, page>> /\ status # "none"
      BY <2>8 DEF HearsStop, Ends
    <3>2. UnderWay(p)' \subseteq {"stop"} => UnderWay(p) \subseteq {"stop"}
      <4>1. UnderWay(q) = UnderWay(q)' \cup {"stop"} /\ \A r \in Pages \ {q} : up'[r] = up[r]
        BY <2>8, TypedIs, HeardTypes DEF HearsStop, Reports
      <4> QED BY <4>1 DEF UnderWay
    <3>3. PICK ps \in SUBSET Pages : Tell(ps, "stopped") \/ UNCHANGED down
      <4>1. (IF page[q].asks THEN {q} ELSE {}) \in SUBSET Pages
        OBVIOUS
      <4> QED BY <2>8, <4>1 DEF HearsStop, Ends
    <3> QED BY <2>7, <3>1, <3>2, <3>3 DEF Alike
  <2>9. ASSUME Stop PROVE page'[p].script /\ Heeds(p)'
    <3>1. UNCHANGED <<paused, page, up, down>> /\ status # "none"
      BY <2>9 DEF Stop, Ends
    <3>2. UnderWay(p)' = UnderWay(p) /\ {} \in SUBSET Pages
      BY <3>1 DEF UnderWay
    <3> QED BY <2>7, <3>1, <3>2 DEF Alike
  <2>16. ASSUME NEW n \in DOMAIN ending, Pauses(n) \/ Pictured(n) PROVE page'[p].script /\ Heeds(p)'
    <3>1. UNCHANGED <<worker, context, up>> /\ n \in 1..MaxStarts /\ ending[n] \in Endings
      BY <2>16 DEF Pauses, Pictured, Ended, Typed
    <3>2. UnderWay(p)' = UnderWay(p) /\ page[p] \in PageStates
      BY <3>1 DEF UnderWay, Typed
    <3>3. page' = page \/ \E b \in BOOLEAN : page'[p] = [page[p] EXCEPT !.stale = b]
      <4>1. CASE Pauses(n)
        BY <4>1 DEF Pauses
      <4>2. CASE Pictured(n)
        <5>1. PICK told : page' = [q \in Pages |-> [page[q] EXCEPT !.stale = @ \/ (q \in told /\ n < starts)]]
          BY <4>2 DEF Pictured
        <5> DEFINE c == page[p].stale \/ (p \in told /\ n < starts)
        <5>2. c \in BOOLEAN /\ page'[p] = [page[p] EXCEPT !.stale = c]
          BY <5>1 DEF Typed
        <5> HIDE DEF c
        <5> QED BY <5>2
      <4> QED BY <2>16, <4>1, <4>2
    <3>4. Alike(page[p], page'[p]) /\ page'[p].fresh = page[p].fresh /\ page'[p].paused = page[p].paused
      <4>1. CASE page' = page
        BY <4>1 DEF Alike
      <4>2. CASE \E b \in BOOLEAN : page'[p] = [page[p] EXCEPT !.stale = b]
        <5>1. Staled(page[p], page'[p])
          BY <3>2, <4>2, Stales
        <5> QED BY <5>1 DEF Staled
      <4> QED BY <3>3, <4>1, <4>2
    <3>5. PICK ps \in SUBSET Pages, m \in {"stopped", "failed"} : Tell(ps, m) \/ UNCHANGED down
      <4>1. /\ ending[n].from \in SUBSET Pages /\ {} \in SUBSET Pages
            /\ ending[n].from \cup ending[n].of \in SUBSET Pages
        BY <3>1, EndingFields
      <4> QED BY <2>16, <4>1 DEF Pauses, Pictured, Ended
    <3> QED BY <2>7, <3>1, <3>2, <3>4, <3>5 DEF worker
  <2>10. ASSUME Discard PROVE FALSE
    BY <2>10 DEF Discard
  <2>11. ASSUME Start PROVE FALSE
    <3>1. /\ page[p] \in PageStates
          /\ \E b : page'[p] = [page[p] EXCEPT !.fresh = TRUE, !.stale = b]
      BY <2>11 DEF Start, Typed
    <3>2. page'[p].fresh
      BY <3>1 DEF PageStates
    <3> QED BY <3>2 DEF Pushed
  <2>12. ASSUME Bind PROVE page'[p].script /\ Heeds(p)'
    <3>1. UNCHANGED <<status, paused, page, up, down>>
      BY <2>12 DEF Bind
    <3> QED BY <2>2, <3>1, HeedsOn DEF Pushed, UnderWay
  <2>13. ASSUME Inject PROVE page'[p].script /\ Heeds(p)'
    <3>1. /\ UNCHANGED <<status, paused, up>>
          /\ page'[p] = IF page[p].open /\ ~page[p].script THEN Document(TRUE) ELSE page[p]
          /\ down'[p] = IF page[p].script THEN down[p] ELSE <<>>
      BY <2>13 DEF Inject
    <3>2. page'[p] = page[p]
      BY <3>1 DEF Pushed
    <3>3. page[p].script /\ Heeds(p)
      BY <2>2, <3>1, <3>2 DEF Pushed
    <3>4. UnderWay(p)' = UnderWay(p)
      BY <3>1 DEF UnderWay
    <3> QED BY <3>1, <3>2, <3>3, <3>4, HeedsOn
  <2>14. ASSUME ContextDies \/ Resumed \/ Recreated PROVE FALSE
    <3>1. PICK d \in {NoPage, Document(FALSE)} : NewContext(d)
      BY <2>14 DEF ContextDies, Resumed, Recreated
    <3>2. page'[p].fresh
      BY <3>1 DEF NewContext
    <3> QED BY <3>2 DEF Pushed
  <2>15. ASSUME UNCHANGED vars PROVE page'[p].script /\ Heeds(p)'
    BY <2>2, <2>15, HeedsOn DEF vars, worker, Pushed, UnderWay
  <2> QED BY <1>2, <2>3, <2>4, <2>5, <2>6, <2>8, <2>9, <2>10, <2>11, <2>12, <2>13, <2>14, <2>15, <2>16 DEF Next
<1> QED BY <1>1, <1>2

(* Once no pause is under way, every open page that was pushed one shows   *)
(* what the recording does (broadcastPausedState).                         *)
THEOREM PagesAgreeOnPause == Spec => []PausedAgrees
<1>1. ASSUME PausedInv PROVE PausedAgrees
  <2> SUFFICES ASSUME status # "none", NEW p \in OpenPages, ~page[p].fresh,
                      UnderWay(p) \subseteq {"stop"}, OnTheWay(p) \subseteq {"stopped", "failed"}
               PROVE  page[p].paused = paused
    BY DEF PausedAgrees, OpenPages
  <2>1. Heeds(p) /\ page[p] \in PageStates
    BY <1>1 DEF PausedInv, Pushed, OpenPages, Typed
  <2>2. OnTheWay(p) \cap Says = {}
    BY DEF Says
  <2>3. (page[p].paused <=> paused) /\ page[p].paused \in BOOLEAN /\ paused \in BOOLEAN
    BY <1>1, <2>1, <2>2, PageFields DEF Heeds, PausedInv, Typed
  <2> QED BY <2>3
<1> QED BY <1>1, PausedIsInductive, PTL DEF Spec

-----------------------------------------------------------------------------
(* Capture and frames. *)
(* A non-empty set of numbers has a least one. *)
LEMMA LeastNumber ==
  ASSUME NEW S \in SUBSET Nat, S # {}
  PROVE  \E x \in S : \A y \in S : x <= y
<1> DEFINE Less == {p \in Nat \X Nat : p[1] < p[2]}
<1>1. IsWellFoundedOn(Less, Nat)
  BY NatLessThanWellFounded DEF OpToRel
<1>2. \E x \in S : \A y \in S : ~(<<y, x>> \in Less)
  BY <1>1, WFMin, Zenon
<1>3. PICK x \in S : \A y \in S : ~(<<y, x>> \in Less)
  BY <1>2
<1>4. ASSUME NEW y \in S PROVE x <= y
  <2>1. x \in Nat /\ y \in Nat
    OBVIOUS
  <2>2. y < x => <<y, x>> \in Less
    BY <2>1
  <2>3. QED
    BY <1>3, <2>1, <2>2
<1>5. QED
  BY <1>4

(* What FirstPresent chooses is one of the options. *)
LEMMA FirstPresentIsOne ==
  ASSUME NEW options, DOMAIN options \subseteq Nat, FirstPresent(options) # None
  PROVE  \E i \in DOMAIN options : FirstPresent(options) = options[i]
<1> DEFINE present == {i \in DOMAIN options : options[i] # None}
<1>1. present # {}
  BY DEF FirstPresent
<1>2. \E i \in present : \A j \in present : i <= j
  BY <1>1, LeastNumber, present \in SUBSET Nat
<1>3. QED
  BY <1>1, <1>2 DEF FirstPresent

(* A locator is one of the ten tiers'. *)
LEMMA DeriveIsATier ==
  ASSUME NEW doc, NEW el, NEW container, NEW unique,
         Derive(doc, el, container, unique) # None
  PROVE  Derive(doc, el, container, unique) \in
           { ByTestid(doc, el), ByOtherTestid(doc, el), ById(doc, el),
             ByRoleAndName(doc, el, unique), ByRole(doc, el),
             ByNameSource(doc, el),
             ByAttributes(doc, el, {"type", "name", "placeholder"}),
             InContainer(doc, el, container), BySibling(doc, el),
             ByPosition(doc, el) }
<1> DEFINE tiers == << ByTestid(doc, el), ByOtherTestid(doc, el), ById(doc, el),
                       ByRoleAndName(doc, el, unique), ByRole(doc, el),
                       ByNameSource(doc, el),
                       ByAttributes(doc, el, {"type", "name", "placeholder"}),
                       InContainer(doc, el, container), BySibling(doc, el),
                       ByPosition(doc, el) >>
<1>1. Derive(doc, el, container, unique) = FirstPresent(tiers)
  BY DEF Derive
<1>2. DOMAIN tiers = 1..10
  OBVIOUS
<1>3. \E i \in DOMAIN tiers : FirstPresent(tiers) = tiers[i]
  <2>1. DOMAIN tiers \subseteq Nat
    BY <1>2
  <2>2. QED
    BY <1>1, <2>1, FirstPresentIsOne
<1>4. QED
  BY <1>1, <1>2, <1>3

(* One of a path's finds is all of them, if there is but one. *)
LEMMA FoundAlone ==
  ASSUME NEW doc, DocumentOK(doc), NEW xpath, FoundOnce(doc, xpath),
         NEW el, el \in Found(doc, xpath)
  PROVE  Found(doc, xpath) = {el}
<1>1. IsFiniteSet(Found(doc, xpath))
  BY FS_Subset, Found(doc, xpath) \subseteq doc.els DEF DocumentOK, Found, Light
<1>2. PICK x : Found(doc, xpath) = {x}
  BY <1>1, FS_Singleton DEF FoundOnce
<1>3. QED
  BY <1>2

(* Every tier but the four XPath tiers by attribute or sibling, the test-id  *)
(* and the position has another strategy.                                    *)
LEMMA OnXPathGives ==
  ASSUME NEW doc, NEW el, NEW strategy, NEW xpath,
         OnXPath(doc, el, strategy, xpath) # None
  PROVE  /\ ~Shadowed(doc, el) /\ FoundOnce(doc, xpath)
         /\ OnXPath(doc, el, strategy, xpath).xpath = xpath
         /\ OnXPath(doc, el, strategy, xpath).strategy = strategy
  BY DEF OnXPath, Locator

(* The tiers that render as roles and names, or as a position, say so.       *)
LEMMA OtherTiers ==
  ASSUME NEW doc, NEW el, NEW container, NEW unique
  PROVE  /\ ByRoleAndName(doc, el, unique) # None =>
              ByRoleAndName(doc, el, unique).strategy = "role_name"
         /\ ByRole(doc, el) # None => ByRole(doc, el).strategy = "role_name"
         /\ ByNameSource(doc, el) # None =>
              ByNameSource(doc, el).strategy \in {"placeholder", "label", "text"}
         /\ InContainer(doc, el, container) # None =>
              InContainer(doc, el, container).strategy = "scoped"
         /\ ByPosition(doc, el) # None => ByPosition(doc, el).strategy = "nth"
<1>1. /\ ByRoleAndName(doc, el, unique) # None =>
           ByRoleAndName(doc, el, unique).strategy = "role_name"
      /\ ByRole(doc, el) # None => ByRole(doc, el).strategy = "role_name"
  BY DEF ByRoleAndName, ByRole, Locator
<1>2. /\ InContainer(doc, el, container) # None =>
           InContainer(doc, el, container).strategy = "scoped"
      /\ ByPosition(doc, el) # None => ByPosition(doc, el).strategy = "nth"
  BY DEF InContainer, ByPosition, Locator
<1>3. ASSUME ByNameSource(doc, el) # None
      PROVE  ByNameSource(doc, el).strategy \in {"placeholder", "label", "text"}
  <2> DEFINE From(strategy, value) ==
               IF value = None THEN None ELSE [Locator(strategy) EXCEPT !.value = value]
             sources == << From("placeholder", At(doc, el, "placeholder")),
                           From("label", At(doc, el, "aria-label")),
                           From("text", NameFrom(doc, el, doc.raw)) >>
  <2>1. ByNameSource(doc, el) = FirstPresent(sources)
    BY <1>3 DEF ByNameSource
  <2>2. DOMAIN sources = 1..3 /\ DOMAIN sources \subseteq Nat
    OBVIOUS
  <2>3. PICK k \in 1..3 : ByNameSource(doc, el) = sources[k]
    <3> HIDE DEF sources
    <3> QED
      BY <1>3, <2>1, <2>2, FirstPresentIsOne
  <2>4. \A n \in 1..3 : sources[n] # None =>
          sources[n].strategy \in {"placeholder", "label", "text"}
    BY DEF Locator
  <2>5. QED
    BY <1>3, <2>3, <2>4
<1>4. QED
  BY <1>1, <1>2, <1>3

(* A path that names attributes finds the elements of the document that bear *)
(* them.                                                                     *)
LEMMA FoundByAttributes ==
  ASSUME NEW doc, NEW tag, NEW attrs, NEW x
  PROVE  x \in Found(doc, XPath(tag, attrs)) <=>
           /\ x \in Light(doc) /\ tag \in {"*", doc.tag[x]}
           /\ \A pair \in attrs : At(doc, x, pair[1]) = pair[2]
<1> DEFINE path == XPath(tag, attrs)
<1>1. path.tag = tag /\ path.attrs = attrs /\ path.beside = None /\ path.path = None
  BY DEF XPath
<1> HIDE DEF path
<1>2. QED
  BY <1>1 DEF Found, path

LEMMA FoundByOne ==
  ASSUME NEW doc, NEW attr, NEW value, NEW x
  PROVE  x \in Found(doc, XPath("*", {<<attr, value>>})) <=>
           x \in Light(doc) /\ At(doc, x, attr) = value
<1> DEFINE pairs == {<<attr, value>>}
<1>1. (\A pair \in pairs : At(doc, x, pair[1]) = pair[2]) <=> At(doc, x, attr) = value
  OBVIOUS
<1> HIDE DEF pairs
<1>2. x \in Found(doc, XPath("*", pairs)) <=>
        x \in Light(doc) /\ At(doc, x, attr) = value
  BY <1>1, FoundByAttributes
<1>3. QED
  BY <1>2 DEF pairs

(* What the five tiers that count their finds are about.                     *)
LEMMA TestidHits ==
  ASSUME NEW doc, DocumentOK(doc), NEW el \in doc.els,
         ByTestid(doc, el) # None, ~Shadowed(doc, el)
  PROVE  WorkerFinds(doc, ByTestid(doc, el)) = {el}
<1> DEFINE id == Testid(doc, el)
           same == {x \in doc.els : /\ doc.host[x] = doc.host[el]
                                     /\ At(doc, x, id.attr) = id.value}
           locator == ByTestid(doc, el)
<1>1. /\ id # None /\ Cardinality(same) = 1
      /\ locator = [Locator("testid") EXCEPT !.attr = id.attr, !.value = id.value]
  BY DEF ByTestid
<1>2. At(doc, el, id.attr) = id.value
  BY <1>1 DEF Testid
<1>3. same = {el}
  <2>1. IsFiniteSet(same)
    BY FS_Subset, same \subseteq doc.els DEF DocumentOK
  <2>2. PICK x : same = {x}
    BY <1>1, <2>1, FS_Singleton
  <2>3. el \in same
    BY <1>2
  <2>4. QED
    BY <2>2, <2>3
<1>4. /\ locator.strategy = "testid" /\ locator.attr = id.attr
      /\ locator.value = id.value
  BY <1>1 DEF Locator
<1>5. Found(doc, XPath("*", {<<id.attr, id.value>>})) = same
  <2>1. \A x : x \in Found(doc, XPath("*", {<<id.attr, id.value>>})) <=>
                x \in Light(doc) /\ At(doc, x, id.attr) = id.value
    BY FoundByOne
  <2>2. doc.host[el] = None
    BY DEF Shadowed
  <2>3. QED
    BY <2>1, <2>2 DEF Light, Shadowed
<1>6. QED
  BY <1>3, <1>4, <1>5 DEF WorkerFinds

(* An element bears the attributes its own paths name.                       *)
LEMMA PathsOfItsOwn ==
  ASSUME NEW doc, NEW el \in doc.els, ~Shadowed(doc, el)
  PROVE  /\ \A a : el \in Found(doc, XPath("*", {<<a, At(doc, el, a)>>}))
         /\ \A attrs : el \in Found(doc, XPath(doc.tag[el], AttrPairs(doc, el, attrs)))
<1>1. \A a : el \in Found(doc, XPath("*", {<<a, At(doc, el, a)>>}))
  BY FoundByOne DEF Light
<1>2. ASSUME NEW attrs
      PROVE  el \in Found(doc, XPath(doc.tag[el], AttrPairs(doc, el, attrs)))
  <2>1. \A pair \in AttrPairs(doc, el, attrs) : At(doc, el, pair[1]) = pair[2]
    BY DEF AttrPairs
  <2>2. QED
    BY <2>1, FoundByAttributes DEF Light
<1>3. QED
  BY <1>1, <1>2

(* A tier whose path names the element's own attributes hits it.             *)
LEMMA AttributeTiersHit ==
  ASSUME NEW doc, DocumentOK(doc), NEW el \in doc.els
  PROVE  /\ ByOtherTestid(doc, el) # None =>
              /\ ByOtherTestid(doc, el).strategy = "testid_xpath"
              /\ Found(doc, ByOtherTestid(doc, el).xpath) = {el}
         /\ ById(doc, el) # None =>
              /\ ById(doc, el).strategy = "dom_id"
              /\ Found(doc, ById(doc, el).xpath) = {el}
         /\ \A attrs : ByAttributes(doc, el, attrs) # None =>
              /\ ByAttributes(doc, el, attrs).strategy = "attr_combo"
              /\ Found(doc, ByAttributes(doc, el, attrs).xpath) = {el}
<1>1. ASSUME ByOtherTestid(doc, el) # None
      PROVE  /\ ByOtherTestid(doc, el).strategy = "testid_xpath"
             /\ Found(doc, ByOtherTestid(doc, el).xpath) = {el}
  <2> DEFINE id == Testid(doc, el)
             path == XPath("*", {<<id.attr, id.value>>})
  <2>1. /\ id # None
        /\ ByOtherTestid(doc, el) = OnXPath(doc, el, "testid_xpath", path)
    BY <1>1 DEF ByOtherTestid
  <2>2. id.value = At(doc, el, id.attr)
    BY <2>1 DEF Testid
  <2>3. /\ ~Shadowed(doc, el) /\ FoundOnce(doc, path)
        /\ ByOtherTestid(doc, el).xpath = path
        /\ ByOtherTestid(doc, el).strategy = "testid_xpath"
    BY <1>1, <2>1, OnXPathGives
  <2>4. el \in Found(doc, path)
    BY <2>2, <2>3, PathsOfItsOwn
  <2>5. QED
    BY <2>3, <2>4, FoundAlone
<1>2. ASSUME ById(doc, el) # None
      PROVE  ById(doc, el).strategy = "dom_id" /\ Found(doc, ById(doc, el).xpath) = {el}
  <2> DEFINE path == XPath("*", {<<"id", At(doc, el, "id")>>})
  <2>1. ById(doc, el) = OnXPath(doc, el, "dom_id", path)
    BY <1>2 DEF ById
  <2>2. /\ ~Shadowed(doc, el) /\ FoundOnce(doc, path)
        /\ ById(doc, el).xpath = path /\ ById(doc, el).strategy = "dom_id"
    BY <1>2, <2>1, OnXPathGives
  <2>3. el \in Found(doc, path)
    BY <2>2, PathsOfItsOwn
  <2>4. QED
    BY <2>2, <2>3, FoundAlone
<1>3. ASSUME NEW attrs, ByAttributes(doc, el, attrs) # None
      PROVE  /\ ByAttributes(doc, el, attrs).strategy = "attr_combo"
             /\ Found(doc, ByAttributes(doc, el, attrs).xpath) = {el}
  <2> DEFINE path == XPath(doc.tag[el], AttrPairs(doc, el, attrs))
  <2>1. ByAttributes(doc, el, attrs) = OnXPath(doc, el, "attr_combo", path)
    BY <1>3 DEF ByAttributes
  <2>2. /\ ~Shadowed(doc, el) /\ FoundOnce(doc, path)
        /\ ByAttributes(doc, el, attrs).xpath = path
        /\ ByAttributes(doc, el, attrs).strategy = "attr_combo"
    BY <1>3, <2>1, OnXPathGives
  <2>3. el \in Found(doc, path)
    BY <2>2, PathsOfItsOwn
  <2>4. QED
    BY <2>2, <2>3, FoundAlone
<1>4. QED
  BY <1>1, <1>2, <1>3

(* So does the sibling tier, if the label's text is one piece.               *)
LEMMA SiblingTierHits ==
  ASSUME NEW doc, DocumentOK(doc), NEW el \in doc.els, BySibling(doc, el) # None
  PROVE  /\ BySibling(doc, el).strategy = "sibling_text"
         /\ PlainLabels(doc, el) => Found(doc, BySibling(doc, el).xpath) = {el}
<1> DEFINE labels == {s \in Beside(doc, el) :
                        ~Interactive(doc, s) /\ doc.words[s] # None}
           label == CHOOSE s \in labels : TRUE
           path == [XPath(doc.tag[el], {}) EXCEPT !.beside = doc.words[label]]
<1>1. /\ doc.parent[el] # None /\ Cardinality(labels) = 1
      /\ BySibling(doc, el) = OnXPath(doc, el, "sibling_text", path)
  BY DEF BySibling
<1>2. /\ ~Shadowed(doc, el) /\ FoundOnce(doc, path)
      /\ BySibling(doc, el).xpath = path
      /\ BySibling(doc, el).strategy = "sibling_text"
  BY <1>1, OnXPathGives
<1>3. label \in labels
  <2>1. IsFiniteSet(labels)
    BY FS_Subset, labels \subseteq doc.els DEF DocumentOK, Beside, Children
  <2>2. labels # {}
    BY <1>1, <2>1, FS_EmptySet
  <2>3. QED
    BY <2>2
<1>4. ASSUME PlainLabels(doc, el) PROVE el \in Found(doc, path)
  <2>1. /\ path.tag = doc.tag[el] /\ path.attrs = {} /\ path.path = None
        /\ path.beside = doc.words[label]
    BY DEF XPath
  <2>2. label \in Beside(doc, el) /\ doc.raw[label] = doc.words[label]
    BY <1>3, <1>4 DEF PlainLabels
  <2> HIDE DEF path, label
  <2>3. QED
    BY <1>1, <1>2, <2>1, <2>2 DEF Found, Light
<1> HIDE DEF path, label, labels
<1>5. PlainLabels(doc, el) => Found(doc, path) = {el}
  BY <1>2, <1>4, FoundAlone
<1>6. QED
  BY <1>2, <1>5

(* A locator that does not rest on position takes the resolver to the        *)
(* element it was made for, on every document as it was captured.            *)
THEOREM UniqueLocatorsHit ==
  ASSUME NEW doc, DocumentOK(doc), NEW el \in doc.els, NEW container, NEW unique,
         NEW row, row.target = el, row.locator = Derive(doc, el, container, unique),
         row.locator # None => row.locator.strategy # "nth"
  PROVE  HitsTarget(doc, row)
<1> DEFINE locator == row.locator
<1>1. SUFFICES ASSUME locator # None,
                      locator.strategy \in XPathTiers \cup {"testid"},
                      locator.strategy = "testid" => ~Shadowed(doc, el),
                      locator.strategy = "sibling_text" => PlainLabels(doc, el)
               PROVE  WorkerFinds(doc, locator) = {el}
  BY DEF HitsTarget
<1>2. locator \in { ByTestid(doc, el), ByOtherTestid(doc, el), ById(doc, el),
                    ByAttributes(doc, el, {"type", "name", "placeholder"}),
                    BySibling(doc, el) }
  <2>1. locator.strategy \notin {"role_name", "placeholder", "label", "text",
                                 "scoped", "nth"}
    BY <1>1 DEF XPathTiers
  <2>2. QED
    BY <1>1, <2>1, DeriveIsATier, OtherTiers
<1>3. CASE locator = ByTestid(doc, el)
  <2>1. locator.strategy = "testid"
    BY <1>1, <1>3 DEF ByTestid, Locator
  <2>2. QED
    BY <1>1, <1>3, <2>1, TestidHits
<1>4. ASSUME locator.strategy # "testid", Found(doc, locator.xpath) = {el}
      PROVE  WorkerFinds(doc, locator) = {el}
  BY <1>4 DEF WorkerFinds
<1>5. CASE locator \in { ByOtherTestid(doc, el), ById(doc, el),
                         ByAttributes(doc, el, {"type", "name", "placeholder"}) }
  <2> HIDE DEF locator
  <2>1. /\ locator.strategy \in {"testid_xpath", "dom_id", "attr_combo"}
        /\ Found(doc, locator.xpath) = {el}
    <3>1. CASE locator = ByOtherTestid(doc, el)
      BY <1>1, <3>1, AttributeTiersHit
    <3>2. CASE locator = ById(doc, el)
      BY <1>1, <3>2, AttributeTiersHit
    <3>3. CASE locator = ByAttributes(doc, el, {"type", "name", "placeholder"})
      BY <1>1, <3>3, AttributeTiersHit
    <3>4. QED
      BY <1>5, <3>1, <3>2, <3>3
  <2>2. QED
    BY <1>4, <2>1
<1>6. CASE locator = BySibling(doc, el)
  <2> HIDE DEF locator
  <2>1. locator.strategy = "sibling_text" /\ Found(doc, locator.xpath) = {el}
    BY <1>1, <1>6, SiblingTierHits
  <2>2. QED
    BY <1>4, <2>1
<1>7. QED
  BY <1>2, <1>3, <1>5, <1>6

(* In a shadow root no XPath reaches, and none is given.                     *)
THEOREM ShadowGetsNoXPath ==
  ASSUME NEW doc, NEW el, NEW container, NEW unique, Shadowed(doc, el),
         Derive(doc, el, container, unique) # None
  PROVE  Derive(doc, el, container, unique).strategy \notin XPathTiers
<1> DEFINE locator == Derive(doc, el, container, unique)
<1>1. /\ ByOtherTestid(doc, el) = None /\ ById(doc, el) = None
      /\ ByAttributes(doc, el, {"type", "name", "placeholder"}) = None
      /\ BySibling(doc, el) = None /\ ByPosition(doc, el) = None
  BY DEF ByOtherTestid, ById, ByAttributes, BySibling, ByPosition, OnXPath
<1>2. locator \in { ByTestid(doc, el), ByRoleAndName(doc, el, unique),
                    ByRole(doc, el), ByNameSource(doc, el),
                    InContainer(doc, el, container) }
  BY <1>1, DeriveIsATier
<1>3. ByTestid(doc, el) # None => ByTestid(doc, el).strategy = "testid"
  BY DEF ByTestid, Locator
<1>4. QED
  BY <1>2, <1>3, OtherTiers DEF XPathTiers

(* The digests of a capture: none is numbered yet.                           *)
Digests(texts) ==
  [tag : texts, key : texts, role : texts, name : texts, path : texts, row : texts,
   frames : texts, dup : {1}]

(* An answer's refs are apart: those that share a digest are numbered.       *)
THEOREM AnswersKeepRefsApart ==
  ASSUME NEW told, NEW n \in Nat, DOMAIN told = 1..n, NEW texts,
         \A i \in 1..n : "ref" \in DOMAIN told[i] /\ told[i].ref \in Digests(texts)
  PROVE  RefsApart(DisambiguateDuplicateRefs(told))
<1> DEFINE after == DisambiguateDuplicateRefs(told)
           same(i) == {k \in 1..i : told[k].ref = told[i].ref}
<1>1. DOMAIN after = 1..n
  BY DEF DisambiguateDuplicateRefs
<1>2. ASSUME NEW i \in 1..n
      PROVE  /\ after[i].ref.dup = Occurrence(told, i)
             /\ \A part \in DOMAIN told[i].ref \ {"dup"} :
                  after[i].ref[part] = told[i].ref[part]
  <2>1. told[i].ref.dup = 1 /\ "dup" \in DOMAIN told[i].ref
    BY DEF Digests
  <2>2. CASE Occurrence(told, i) = 1
    BY <2>1, <2>2 DEF DisambiguateDuplicateRefs
  <2>3. CASE Occurrence(told, i) # 1
    <3>1. after[i] = [told[i] EXCEPT !.ref.dup = Occurrence(told, i)]
      BY <2>3 DEF DisambiguateDuplicateRefs
    <3>2. after[i].ref = [told[i].ref EXCEPT !.dup = Occurrence(told, i)]
      BY <3>1
    <3>3. QED
      BY <2>1, <3>2
  <2>4. QED
    BY <2>2, <2>3
<1> HIDE DEF after
<1>3. ASSUME NEW i \in 1..n, NEW j \in 1..n, after[i].ref = after[j].ref
      PROVE  told[i].ref = told[j].ref /\ Occurrence(told, i) = Occurrence(told, j)
  <2>1. /\ DOMAIN told[i].ref = {"tag", "key", "role", "name", "path", "row", "frames", "dup"}
        /\ DOMAIN told[j].ref = {"tag", "key", "role", "name", "path", "row", "frames", "dup"}
        /\ told[i].ref.dup = 1 /\ told[j].ref.dup = 1
    BY DEF Digests
  <2>2. \A part \in DOMAIN told[i].ref \ {"dup"} : told[i].ref[part] = told[j].ref[part]
    BY <1>2, <1>3, <2>1
  <2>3. told[i].ref.tag = told[j].ref.tag /\ told[i].ref.key = told[j].ref.key
    BY <2>1, <2>2
  <2>4. told[i].ref.role = told[j].ref.role /\ told[i].ref.name = told[j].ref.name
    BY <2>1, <2>2
  <2>5. /\ told[i].ref.path = told[j].ref.path /\ told[i].ref.row = told[j].ref.row
        /\ told[i].ref.frames = told[j].ref.frames
    BY <2>1, <2>2
  <2>6. told[i].ref = told[j].ref
    BY <2>1, <2>3, <2>4, <2>5 DEF Digests
  <2>7. QED
    BY <1>2, <1>3, <2>6
<1>4. ASSUME NEW i \in 1..n, NEW j \in 1..n, told[i].ref = told[j].ref, i < j
      PROVE  Occurrence(told, i) # Occurrence(told, j)
  <2>1. IsFiniteSet(same(j)) /\ same(i) \subseteq same(j)
    <3>1. IsFiniteSet(1..j) /\ same(j) \in SUBSET (1..j)
      BY FS_Interval
    <3>2. 1..i \subseteq 1..j
      BY <1>4
    <3>3. QED
      BY <1>4, <3>1, <3>2, FS_Subset
  <2>2. j \in same(j) /\ j \notin same(i)
    BY <1>4
  <2>3. QED
    BY <2>1, <2>2, FS_Subset DEF Occurrence
<1>5. ASSUME NEW i \in 1..n, NEW j \in 1..n, after[i].ref = after[j].ref PROVE i = j
  <2>1. told[i].ref = told[j].ref /\ Occurrence(told, i) = Occurrence(told, j)
    BY <1>3, <1>5
  <2>2. ~(i < j) /\ ~(j < i)
    BY <1>4, <2>1
  <2>3. QED
    BY <2>2
<1>6. RefsApart(after)
  BY <1>1, <1>5 DEF RefsApart
<1>7. QED
  BY <1>6 DEF after

(*------------------------ the walk through the frames ---------------------*)
Entries == [scope : Frames \cup {Top}, path : Seq(Frames)]
Shown == {<<>>} \cup {CaptureOf(d, o).elements : d \in Documents, o \in Reads}
Groups == [frame : Frames, path : Seq(Frames), rows : {<<>>} \cup Shown]

WalkTyped ==
  /\ document \in Documents /\ opts \in Reads /\ rows \in Shown
  /\ parent \in [Frames -> Frames \cup {Top, None}] /\ gone \subseteq Frames
  /\ pc \in {"idle", "read", "failed", "scan", "visit", "answer", "done"}
  /\ queue \in Seq(Entries) /\ wave \in Seq(Entries) /\ captured \in Seq(Groups)
  /\ listed \in Seq(Frames) /\ visited \in Frames \cup {None} /\ budget \in Nat

(* What is added to a sequence, and what is left of it.                      *)
LEMMA Added ==
  ASSUME NEW S, NEW s \in Seq(S), NEW x \in S
  PROVE  /\ Append(s, x) \in Seq(S) /\ Len(Append(s, x)) = Len(s) + 1
         /\ DOMAIN Append(s, x) = 1..(Len(s) + 1) /\ DOMAIN s = 1..Len(s)
         /\ \A n \in 1..Len(s) : Append(s, x)[n] = s[n]
         /\ Append(s, x)[Len(s) + 1] = x /\ Len(s) \in Nat
OBVIOUS

LEMMA Left ==
  ASSUME NEW S, NEW s \in Seq(S), s # <<>>
  PROVE  /\ Tail(s) \in Seq(S) /\ Len(Tail(s)) = Len(s) - 1 /\ Len(s) \in Nat \ {0}
         /\ DOMAIN Tail(s) = 1..(Len(s) - 1) /\ DOMAIN s = 1..Len(s)
         /\ \A n \in 1..(Len(s) - 1) : n + 1 \in 1..Len(s) /\ Tail(s)[n] = s[n + 1]
         /\ Head(s) = s[1] /\ Head(s) \in S
OBVIOUS

(* Where the read is.                                                        *)
Looking ==
  /\ pc # "visit" => visited = None
  /\ pc = "visit" => queue # <<>> /\ Len(Head(queue).path) < MaxDepth
  /\ visited # None => parent[visited] = Head(queue).scope
  /\ pc \in {"idle", "read"} => captured = <<>> /\ queue = <<>> /\ wave = <<>>

LEMMA WalkTypes == WalkTyped /\ Looking /\ [FrameNext]_frameVars => WalkTyped'
<1> SUFFICES ASSUME WalkTyped, Looking, [FrameNext]_frameVars PROVE WalkTyped'
  OBVIOUS
<1> USE DEF WalkTyped
<1>1. ASSUME NEW f \in Frames, NEW p \in Frames \cup {Top}, Attach(f, p)
      PROVE  WalkTyped'
  BY <1>1 DEF Attach, look
<1>2. ASSUME NEW frames \in SUBSET Attached, Detach(frames) PROVE WalkTyped'
  BY <1>2 DEF Detach, Attached, look
<1>3. CASE ReadTop
  <2>1. CaptureOf(document, opts).elements \in Shown
    BY DEF Shown
  <2>2. rows' \in Shown /\ pc' \in {"failed", "read"}
    BY <1>3, <2>1 DEF ReadTop
  <2>3. QED
    BY <1>3, <2>2 DEF ReadTop, shown, look
<1>4. CASE BeginFrames
  <2>1. Entry(Top, <<>>) \in Entries
    BY DEF Entry, Entries
  <2>2. <<Entry(Top, <<>>)>> \in Seq(Entries)
    BY <2>1
  <2>3. QED
    BY <1>4, <2>2 DEF BeginFrames, shown
<1>5. CASE NextWave
  BY <1>5 DEF NextWave, shown
<1>6. CASE OutOfBudget
  BY <1>6 DEF OutOfBudget, shown, look
<1>7. CASE PassOver
  <2>1. queue' \in Seq(Entries)
    BY <1>7, Left DEF PassOver, Passed
  <2>2. QED
    BY <1>7, <2>1 DEF PassOver, shown
<1>8. ASSUME NEW listing \in Listings, List(listing) PROVE WalkTyped'
  <2>1. listing \in Seq(Frames)
    <3>1. PICK n \in 0..Cardinality(Attached) : listing \in [1..n -> Attached]
      BY DEF Listings
    <3>2. n \in Nat
      OBVIOUS
    <3>3. QED
      BY <3>1, <3>2 DEF Attached
  <2>2. QED
    BY <1>8, <2>1 DEF List, shown
<1>9. CASE ListedAll
  <2>1. queue # <<>>
    BY <1>9 DEF ListedAll, Looking
  <2>2. Tail(queue) \in Seq(Entries)
    BY <2>1, Left
  <2>3. QED
    BY <1>9, <2>2 DEF ListedAll, Passed, shown
<1>10. CASE Visit
  <2>1. Tail(listed) \in Seq(Frames) /\ Head(listed) \in Frames
    BY <1>10, Left DEF Visit
  <2>2. visited' \in Frames \cup {None} /\ budget' \in Nat
    BY <1>10, <2>1 DEF Visit
  <2>3. QED
    BY <1>10, <2>1, <2>2 DEF Visit, shown
<1>11. CASE VisitFails
  BY <1>11 DEF VisitFails, shown
<1>12. CASE CaptureFrame
  <2>1. queue # <<>> /\ Head(queue) \in Entries /\ visited \in Frames
    BY <1>12, Left DEF CaptureFrame, Looking, Attached
  <2> DEFINE path == Append(Head(queue).path, visited)
  <2>2. PICK found \in {<<>>, rows} :
          /\ captured' = Append(captured, [frame |-> visited, path |-> path, rows |-> found])
          /\ wave' = Append(wave, Entry(visited, path))
    BY <1>12 DEF CaptureFrame
  <2>3. path \in Seq(Frames)
    BY <2>1 DEF Entries
  <2> HIDE DEF path
  <2>4. Entry(visited, path) \in Entries
    BY <2>1, <2>3 DEF Entry, Entries
  <2>5. [frame |-> visited, path |-> path, rows |-> found] \in Groups
    BY <2>1, <2>3 DEF Groups
  <2>6. wave' \in Seq(Entries) /\ captured' \in Seq(Groups)
    BY <2>2, <2>4, <2>5, Added
  <2>7. QED
    BY <1>12, <2>6 DEF CaptureFrame, shown
<1>13. CASE Reported
  BY <1>13 DEF Reported, shown, look
<1>14. CASE UNCHANGED frameVars
  BY <1>14 DEF frameVars, shown, look
<1>15. QED
  BY <1>1, <1>2, <1>3, <1>4, <1>5, <1>6, <1>7, <1>8, <1>9, <1>10, <1>11, <1>12, <1>13, <1>14
     DEF FrameNext

LEMMA LooksOn == WalkTyped /\ Looking /\ [FrameNext]_frameVars => Looking'
<1> SUFFICES ASSUME WalkTyped, Looking, [FrameNext]_frameVars PROVE Looking'
  OBVIOUS
<1> USE DEF Looking
<1>1. ASSUME NEW f \in Frames, NEW p \in Frames \cup {Top}, Attach(f, p)
      PROVE  Looking'
  <2>1. ASSUME visited # None PROVE parent'[visited] = parent[visited]
    <3>1. parent[visited] \in Frames \cup {Top} /\ visited \in Frames
      <4>1. queue # <<>>
        BY <2>1
      <4>2. Head(queue) \in Entries
        BY <4>1, Left DEF WalkTyped
      <4>3. QED
        BY <2>1, <4>2 DEF Entries, WalkTyped
    <3>2. visited # f
      BY <1>1, <3>1, FramesAssumption DEF Attach
    <3>3. QED
      BY <1>1, <3>1, <3>2 DEF Attach, WalkTyped
  <2>2. QED
    BY <1>1, <2>1 DEF Attach, look
<1>2. ASSUME NEW frames \in SUBSET Attached, Detach(frames) PROVE Looking'
  BY <1>2 DEF Detach, look
<1>3. CASE ReadTop
  BY <1>3 DEF ReadTop, shown, look
<1>4. CASE BeginFrames
  BY <1>4 DEF BeginFrames, shown
<1>5. CASE NextWave
  BY <1>5 DEF NextWave, shown
<1>6. CASE OutOfBudget
  BY <1>6 DEF OutOfBudget, shown, look
<1>7. CASE PassOver
  BY <1>7 DEF PassOver, shown
<1>8. ASSUME NEW listing \in Listings, List(listing) PROVE Looking'
  BY <1>8 DEF List, shown
<1>9. CASE ListedAll
  BY <1>9 DEF ListedAll, shown
<1>10. CASE Visit
  BY <1>10 DEF Visit, shown
<1>11. CASE VisitFails
  BY <1>11 DEF VisitFails, shown
<1>12. CASE CaptureFrame
  BY <1>12 DEF CaptureFrame, shown
<1>13. CASE Reported
  BY <1>13 DEF Reported, shown, look
<1>14. CASE UNCHANGED frameVars
  BY <1>14 DEF frameVars, shown, look
<1>15. QED
  BY <1>1, <1>2, <1>3, <1>4, <1>5, <1>6, <1>7, <1>8, <1>9, <1>10, <1>11, <1>12, <1>13, <1>14
     DEF FrameNext

(*--------------------------------- its steps -------------------------------*)
(* What the walk has in hand, and what of it a step may change: frames come; *)
(* a wave begins; an entry is passed; a frame is captured.                   *)
walk == <<queue, wave, captured>>
ParentsStay == \A f \in Frames : parent[f] # None => parent'[f] = parent[f]

Walked(group, entry) ==
  /\ pc = "visit" /\ visited \in Frames /\ queue # <<>>
  /\ entry = Entry(visited, Append(Head(queue).path, visited))
  /\ group \in Groups /\ group.frame = visited /\ group.path = entry.path
  /\ captured' = Append(captured, group) /\ wave' = Append(wave, entry)
  /\ visited' = None /\ UNCHANGED <<parent, queue, listed, budget, pc>>

Step ==
  \/ UNCHANGED walk /\ ParentsStay
  \/ pc = "read" /\ queue' = <<Entry(Top, <<>>)>> /\ UNCHANGED <<parent, wave, captured>>
  \/ queue = <<>> /\ queue' = wave /\ wave' = <<>> /\ UNCHANGED <<parent, captured>>
  \/ queue # <<>> /\ queue' = Tail(queue) /\ UNCHANGED <<parent, wave, captured>>
  \/ \E group, entry : Walked(group, entry)

LEMMA CaptureWalks ==
  ASSUME WalkTyped, Looking, CaptureFrame
  PROVE  \E group, entry : Walked(group, entry)
<1>1. queue # <<>> /\ Head(queue) \in Entries /\ visited \in Frames
  BY Left DEF CaptureFrame, Looking, Attached, WalkTyped
<1> DEFINE path == Append(Head(queue).path, visited)
<1>2. PICK found \in {<<>>, rows} :
        /\ captured' = Append(captured, [frame |-> visited, path |-> path, rows |-> found])
        /\ wave' = Append(wave, Entry(visited, path))
  BY DEF CaptureFrame
<1>3. path \in Seq(Frames)
  BY <1>1 DEF Entries
<1>4. Walked([frame |-> visited, path |-> path, rows |-> found], Entry(visited, path))
  BY <1>1, <1>2, <1>3 DEF path, Walked, CaptureFrame, shown, Groups, Entry, WalkTyped
<1>5. QED
  BY <1>4

LEMMA Steps == WalkTyped /\ Looking /\ [FrameNext]_frameVars => Step
<1> SUFFICES ASSUME WalkTyped, Looking, [FrameNext]_frameVars PROVE Step
  OBVIOUS
<1>1. ASSUME NEW f \in Frames, NEW p \in Frames \cup {Top}, Attach(f, p)
      PROVE  Step
  BY <1>1 DEF Attach, look, Step, walk, ParentsStay, WalkTyped
<1>2. ASSUME NEW frames \in SUBSET Attached, Detach(frames) PROVE Step
  BY <1>2 DEF Detach, look, Step, walk, ParentsStay
<1>3. CASE ReadTop \/ OutOfBudget \/ Visit \/ VisitFails \/ Reported \/ UNCHANGED frameVars
  BY <1>3 DEF ReadTop, OutOfBudget, Visit, VisitFails, Reported, frameVars, shown, look,
              Step, walk, ParentsStay
<1>4. CASE BeginFrames
  BY <1>4 DEF BeginFrames, shown, Step, walk, ParentsStay
<1>5. CASE NextWave
  BY <1>5 DEF NextWave, shown, Step
<1>6. CASE PassOver
  BY <1>6 DEF PassOver, Passed, shown, Step
<1>7. ASSUME NEW listing \in Listings, List(listing) PROVE Step
  BY <1>7 DEF List, shown, Step, walk, ParentsStay
<1>8. CASE ListedAll
  BY <1>8 DEF ListedAll, Passed, shown, Step, Looking
<1>9. CASE CaptureFrame
  BY <1>9, CaptureWalks DEF Step
<1>10. QED
  BY <1>1, <1>2, <1>3, <1>4, <1>5, <1>6, <1>7, <1>8, <1>9 DEF FrameNext

(*------------------------------- ways lead down ----------------------------*)
Grounded(e) == (e.scope = Top /\ e.path = <<>>) \/ LeadsTo(e.path, e.scope)
Ways == /\ PathsLead
        /\ \A i \in DOMAIN queue : Grounded(queue[i])
        /\ \A i \in DOMAIN wave : Grounded(wave[i])

(* A way stays one when frames come.                                         *)
LEMMA LeadsStill ==
  ASSUME WalkTyped, ParentsStay, NEW path \in Seq(Frames), NEW f, LeadsTo(path, f)
  PROVE  LeadsTo(path, f)'
<1>1. ASSUME NEW i \in 1..Len(path) PROVE parent'[path[i]] = parent[path[i]]
  <2>1. path[i] \in Frames
    OBVIOUS
  <2>2. parent[path[i]] \in Frames \cup {Top}
    <3>1. CASE i = 1
      BY <3>1 DEF LeadsTo
    <3>2. CASE i # 1
      <4>1. i - 1 \in 1..(Len(path) - 1) /\ (i - 1) + 1 = i /\ i - 1 \in 1..Len(path)
        BY <3>2
      <4>2. parent[path[i]] = path[i - 1]
        BY <4>1 DEF LeadsTo
      <4>3. QED
        BY <4>1, <4>2
    <3>3. QED
      BY <3>1, <3>2
  <2>3. QED
    BY <2>1, <2>2, FramesAssumption DEF ParentsStay
<1>2. path # <<>> /\ 1 \in 1..Len(path)
  BY DEF LeadsTo
<1>3. \A i \in 1..(Len(path) - 1) : i + 1 \in 1..Len(path)
  OBVIOUS
<1>4. QED
  BY <1>1, <1>2, <1>3 DEF LeadsTo

LEMMA WaysLead == WalkTyped /\ Ways /\ Looking /\ Step => Ways'
<1> SUFFICES ASSUME WalkTyped, Ways, Looking, Step PROVE Ways'
  OBVIOUS
<1> DEFINE Lead(t) == \A i \in DOMAIN t : Grounded(t[i])
<1>1. CASE UNCHANGED walk /\ ParentsStay
  <2>1. ASSUME NEW t \in Seq(Entries), NEW i \in DOMAIN t, Grounded(t[i])
        PROVE  Grounded(t[i])'
    <3>1. t[i] \in Entries
      OBVIOUS
    <3>2. t[i].path \in Seq(Frames)
      BY <3>1 DEF Entries
    <3>3. QED
      BY <1>1, <2>1, <3>2, LeadsStill DEF Grounded
  <2>2. ASSUME NEW i \in DOMAIN captured
        PROVE  LeadsTo(captured[i].path, captured[i].frame)'
    <3>1. captured[i].path \in Seq(Frames)
      <4>1. captured \in Seq(Groups)
        BY DEF WalkTyped
      <4>2. captured[i] \in Groups
        BY <4>1
      <4>3. QED
        BY <4>2 DEF Groups
    <3>2. LeadsTo(captured[i].path, captured[i].frame)
      BY DEF Ways, PathsLead
    <3>3. (captured[i].path)' = captured[i].path /\ (captured[i].frame)' = captured[i].frame
      BY <1>1 DEF walk
    <3>4. ASSUME NEW path \in Seq(Frames), NEW f, path = captured[i].path,
                 f = captured[i].frame, LeadsTo(path, f)'
          PROVE  LeadsTo(captured[i].path, captured[i].frame)'
      <4>1. (captured[i].path)' = path /\ (captured[i].frame)' = f
        BY <3>3, <3>4
      <4>2. QED
        BY <3>4, <4>1 DEF LeadsTo
    <3>5. QED
      BY <1>1, <3>1, <3>2, <3>4, LeadsStill
  <2>3. queue' = queue /\ wave' = wave /\ captured' = captured
    BY <1>1 DEF walk
  <2>4. \A i \in DOMAIN queue : Grounded(queue[i])'
    BY <2>1, <2>3 DEF Ways, WalkTyped, Grounded, LeadsTo
  <2>5. \A i \in DOMAIN wave : Grounded(wave[i])'
    BY <2>1, <2>3 DEF Ways, WalkTyped, Grounded, LeadsTo
  <2>6. QED
    BY <2>2, <2>3, <2>4, <2>5 DEF Ways, PathsLead
<1> DEFINE Same == UNCHANGED parent
<1>2. ASSUME Same PROVE \A e : Grounded(e) => Grounded(e)'
  BY <1>2 DEF Grounded, LeadsTo
<1>3. CASE pc = "read" /\ queue' = <<Entry(Top, <<>>)>> /\ UNCHANGED <<parent, wave, captured>>
  BY <1>3 DEF Ways, PathsLead, LeadsTo, Grounded, Entry
<1>4. CASE queue = <<>> /\ queue' = wave /\ wave' = <<>> /\ UNCHANGED <<parent, captured>>
  BY <1>4 DEF Ways, PathsLead, LeadsTo, Grounded
<1>5. CASE queue # <<>> /\ queue' = Tail(queue) /\ UNCHANGED <<parent, wave, captured>>
  <2>1. \A i \in DOMAIN queue' : Grounded(queue'[i])
    BY <1>5, Left DEF WalkTyped, Ways
  <2>2. QED
    BY <1>5, <2>1 DEF Ways, PathsLead, LeadsTo, Grounded
<1>6. ASSUME NEW group, NEW entry, Walked(group, entry) PROVE Ways'
  <2> DEFINE above == Head(queue)
  <2>1. above \in Entries /\ Grounded(above) /\ parent[visited] = above.scope
    <3>1. queue # <<>> /\ visited # None /\ queue \in Seq(Entries)
      BY <1>6, FramesAssumption DEF Walked, WalkTyped
    <3>2. Head(queue) = queue[1] /\ 1 \in DOMAIN queue /\ Head(queue) \in Entries
      BY <3>1
    <3>3. QED
      BY <3>1, <3>2 DEF Ways, Looking
  <2>2. above.path \in Seq(Frames) /\ visited \in Frames /\ above.scope \in Frames \cup {Top}
    BY <1>6, <2>1 DEF Entries, Walked
  <2>3. LeadsTo(Append(above.path, visited), visited)
    <3> DEFINE path == Append(above.path, visited)
               n == Len(above.path)
    <3>1. /\ n \in Nat /\ Len(path) = n + 1 /\ path[n + 1] = visited
          /\ \A i \in 1..n : path[i] = above.path[i]
      BY <2>2, Added
    <3>2. CASE above.scope = Top /\ above.path = <<>>
      <4>1. n = 0 /\ Len(path) = 1 /\ path[1] = visited /\ parent[visited] = Top
        BY <2>1, <3>1, <3>2
      <4>2. path # <<>>
        BY <2>2
      <4> HIDE DEF path, n
      <4>3. \A i \in 1..(Len(path) - 1) : FALSE
        BY <4>1
      <4>4. LeadsTo(path, visited)
        BY <4>1, <4>2, <4>3 DEF LeadsTo
      <4>5. QED
        BY <4>4 DEF path
    <3>3. CASE LeadsTo(above.path, above.scope)
      <4>1. n >= 1 /\ above.path[n] = above.scope /\ parent[above.path[1]] = Top
        BY <2>2, <3>3 DEF LeadsTo
      <4>2. path # <<>> /\ parent[path[1]] = Top
        BY <3>1, <4>1
      <4>3. ASSUME NEW i \in 1..n PROVE parent[path[i + 1]] = path[i]
        <5>1. CASE i = n
          BY <2>1, <3>1, <4>1, <5>1
        <5>2. CASE i # n
          <6>1. i \in 1..(n - 1) /\ i + 1 \in 1..n
            BY <3>1, <5>2
          <6>2. parent[above.path[i + 1]] = above.path[i]
            BY <3>3, <6>1 DEF LeadsTo
          <6>3. QED
            BY <3>1, <6>1, <6>2
        <5>3. QED
          BY <5>1, <5>2
      <4> HIDE DEF path, n
      <4>4. LeadsTo(path, visited)
        BY <3>1, <4>2, <4>3 DEF LeadsTo
      <4>5. QED
        BY <4>4 DEF path
    <3>4. QED
      BY <2>1, <3>2, <3>3 DEF Grounded
  <2>4. entry.scope = visited /\ LeadsTo(entry.path, entry.scope) /\ entry \in Entries
    BY <1>6, <2>2, <2>3 DEF Walked, Entry, Entries
  <2>5. group.frame = visited /\ LeadsTo(group.path, group.frame) /\ group \in Groups
    BY <1>6, <2>4 DEF Walked
  <2>6. /\ captured' = Append(captured, group) /\ wave' = Append(wave, entry)
        /\ queue' = queue /\ parent' = parent
    BY <1>6 DEF Walked
  <2>7. \A i \in DOMAIN wave' : Grounded(wave'[i])
    BY <2>4, <2>6, Added DEF Ways, Grounded, WalkTyped
  <2>8. \A i \in DOMAIN captured' : LeadsTo(captured'[i].path, captured'[i].frame)
    BY <2>5, <2>6, Added DEF Ways, PathsLead, WalkTyped
  <2>9. QED
    BY <2>6, <2>7, <2>8 DEF Ways, PathsLead, Grounded, LeadsTo
<1>7. QED
  BY <1>1, <1>3, <1>4, <1>5, <1>6 DEF Step

(*---------------------------- no frame comes twice ------------------------*)
Among(groups, f) == \E i \in DOMAIN groups : groups[i].frame = f

(* A frame stands in at most one entry, and is captured when it is not Top.  *)
Lines ==
  /\ \A i, j \in DOMAIN queue : queue[i].scope = queue[j].scope => i = j
  /\ \A i, j \in DOMAIN wave : wave[i].scope = wave[j].scope => i = j
  /\ \A i \in DOMAIN queue, j \in DOMAIN wave : queue[i].scope # wave[j].scope
  /\ \A i \in DOMAIN queue : queue[i].scope = Top \/ Among(captured, queue[i].scope)
  /\ \A i \in DOMAIN wave : Among(captured, wave[i].scope)

ListedOnce ==
  /\ \A i, j \in DOMAIN listed : listed[i] = listed[j] => i = j
  /\ \A i \in DOMAIN listed : listed[i] # visited

(* Who was captured was captured from the frame that embeds it, which has    *)
(* been looked into, or is being, with the captured one struck off the list. *)
Spent(f) ==
  /\ parent[f] = Top \/ Among(captured, parent[f])
  /\ \A i \in DOMAIN wave : wave[i].scope # parent[f]
  /\ \A i \in DOMAIN queue : queue[i].scope = parent[f] =>
       i = 1 /\ pc = "visit" /\ f # visited /\ \A k \in DOMAIN listed : listed[k] # f

Onces == NoneTwice /\ Lines /\ ListedOnce /\ \A f : Among(captured, f) => Spent(f)

LEMMA CaughtTypes == WalkTyped => \A f : Among(captured, f) => f \in Frames
<1> SUFFICES ASSUME WalkTyped, NEW i \in DOMAIN captured PROVE captured[i].frame \in Frames
  BY DEF Among
<1>1. captured \in Seq(Groups)
  BY DEF WalkTyped
<1>2. captured[i] \in Groups
  BY <1>1
<1>3. QED
  BY <1>2 DEF Groups

LEMMA OnceStill ==
  ASSUME WalkTyped, Onces, ParentsStay, UNCHANGED <<queue, wave, captured, listed, visited>>,
         pc = "visit" => pc' = "visit"
  PROVE  Onces'
<1>1. NoneTwice' /\ Lines' /\ ListedOnce'
  BY DEF Onces, NoneTwice, Lines, ListedOnce, Among
<1>2. ASSUME NEW f, Among(captured, f) PROVE Spent(f)'
  <2>1. Spent(f) /\ f \in Frames
    BY <1>2, CaughtTypes DEF Onces
  <2>2. parent[f] \in Frames \cup {Top}
    BY <2>1, CaughtTypes DEF Spent
  <2>3. parent'[f] = parent[f]
    BY <2>1, <2>2, FramesAssumption DEF ParentsStay
  <2>4. QED
    BY <2>1, <2>3 DEF Spent
<1>3. QED
  BY <1>1, <1>2 DEF Onces

(* A capture: the frame is new, and is not listed once more.                 *)
LEMMA OnceCaptured ==
  ASSUME WalkTyped, Looking, Onces, NEW group, NEW entry, Walked(group, entry)
  PROVE  Onces'
<1> DEFINE n == Len(captured)
           m == Len(wave)
           above == Head(queue).scope
<1>1. /\ queue \in Seq(Entries) /\ wave \in Seq(Entries) /\ captured \in Seq(Groups)
      /\ queue # <<>> /\ group \in Groups /\ entry.scope = visited
      /\ visited \in Frames /\ visited # None /\ visited # Top /\ pc = "visit" /\ pc' = "visit"
      /\ queue' = queue /\ parent' = parent /\ listed' = listed /\ visited' = None
  BY FramesAssumption DEF Walked, WalkTyped, Entry
<1>2. entry \in Entries
  <2>1. Head(queue).path \in Seq(Frames)
    <3>1. Head(queue) \in Entries
      BY <1>1, Left
    <3>2. QED
      BY <3>1 DEF Entries
  <2>2. QED
    BY <1>1, <2>1 DEF Walked, Entry, Entries
<1>3. /\ 1 \in DOMAIN queue /\ queue[1].scope = above /\ parent[visited] = above
      /\ group.frame = visited /\ captured' = Append(captured, group)
      /\ wave' = Append(wave, entry)
  BY <1>1, Left DEF Walked, Looking
<1>4. /\ n \in Nat /\ DOMAIN captured' = 1..(n + 1) /\ DOMAIN captured = 1..n
      /\ captured'[n + 1] = group /\ \A i \in 1..n : captured'[i] = captured[i]
  BY <1>1, <1>3, Added
<1>5. /\ m \in Nat /\ DOMAIN wave' = 1..(m + 1) /\ DOMAIN wave = 1..m
      /\ wave'[m + 1] = entry /\ \A i \in 1..m : wave'[i] = wave[i]
  BY <1>1, <1>2, <1>3, Added
<1> HIDE DEF n, m, above
<1>6. ~Among(captured, visited)
  <2>1. SUFFICES ASSUME Among(captured, visited) PROVE FALSE
    OBVIOUS
  <2>2. Spent(visited)
    BY <2>1 DEF Among, Onces
  <2>3. QED
    BY <1>3, <2>2 DEF Spent
<1>7. (\A f : Among(captured, f) => Among(captured', f)) /\ Among(captured', visited)
  <2>1. ASSUME NEW f, Among(captured, f) PROVE Among(captured', f)
    <3>1. PICK i \in 1..n : captured[i].frame = f
      BY <1>4, <2>1 DEF Among
    <3>2. i \in DOMAIN captured' /\ captured'[i].frame = f
      BY <1>4, <3>1
    <3>3. QED
      BY <3>2 DEF Among
  <2>2. n + 1 \in DOMAIN captured' /\ captured'[n + 1].frame = visited
    BY <1>3, <1>4
  <2>3. QED
    BY <2>1, <2>2 DEF Among
<1>8. NoneTwice'
  <2>1. \A i \in 1..n : captured[i].frame # visited
    BY <1>4, <1>6 DEF Among
  <2>2. \A i, j \in 1..n : captured[i].frame = captured[j].frame => i = j
    BY <1>4 DEF Onces, NoneTwice
  <2>3. ASSUME NEW i \in 1..(n + 1), NEW j \in 1..(n + 1),
               captured'[i].frame = captured'[j].frame
        PROVE  i = j
    <3>1. i \in 1..n \/ i = n + 1
      BY <1>4
    <3>2. j \in 1..n \/ j = n + 1
      BY <1>4
    <3>3. QED
      BY <1>3, <1>4, <2>1, <2>2, <2>3, <3>1, <3>2
  <2>4. QED
    BY <1>4, <2>3 DEF NoneTwice
<1>9. \A i \in DOMAIN queue : queue[i].scope # visited
  BY <1>1, <1>6 DEF Onces, Lines
<1>10. \A i \in 1..m : wave[i].scope # visited
  BY <1>5, <1>6 DEF Onces, Lines
<1>11. Lines'
  <2>1. \A i, j \in DOMAIN queue' : queue'[i].scope = queue'[j].scope => i = j
    BY <1>1 DEF Onces, Lines
  <2>2. ASSUME NEW i \in 1..(m + 1), NEW j \in 1..(m + 1), wave'[i].scope = wave'[j].scope
        PROVE  i = j
    <3>1. (i \in 1..m \/ i = m + 1) /\ (j \in 1..m \/ j = m + 1)
      BY <1>5
    <3>2. \A k, l \in 1..m : wave[k].scope = wave[l].scope => k = l
      BY <1>5 DEF Onces, Lines
    <3>3. QED
      BY <1>1, <1>5, <1>10, <2>2, <3>1, <3>2
  <2>3. ASSUME NEW i \in DOMAIN queue, NEW j \in 1..(m + 1)
        PROVE  queue[i].scope # wave'[j].scope
    <3>1. j \in 1..m \/ j = m + 1
      BY <1>5
    <3>2. \A k \in 1..m : queue[i].scope # wave[k].scope
      BY <1>5 DEF Onces, Lines
    <3>3. QED
      BY <1>1, <1>5, <1>9, <3>1, <3>2
  <2>4. \A i \in DOMAIN queue' : queue'[i].scope = Top \/ Among(captured', queue'[i].scope)
    <3>1. \A i \in DOMAIN queue : queue[i].scope = Top \/ Among(captured, queue[i].scope)
      BY DEF Onces, Lines
    <3>2. QED
      BY <1>1, <1>7, <3>1 DEF Among
  <2>5. ASSUME NEW i \in 1..(m + 1) PROVE Among(captured', wave'[i].scope)
    <3>1. CASE i = m + 1
      <4>1. wave'[i].scope = visited
        BY <1>1, <1>5, <3>1
      <4>2. QED
        BY <1>7, <4>1 DEF Among
    <3>2. CASE i \in 1..m
      <4>1. wave'[i].scope = wave[i].scope /\ Among(captured, wave[i].scope)
        BY <1>5, <3>2 DEF Onces, Lines
      <4>2. QED
        BY <1>7, <4>1 DEF Among
    <3>3. QED
      BY <1>5, <3>1, <3>2
  <2>6. QED
    BY <1>1, <1>5, <2>1, <2>2, <2>3, <2>4, <2>5 DEF Lines
<1>12. ListedOnce'
  <2>1. \A i \in DOMAIN listed : listed[i] \in Frames
    BY DEF WalkTyped
  <2>2. QED
    BY <1>1, <2>1, FramesAssumption DEF Onces, ListedOnce
<1>13. ASSUME NEW f, Among(captured', f) PROVE Spent(f)'
  <2>1. CASE f = visited
    <3>1. parent'[f] = above
      BY <1>1, <1>3, <2>1
    <3>2. above = Top \/ Among(captured', above)
      BY <1>3, <1>7 DEF Onces, Lines
    <3>3. \A j \in DOMAIN wave' : wave'[j].scope # above
      <4>1. \A j \in 1..m : wave[j].scope # above
        BY <1>3, <1>5 DEF Onces, Lines
      <4>2. visited # above
        BY <1>3, <1>9
      <4>3. QED
        BY <1>1, <1>5, <4>1, <4>2
    <3>4. \A j \in DOMAIN queue' : queue'[j].scope = above => j = 1
      BY <1>1, <1>3 DEF Onces, Lines
    <3>5. visited # visited' /\ \A k \in DOMAIN listed' : listed'[k] # visited
      BY <1>1 DEF Onces, ListedOnce
    <3>6. QED
      BY <1>1, <2>1, <3>1, <3>2, <3>3, <3>4, <3>5 DEF Spent
  <2>2. CASE f # visited
    <3>1. Spent(f) /\ f \in Frames
      <4>1. PICK i \in 1..(n + 1) : captured'[i].frame = f
        BY <1>4, <1>13 DEF Among
      <4>2. i # n + 1
        BY <1>3, <1>4, <2>2, <4>1
      <4>3. i \in DOMAIN captured /\ captured[i].frame = f
        BY <1>4, <4>1, <4>2
      <4>4. QED
        BY <4>3, CaughtTypes DEF Onces, Among
    <3>2. parent'[f] = parent[f]
      BY <1>1
    <3>3. parent[f] = Top \/ Among(captured', parent[f])
      BY <1>7, <3>1 DEF Spent
    <3>4. parent[f] # visited
      BY <1>1, <1>6, <3>1 DEF Spent
    <3>5. \A j \in DOMAIN wave' : wave'[j].scope # parent[f]
      BY <1>1, <1>5, <3>1, <3>4 DEF Spent
    <3>6. f # visited'
      BY <1>1, <3>1, FramesAssumption
    <3>7. QED
      BY <1>1, <3>1, <3>2, <3>3, <3>5, <3>6 DEF Spent
  <2>3. QED
    BY <2>1, <2>2
<1>14. QED
  BY <1>8, <1>11, <1>12, <1>13 DEF Onces

(* An entry is done with, and with it the list.                              *)
LEMMA OncePassed ==
  ASSUME WalkTyped, Onces, queue # <<>>, queue' = Tail(queue),
         UNCHANGED <<parent, wave, captured>>, ListedOnce',
         pc # "visit" \/ pc' = "scan"
  PROVE  Onces'
<1> DEFINE n == Len(queue)
<1>1. /\ n \in Nat \ {0} /\ DOMAIN queue' = 1..(n - 1) /\ DOMAIN queue = 1..n
      /\ \A i \in 1..(n - 1) : i + 1 \in 1..n /\ queue'[i] = queue[i + 1]
  BY Left DEF WalkTyped
<1> HIDE DEF n
<1>2. NoneTwice' /\ \A f : Among(captured, f) <=> Among(captured', f)
  BY DEF Onces, NoneTwice, Among
<1>3. Lines'
  <2>1. ASSUME NEW i \in 1..(n - 1), NEW j \in 1..(n - 1), queue'[i].scope = queue'[j].scope
        PROVE  i = j
    <3>1. i + 1 \in DOMAIN queue /\ j + 1 \in DOMAIN queue /\ queue[i + 1].scope = queue[j + 1].scope
      BY <1>1, <2>1
    <3>2. i + 1 = j + 1
      BY <3>1 DEF Onces, Lines
    <3>3. QED
      BY <1>1, <3>2
  <2>2. \A i \in DOMAIN queue', j \in DOMAIN wave : queue'[i].scope # wave[j].scope
    BY <1>1 DEF Onces, Lines
  <2>3. \A i \in DOMAIN queue' : queue'[i].scope = Top \/ Among(captured, queue'[i].scope)
    BY <1>1 DEF Onces, Lines
  <2>4. QED
    BY <1>1, <2>1, <2>2, <2>3 DEF Onces, Lines
<1>4. ASSUME NEW f, Among(captured, f) PROVE Spent(f)'
  <2>1. Spent(f)
    BY <1>4 DEF Onces
  <2>2. \A j \in DOMAIN queue' : queue'[j].scope # parent[f]
    <3>1. ASSUME NEW j \in 1..(n - 1), queue[j + 1].scope = parent[f] PROVE FALSE
      BY <1>1, <2>1, <3>1 DEF Spent
    <3>2. QED
      BY <1>1, <3>1
  <2>3. QED
    BY <2>1, <2>2 DEF Spent
<1>5. QED
  BY <1>2, <1>3, <1>4 DEF Onces

LEMMA OncesOn == WalkTyped /\ Looking /\ Onces /\ [FrameNext]_frameVars => Onces'
<1> SUFFICES ASSUME WalkTyped, Looking, Onces, [FrameNext]_frameVars PROVE Onces'
  OBVIOUS
<1>1. ASSUME NEW f \in Frames, NEW p \in Frames \cup {Top}, Attach(f, p) PROVE Onces'
  <2>1. ParentsStay /\ UNCHANGED <<queue, wave, captured, listed, visited, pc>>
    BY <1>1 DEF Attach, look, ParentsStay, WalkTyped
  <2>2. QED
    BY <2>1, OnceStill
<1>2. ASSUME NEW frames \in SUBSET Attached, Detach(frames) PROVE Onces'
  <2>1. ParentsStay /\ UNCHANGED <<queue, wave, captured, listed, visited, pc>>
    BY <1>2 DEF Detach, look, ParentsStay
  <2>2. QED
    BY <2>1, OnceStill
<1>3. CASE ReadTop \/ OutOfBudget \/ Reported \/ UNCHANGED frameVars
  <2>1. ParentsStay /\ UNCHANGED <<queue, wave, captured, listed, visited>>
    BY <1>3 DEF ReadTop, OutOfBudget, Reported, frameVars, shown, look, ParentsStay
  <2>2. pc = "visit" => pc' = "visit"
    BY <1>3 DEF ReadTop, OutOfBudget, Reported, frameVars
  <2>3. QED
    BY <2>1, <2>2, OnceStill
<1>4. CASE BeginFrames
  <2>1. captured = <<>> /\ wave = <<>> /\ queue = <<>> /\ UNCHANGED <<wave, captured, listed, visited>>
    BY <1>4 DEF BeginFrames, Looking
  <2>2. queue' = <<>> \/ queue' = <<Entry(Top, <<>>)>>
    BY <1>4, <2>1 DEF BeginFrames
  <2>3. \A f : ~Among(captured', f)
    BY <2>1 DEF Among
  <2>4. NoneTwice' /\ ListedOnce'
    BY <2>1 DEF NoneTwice, Onces, ListedOnce
  <2>5. Lines'
    BY <2>1, <2>2 DEF Lines, Entry
  <2>6. QED
    BY <2>3, <2>4, <2>5 DEF Onces
<1>5. CASE NextWave
  <2>1. queue = <<>> /\ queue' = wave /\ wave' = <<>> /\ UNCHANGED <<parent, captured, listed, visited>>
    BY <1>5 DEF NextWave, shown
  <2>2. NoneTwice' /\ ListedOnce'
    BY <2>1 DEF NoneTwice, Onces, ListedOnce
  <2>3. Lines'
    BY <2>1 DEF Onces, Lines
  <2>4. ASSUME NEW f, Among(captured, f) PROVE Spent(f)'
    BY <2>1, <2>4 DEF Onces, Spent
  <2>5. QED
    BY <2>1, <2>2, <2>3, <2>4 DEF Onces
<1>6. CASE PassOver
  BY <1>6, OncePassed DEF PassOver, Passed, shown, Onces, ListedOnce
<1>7. ASSUME NEW listing \in Listings, List(listing) PROVE Onces'
  <2>1. /\ pc = "scan" /\ listed' = listing /\ visited' = None
        /\ UNCHANGED <<parent, captured, queue, wave>> /\ OneEach(listing)
    BY <1>7 DEF List, Looking, shown
  <2>2. \A i \in DOMAIN listing : listing[i] \in Frames
    BY DEF Listings, Attached
  <2>3. ListedOnce'
    BY <2>1, <2>2, FramesAssumption DEF ListedOnce, OneEach
  <2>4. NoneTwice' /\ Lines'
    BY <2>1 DEF Onces, NoneTwice, Lines
  <2>5. ASSUME NEW f, Among(captured, f) PROVE Spent(f)'
    BY <2>1, <2>5 DEF Onces, Spent
  <2>6. QED
    BY <2>1, <2>3, <2>4, <2>5 DEF Onces
<1>8. CASE ListedAll
  <2>1. /\ pc' = "scan" /\ queue # <<>> /\ queue' = Tail(queue) /\ listed' = <<>>
        /\ UNCHANGED <<parent, wave, captured>>
    BY <1>8 DEF ListedAll, Passed, shown, Looking
  <2>2. ListedOnce'
    BY <2>1 DEF ListedOnce
  <2>3. QED
    BY <2>1, <2>2, OncePassed
<1>9. CASE Visit
  <2>1. /\ listed # <<>> /\ listed' = Tail(listed) /\ visited' \in {Head(listed), None}
        /\ UNCHANGED <<parent, captured, queue, wave, pc>> /\ listed \in Seq(Frames)
    BY <1>9 DEF Visit, shown, WalkTyped
  <2> DEFINE n == Len(listed)
  <2>2. /\ n \in Nat \ {0} /\ DOMAIN listed = 1..n /\ DOMAIN listed' = 1..(n - 1)
        /\ \A i \in 1..(n - 1) : i + 1 \in 1..n /\ listed'[i] = listed[i + 1]
        /\ Head(listed) = listed[1] /\ \A i \in 1..n : listed[i] \in Frames
    BY <2>1, Left
  <2> HIDE DEF n
  <2>3. \A i, j \in 1..n : listed[i] = listed[j] => i = j
    BY <2>2 DEF Onces, ListedOnce
  <2>4. ListedOnce'
    <3>1. ASSUME NEW i \in 1..(n - 1), NEW j \in 1..(n - 1), listed'[i] = listed'[j]
          PROVE  i = j
      <4>1. i + 1 = j + 1
        BY <2>2, <2>3, <3>1
      <4>2. QED
        BY <2>2, <4>1
    <3>2. ASSUME NEW i \in 1..(n - 1) PROVE listed'[i] # visited'
      <4>1. i + 1 # 1 /\ i + 1 \in 1..n /\ 1 \in 1..n
        BY <2>2
      <4>2. listed[i + 1] # listed[1]
        BY <2>3, <4>1
      <4>3. listed[i + 1] # None
        BY <2>2, FramesAssumption
      <4>4. QED
        BY <2>1, <2>2, <4>2, <4>3
    <3>3. QED
      BY <2>2, <3>1, <3>2 DEF ListedOnce
  <2>5. NoneTwice' /\ Lines'
    BY <2>1 DEF Onces, NoneTwice, Lines
  <2>6. ASSUME NEW f, Among(captured, f) PROVE Spent(f)'
    <3>1. Spent(f) /\ f \in Frames
      BY <2>6, CaughtTypes DEF Onces
    <3>2. ASSUME NEW i \in DOMAIN queue, queue[i].scope = parent[f]
          PROVE  /\ i = 1 /\ pc = "visit" /\ f # visited'
                 /\ \A k \in DOMAIN listed' : listed'[k] # f
      <4>1. i = 1 /\ pc = "visit" /\ \A k \in 1..n : listed[k] # f
        BY <2>2, <3>1, <3>2 DEF Spent
      <4>2. f # listed[1] /\ f # None
        BY <2>2, <3>1, <4>1, FramesAssumption
      <4>3. QED
        BY <2>1, <2>2, <4>1, <4>2
    <3>3. QED
      BY <2>1, <3>1, <3>2 DEF Spent
  <2>7. QED
    BY <2>1, <2>4, <2>5, <2>6 DEF Onces
<1>10. CASE VisitFails
  <2>1. visited' = None /\ UNCHANGED <<parent, captured, queue, wave, listed, pc>>
    BY <1>10 DEF VisitFails, shown
  <2>2. \A i \in DOMAIN listed : listed[i] \in Frames
    BY DEF WalkTyped
  <2>3. ListedOnce'
    BY <2>1, <2>2, FramesAssumption DEF Onces, ListedOnce
  <2>4. NoneTwice' /\ Lines'
    BY <2>1 DEF Onces, NoneTwice, Lines
  <2>5. ASSUME NEW f, Among(captured, f) PROVE Spent(f)'
    <3>1. Spent(f) /\ f # None
      BY <2>5, CaughtTypes, FramesAssumption DEF Onces
    <3>2. QED
      BY <2>1, <3>1 DEF Spent
  <2>6. QED
    BY <2>1, <2>3, <2>4, <2>5 DEF Onces
<1>11. CASE CaptureFrame
  BY <1>11, CaptureWalks, OnceCaptured
<1>12. QED
  BY <1>1, <1>2, <1>3, <1>4, <1>5, <1>6, <1>7, <1>8, <1>9, <1>10, <1>11 DEF FrameNext

(*----------------------------- wave after wave ----------------------------*)
Level(d) == /\ \A i \in DOMAIN queue : Len(queue[i].path) = d
            /\ \A i \in DOMAIN wave : Len(wave[i].path) = d + 1
            /\ \A i \in DOMAIN captured : Len(captured[i].path) <= d + 1
Levels == BreadthFirst /\ \E d \in Nat : Level(d)

LEMMA PathLengths ==
  WalkTyped => /\ \A i \in DOMAIN captured : Len(captured[i].path) \in Nat
               /\ queue # <<>> => /\ Head(queue).path \in Seq(Frames)
                                 /\ Head(queue) = queue[1] /\ 1 \in DOMAIN queue
<1> SUFFICES ASSUME WalkTyped
             PROVE  /\ \A i \in DOMAIN captured : Len(captured[i].path) \in Nat
                    /\ queue # <<>> => /\ Head(queue).path \in Seq(Frames)
                                      /\ Head(queue) = queue[1] /\ 1 \in DOMAIN queue
  OBVIOUS
<1>1. ASSUME NEW i \in DOMAIN captured PROVE Len(captured[i].path) \in Nat
  <2>1. captured \in Seq(Groups)
    BY DEF WalkTyped
  <2>2. captured[i] \in Groups
    BY <2>1
  <2>3. captured[i].path \in Seq(Frames)
    BY <2>2 DEF Groups
  <2>4. QED
    BY <2>3
<1>2. ASSUME queue # <<>>
      PROVE  Head(queue).path \in Seq(Frames) /\ Head(queue) = queue[1] /\ 1 \in DOMAIN queue
  <2>1. Head(queue) \in Entries /\ Head(queue) = queue[1] /\ 1 \in DOMAIN queue
    BY <1>2, Left DEF WalkTyped
  <2>2. QED
    BY <2>1 DEF Entries
<1>3. QED
  BY <1>1, <1>2

LEMMA LevelsOn == WalkTyped /\ Looking /\ Levels /\ Step => Levels'
<1> SUFFICES ASSUME WalkTyped, Looking, BreadthFirst, Step, NEW d \in Nat, Level(d)
             PROVE  Levels'
  BY DEF Levels
<1>1. CASE UNCHANGED walk
  <2>1. Level(d)' /\ BreadthFirst'
    BY <1>1 DEF walk, Level, BreadthFirst
  <2>2. QED
    BY <2>1 DEF Levels
<1>2. CASE pc = "read" /\ queue' = <<Entry(Top, <<>>)>> /\ UNCHANGED <<parent, wave, captured>>
  <2>1. captured' = <<>> /\ wave' = <<>>
    BY <1>2 DEF Looking
  <2>2. Level(0)' /\ BreadthFirst'
    BY <1>2, <2>1 DEF Level, BreadthFirst, Entry
  <2>3. QED
    BY <2>2 DEF Levels
<1>3. CASE queue = <<>> /\ queue' = wave /\ wave' = <<>> /\ UNCHANGED <<parent, captured>>
  <2>1. Level(d + 1)' /\ BreadthFirst'
    BY <1>3, PathLengths DEF Level, BreadthFirst
  <2>2. d + 1 \in Nat
    OBVIOUS
  <2>3. QED
    BY <2>1, <2>2 DEF Levels
<1>4. CASE queue # <<>> /\ queue' = Tail(queue) /\ UNCHANGED <<parent, wave, captured>>
  <2>1. \A i \in DOMAIN queue' : Len(queue'[i].path) = d
    BY <1>4, Left DEF WalkTyped, Level
  <2>2. Level(d)' /\ BreadthFirst'
    BY <1>4, <2>1 DEF Level, BreadthFirst
  <2>3. QED
    BY <2>2 DEF Levels
<1>5. ASSUME NEW group, NEW entry, Walked(group, entry) PROVE Levels'
  <2> DEFINE n == Len(captured)
             m == Len(wave)
  <2>1. /\ queue # <<>> /\ queue' = queue /\ group \in Groups /\ group.path = entry.path
        /\ captured \in Seq(Groups) /\ wave \in Seq(Entries)
        /\ entry.path = Append(Head(queue).path, visited) /\ visited \in Frames
        /\ entry.scope = visited /\ entry = Entry(visited, entry.path)
    BY <1>5 DEF Walked, WalkTyped, Entry
  <2>2. Len(entry.path) = d + 1 /\ entry \in Entries
    <3>1. Head(queue).path \in Seq(Frames) /\ Len(Head(queue).path) = d
      BY <2>1, PathLengths DEF Level
    <3>2. entry.path \in Seq(Frames) /\ Len(entry.path) = d + 1
      BY <2>1, <3>1
    <3>3. QED
      BY <2>1, <3>2 DEF Entry, Entries
  <2>3. /\ n \in Nat /\ DOMAIN captured' = 1..(n + 1) /\ DOMAIN captured = 1..n
        /\ captured'[n + 1] = group /\ \A i \in 1..n : captured'[i] = captured[i]
    BY <1>5, <2>1, Added DEF Walked
  <2>4. /\ m \in Nat /\ DOMAIN wave' = 1..(m + 1) /\ DOMAIN wave = 1..m
        /\ wave'[m + 1] = entry /\ \A i \in 1..m : wave'[i] = wave[i]
    BY <1>5, <2>1, <2>2, Added DEF Walked
  <2> HIDE DEF n, m
  <2>5. \A i \in 1..n : Len(captured[i].path) <= d + 1 /\ Len(captured[i].path) \in Nat
    BY <2>3, PathLengths DEF Level
  <2>6. Level(d)'
    <3>1. \A i \in 1..(m + 1) : Len(wave'[i].path) = d + 1
      <4>1. \A i \in 1..m : Len(wave[i].path) = d + 1
        BY <2>4 DEF Level
      <4>2. \A i \in 1..(m + 1) : i \in 1..m \/ i = m + 1
        BY <2>4
      <4>3. QED
        BY <2>2, <2>4, <4>1, <4>2
    <3>2. \A i \in 1..(n + 1) : Len(captured'[i].path) <= d + 1
      <4>1. \A i \in 1..(n + 1) : i \in 1..n \/ i = n + 1
        BY <2>3
      <4>2. Len(captured'[n + 1].path) <= d + 1
        BY <2>1, <2>2, <2>3
      <4>3. QED
        BY <2>3, <2>5, <4>1, <4>2
    <3>3. \A i \in DOMAIN queue' : Len(queue'[i].path) = d
      BY <2>1 DEF Level
    <3>4. QED
      BY <2>3, <2>4, <3>1, <3>2, <3>3 DEF Level
  <2>7. BreadthFirst'
    <3>1. ASSUME NEW i \in 1..(n + 1), NEW j \in 1..(n + 1), i < j
          PROVE  Len(captured'[i].path) <= Len(captured'[j].path)
      <4>1. i \in 1..n /\ (j \in 1..n \/ j = n + 1)
        BY <2>3, <3>1
      <4>2. CASE j \in 1..n
        BY <2>3, <3>1, <4>1, <4>2 DEF BreadthFirst
      <4>3. CASE j = n + 1
        BY <2>1, <2>2, <2>3, <2>5, <4>1, <4>3
      <4>4. QED
        BY <4>1, <4>2, <4>3
    <3>2. QED
      BY <2>3, <3>1 DEF BreadthFirst
  <2>8. QED
    BY <2>6, <2>7 DEF Levels
<1>6. QED
  BY <1>1, <1>2, <1>3, <1>4, <1>5 DEF Step

(*---------------------------- within the limits ---------------------------*)
Limits == WithinBounds /\ (visited # None => Len(captured) + budget < MaxFrames)

LEMMA LimitsOn == WalkTyped /\ Looking /\ Limits /\ [FrameNext]_frameVars => Limits'
<1> SUFFICES ASSUME WalkTyped, Looking, Limits, [FrameNext]_frameVars PROVE Limits'
  OBVIOUS
<1>1. MaxFrames \in Nat /\ MaxDepth \in Nat /\ budget \in Nat /\ Len(captured) \in Nat
  BY FramesAssumption DEF WalkTyped
<1>2. CASE UNCHANGED <<captured, budget>> /\ visited' \in {visited, None}
  BY <1>2 DEF Limits, WithinBounds
<1>3. CASE Visit
  BY <1>1, <1>3 DEF Visit, Limits, WithinBounds
<1>4. CASE CaptureFrame
  <2>1. PICK group, entry : Walked(group, entry)
    BY <1>4, CaptureWalks
  <2>2. /\ budget' = budget /\ visited' = None /\ visited \in Frames /\ pc = "visit"
        /\ captured' = Append(captured, group) /\ group \in Groups
        /\ group.path = Append(Head(queue).path, visited) /\ queue # <<>>
    BY <2>1 DEF Walked, Entry
  <2>3. visited # None /\ Len(Head(queue).path) < MaxDepth
    BY <2>2, FramesAssumption DEF Looking
  <2>4. Len(group.path) = Len(Head(queue).path) + 1 /\ Len(Head(queue).path) \in Nat
    BY <2>2, PathLengths
  <2>5. Len(group.path) <= MaxDepth
    BY <1>1, <2>3, <2>4
  <2> DEFINE n == Len(captured)
  <2>6. /\ n \in Nat /\ DOMAIN captured' = 1..(n + 1) /\ DOMAIN captured = 1..n
        /\ Len(captured') = n + 1
        /\ captured'[n + 1] = group /\ \A i \in 1..n : captured'[i] = captured[i]
    BY <2>2, Added DEF WalkTyped
  <2>7. n + budget < MaxFrames
    BY <2>3 DEF Limits
  <2> HIDE DEF n
  <2>8. \A i \in 1..n : Len(captured[i].path) <= MaxDepth
    BY <2>6 DEF Limits, WithinBounds
  <2>9. \A i \in 1..(n + 1) : Len(captured'[i].path) <= MaxDepth
    <3>1. ASSUME NEW i \in 1..(n + 1) PROVE i \in 1..n \/ i = n + 1
      BY <2>6
    <3>2. QED
      BY <2>5, <2>6, <2>8, <3>1
  <2>10. Len(captured') + budget' <= MaxFrames
    BY <1>1, <2>2, <2>6, <2>7
  <2>11. QED
    BY <2>2, <2>6, <2>9, <2>10 DEF Limits, WithinBounds
<1>5. QED
  <2>1. ASSUME ~Visit, ~CaptureFrame
        PROVE  UNCHANGED <<captured, budget>> /\ visited' \in {visited, None}
    BY <2>1 DEF FrameNext, Attach, Detach, ReadTop, BeginFrames, NextWave, OutOfBudget, PassOver,
                List, ListedAll, VisitFails, Reported, look, shown, frameVars
  <2>2. QED
    BY <1>2, <1>3, <1>4, <2>1

(* However frames come and go: a read goes down to a frame by its hosts, to  *)
(* none twice, to the upper ones first, and stays within its limits.         *)
THEOREM FramesAreWalked == FrameSpec => []FramesInv
<1> DEFINE Inv == WalkTyped /\ Looking /\ Ways /\ Onces /\ Levels /\ Limits
<1>1. FrameInit => Inv
  <2> SUFFICES ASSUME FrameInit PROVE Inv
    OBVIOUS
  <2> USE DEF FrameInit
  <2>1. WalkTyped
    BY FramesAssumption DEF WalkTyped, Shown
  <2>2. Looking /\ Ways
    BY DEF Looking, Ways, PathsLead
  <2>3. Onces
    BY DEF Onces, NoneTwice, Lines, ListedOnce, Among
  <2>4. Levels
    <3>1. Level(0) /\ BreadthFirst
      BY DEF Level, BreadthFirst
    <3>2. QED
      BY <3>1 DEF Levels
  <2>5. Limits
    BY FramesAssumption DEF Limits, WithinBounds
  <2>6. QED
    BY <2>1, <2>2, <2>3, <2>4, <2>5
<1>2. Inv /\ [FrameNext]_frameVars => Inv'
  BY WalkTypes, LooksOn, Steps, WaysLead, OncesOn, LevelsOn, LimitsOn
<1>3. Inv => FramesInv
  BY DEF Ways, Onces, Levels, Limits, FramesInv
<1>4. QED
  BY <1>1, <1>2, <1>3, PTL DEF FrameSpec

(*---------------------------- fit for use ---------------------------------*)

(* An order on a set, as the pairs of which the first comes before, and the  *)
(* place it gives an element.                                                *)
Orders(R, S) ==
  /\ \A x \in S : <<x, x>> \notin R
  /\ \A x, y \in S : x = y \/ <<x, y>> \in R \/ <<y, x>> \in R
  /\ \A x, y, z \in S : <<x, y>> \in R /\ <<y, z>> \in R => <<x, z>> \in R
PlaceIn(R, S, x) == Cardinality({y \in S : y = x \/ <<y, x>> \in R})

(* The places of a finite order are taken, each by one.                      *)
LEMMA EachPlaceIsTaken ==
  ASSUME NEW S, IsFiniteSet(S), NEW R, Orders(R, S)
  PROVE  \A n \in 1..Cardinality(S) : \E x \in S : PlaceIn(R, S, x) = n
<1> DEFINE Upto(x) == {y \in S : y = x \/ <<y, x>> \in R}
           Count == [x \in S |-> Cardinality(Upto(x))]
           C == Cardinality(S)
<1>0. \A x, y \in S : x = y \/ <<x, y>> \in R \/ <<y, x>> \in R BY DEF Orders
<1>1. C \in Nat BY FS_CardinalityType
<1>2. \A x \in S : /\ IsFiniteSet(Upto(x)) /\ Count[x] = Cardinality(Upto(x))
                   /\ Count[x] \in 1..C
  <2> TAKE x \in S
  <2>1. Upto(x) \in SUBSET S OBVIOUS
  <2>2. IsFiniteSet(Upto(x)) /\ Cardinality(Upto(x)) <= C BY <2>1, FS_Subset
  <2>3. x \in Upto(x) OBVIOUS
  <2>4. Cardinality(Upto(x)) \in Nat /\ Cardinality(Upto(x)) # 0
    BY <2>2, <2>3, FS_CardinalityType, FS_EmptySet
  <2> HIDE DEF Upto
  <2> QED BY <2>2, <2>4, <1>1
<1>3. \A x, y \in S : <<x, y>> \in R => Count[x] # Count[y]
  <2> TAKE x, y \in S
  <2> HAVE <<x, y>> \in R
  <2>1. Upto(x) \in SUBSET Upto(y) BY DEF Orders
  <2>2. y \in Upto(y) OBVIOUS
  <2>3. y \notin Upto(x)
    <3>1. x # y /\ ~(<<y, x>> \in R)
      <4>1. <<x, x>> \notin R BY DEF Orders
      <4>2. <<x, y>> \in R /\ <<y, x>> \in R => <<x, x>> \in R BY DEF Orders
      <4> QED BY <4>1, <4>2
    <3> QED BY <3>1
  <2>4. Cardinality(Upto(x)) # Cardinality(Upto(y))
    <3> HIDE DEF Upto
    <3> QED BY <2>1, <2>2, <2>3, <1>2, FS_Subset
  <2> QED BY <2>4, <1>2
<1>4. \A x, y \in S : Count[x] = Count[y] => x = y
  <2> HIDE DEF Count
  <2> QED BY <1>0, <1>3
<1>5. Count \in [S -> 1..C] /\ (\A x, y \in S : Count[x] = Count[y] => x = y)
  BY <1>2, <1>4
<1>6. Count \in Injection(S, 1..C)
  <2> HIDE DEF Count
  <2> QED BY <1>5, Zenon DEF Injection, IsInjective
<1>7. IsFiniteSet(1..C) /\ Cardinality(1..C) = C BY <1>1, FS_Interval
<1> HIDE DEF Count
<1>8. Count \in Surjection(S, 1..C) BY <1>6, <1>7, FS_Injection
<1>9. \A n \in 1..C : \E x \in S : Count[x] = n BY <1>8 DEF Surjection
<1> QED BY <1>9, <1>2 DEF PlaceIn

(* Numbers in order are a sequence of them.                                  *)
LEMMA InOrderLists ==
  ASSUME NEW S, \A x \in S : x \in Nat, IsFiniteSet(S)
  PROVE  InOrder(S) \in Seq(S) /\ Len(InOrder(S)) = Cardinality(S)
<1> DEFINE R == {p \in S \X S : p[1] < p[2]}
           T == InOrder(S)
<1>1. Cardinality(S) \in Nat BY FS_CardinalityType
<1>2. ASSUME NEW k \in 1..Cardinality(S) PROVE T[k] \in S
  <2>1. Orders(R, S) BY DEF Orders
  <2>2. PICK x \in S : PlaceIn(R, S, x) = k
    <3> HIDE DEF R
    <3> QED BY <2>1, EachPlaceIsTaken
  <2>3. {y \in S : y = x \/ <<y, x>> \in R} = {e \in S : e <= x}
    <3>1. \A y \in S : (y = x \/ <<y, x>> \in R) <=> y <= x OBVIOUS
    <3> HIDE DEF R
    <3> QED BY <3>1
  <2>4. \E el \in S : Cardinality({e \in S : e <= el}) = k BY <2>2, <2>3 DEF PlaceIn
  <2>5. T[k] = CHOOSE el \in S : Cardinality({e \in S : e <= el}) = k BY DEF InOrder
  <2> QED BY <2>4, <2>5
<1>3. T = [k \in 1..Cardinality(S) |-> T[k]]
  <2> DEFINE Pick(k) == CHOOSE el \in S : Cardinality({e \in S : e <= el}) = k
  <2>1. T = [k \in 1..Cardinality(S) |-> Pick(k)] BY DEF InOrder
  <2> HIDE DEF T, Pick
  <2> QED BY <2>1
<1> HIDE DEF T
<1>4. \A k \in 1..Cardinality(S) : T[k] \in S BY <1>2
<1>5. T \in [1..Cardinality(S) -> S] BY <1>3, <1>4
<1>6. T \in Seq(S) /\ Len(T) = Cardinality(S) BY <1>1, <1>5
<1> QED BY <1>6 DEF T

(* A finite set of numbers has a greatest one.                               *)
LEMMA MaxIsOne ==
  ASSUME NEW S, \A x \in S : x \in Int, IsFiniteSet(S), S # {}
  PROVE  Max(S) \in S /\ \A y \in S : y <= Max(S)
<1>0. PICK R : R = {p \in S \X S : p[1] < p[2]} OBVIOUS
<1>1. Orders(R, S) BY <1>0 DEF Orders
<1>2. Cardinality(S) \in 1..Cardinality(S) BY FS_CardinalityType, FS_EmptySet
<1>3. PICK x \in S : PlaceIn(R, S, x) = Cardinality(S)
  BY <1>1, <1>2, EachPlaceIsTaken
<1>4. {y \in S : y = x \/ <<y, x>> \in R} = S
  <2> DEFINE all == {y \in S : y = x \/ <<y, x>> \in R}
  <2>1. all \in SUBSET S OBVIOUS
  <2> HIDE DEF all
  <2>2. all = S BY <2>1, <1>3, FS_Subset DEF all, PlaceIn
  <2> QED BY <2>2 DEF all
<1>5. \A y \in S : x >= y
  <2> TAKE y \in S
  <2>1. y = x \/ <<y, x>> \in R BY <1>4
  <2> QED BY <1>0, <2>1
<1> QED BY <1>5 DEF Max

(* A function is given by what it says at an element and, of the others, at  *)
(* the element above, which is a lesser number.                              *)
Recursive(S, base, step, above, nil, f) ==
  \A e \in S : f[e] = IF above[e] = nil THEN base[e] ELSE step[<<e, f[above[e]]>>]
Descends(S, above, nil) == \A e \in S : above[e] = nil \/ (above[e] \in S /\ above[e] < e)
Below(S, most) == \A e \in S : e \in Nat /\ e < most
Stays(S, V, base, step) == \A e \in S : base[e] \in V /\ \A v \in V : step[<<e, v>>] \in V

LEMMA RecursionGives ==
  ASSUME NEW S, NEW most, most \in Nat, Below(S, most), NEW V, NEW base, NEW step,
         NEW above, NEW nil, Stays(S, V, base, step), Descends(S, above, nil)
  PROVE  \E f \in [S -> V] : Recursive(S, base, step, above, nil, f)
<1>a. \A e \in S : e \in Nat /\ e < most BY DEF Below
<1>b. \A e \in S : base[e] \in V /\ \A v \in V : step[<<e, v>>] \in V BY DEF Stays
<1>c. \A e \in S : above[e] = nil \/ (above[e] \in S /\ above[e] < e) BY DEF Descends
<1> USE <1>a, <1>b, <1>c
<1> DEFINE Right(f, e) == f[e] = IF above[e] = nil THEN base[e] ELSE step[<<e, f[above[e]]>>]
           Reaches(n) == \E f \in [S -> V] : \A e \in S : e < n => Right(f, e)
           Bad == {n \in Nat : ~Reaches(n)}
<1>1. ASSUME Bad # {} PROVE FALSE
  <2>1. Bad \in SUBSET Nat OBVIOUS
  <2> HIDE DEF Bad
  <2>2. PICK m \in Bad : \A n \in Bad : m <= n BY <1>1, <2>1, LeastNumber
  <2> USE DEF Bad
  <2>3. m \in Nat /\ ~Reaches(m) OBVIOUS
  <2>4. m # 0
    <3>1. Reaches(0)
      <4> DEFINE f == [e \in S |-> base[e]]
      <4>1. f \in [S -> V] OBVIOUS
      <4>2. \A e \in S : ~(e < 0) OBVIOUS
      <4> HIDE DEF f, Right
      <4> QED BY <4>1, <4>2
    <3> HIDE DEF Reaches
    <3> QED BY <2>3, <3>1
  <2>5. m - 1 \in Nat /\ m - 1 \notin Bad BY <2>2, <2>3, <2>4
  <2>6. PICK f \in [S -> V] : \A e \in S : e < m - 1 => Right(f, e) BY <2>5
  <2>7. CASE m - 1 \notin S
    <3>1. \A e \in S : e < m => e < m - 1 BY <2>3, <2>7
    <3> QED BY <2>6, <2>3, <3>1
  <2>8. CASE m - 1 \in S
    <3> DEFINE k == m - 1
               new == IF above[k] = nil THEN base[k] ELSE step[<<k, f[above[k]]>>]
               g == [f EXCEPT ![k] = new]
    <3>1. new \in V
      <4>1. CASE above[k] = nil BY <4>1, <2>8
      <4>2. CASE above[k] # nil
        <5>1. above[k] \in S BY <4>2, <2>8
        <5>2. f[above[k]] \in V BY <5>1
        <5> QED BY <4>2, <5>2, <2>8
      <4> QED BY <4>1, <4>2
    <3> HIDE DEF new
    <3>2. g \in [S -> V] BY <3>1
    <3>3. g[k] = new /\ \A e \in S : e # k => g[e] = f[e] BY <2>8
    <3> HIDE DEF g
    <3>4. ASSUME NEW e \in S, e < m PROVE Right(g, e)
      <4>1. above[e] # nil => above[e] \in S /\ above[e] # k /\ above[e] < e BY <2>3, <3>4
      <4>2. above[e] # nil => g[above[e]] = f[above[e]] BY <4>1, <3>3
      <4>3. CASE e = k BY <4>2, <4>3, <3>3 DEF new
      <4>4. CASE e # k
        <5>1. e < m - 1 BY <4>4, <3>4, <2>3
        <5>2. Right(f, e) /\ g[e] = f[e] BY <5>1, <2>6, <3>3, <4>4
        <5> QED BY <5>2, <4>2
      <4> QED BY <4>3, <4>4
    <3> HIDE DEF Right
    <3> QED BY <3>2, <3>4, <2>3
  <2> QED BY <2>7, <2>8
<1>2. Reaches(most)
  <2> HIDE DEF Reaches
  <2> QED BY <1>1
<1> QED BY <1>2 DEF Recursive

(* The way down to an element, from the way down to its parent.              *)
Numbered(doc, e) ==
  Cardinality({c \in Children(doc, doc.parent[e]) : doc.tag[c] = doc.tag[e] /\ c <= e})
Down(doc, path, e) ==
  CASE doc.parent[e] # None -> Append(path[doc.parent[e]], <<doc.tag[e], Numbered(doc, e)>>)
    [] doc.parent[e] = None /\ Shadowed(doc, e) -> <<>>
    [] OTHER -> << <<doc.tag[e], 1>> >>
WaysIn(doc) == Seq({doc.tag[e] : e \in doc.els} \X Nat)

LEMMA NumberedIsOne ==
  ASSUME NEW doc, DocumentOK(doc), NEW e \in doc.els
  PROVE  Numbered(doc, e) \in Nat
<1> DEFINE before == {c \in Children(doc, doc.parent[e]) : doc.tag[c] = doc.tag[e] /\ c <= e}
<1>1. before \in SUBSET doc.els BY DEF Children
<1>2. IsFiniteSet(doc.els) BY DEF DocumentOK
<1> HIDE DEF before
<1>3. Cardinality(before) \in Nat BY <1>1, <1>2, FS_Subset, FS_CardinalityType
<1> QED BY <1>3 DEF Numbered, before

LEMMA DownFromParent ==
  ASSUME NEW doc, NEW path, NEW e
  PROVE  /\ doc.parent[e] # None =>
              Down(doc, path, e) = Append(path[doc.parent[e]], <<doc.tag[e], Numbered(doc, e)>>)
         /\ doc.parent[e] = None /\ Shadowed(doc, e) => Down(doc, path, e) = <<>>
         /\ doc.parent[e] = None /\ ~Shadowed(doc, e) =>
              Down(doc, path, e) = << <<doc.tag[e], 1>> >>
BY DEF Down

(* There is a way down to every element.                                     *)
LEMMA PathsFollow ==
  ASSUME NEW doc, DocumentOK(doc)
  PROVE  \A e \in doc.els :
           /\ PathTo(doc, e) \in WaysIn(doc)
           /\ doc.parent[e] # None =>
                PathTo(doc, e) = Append(PathTo(doc, doc.parent[e]),
                                        <<doc.tag[e], Numbered(doc, e)>>)
           /\ doc.parent[e] = None /\ ~Shadowed(doc, e) =>
                PathTo(doc, e) = << <<doc.tag[e], 1>> >>
<1> DEFINE S == doc.els
           V == WaysIn(doc)
           base == [e \in S |-> IF Shadowed(doc, e) THEN <<>> ELSE << <<doc.tag[e], 1>> >>]
           step == [p \in S \X V |-> Append(p[2], <<doc.tag[p[1]], Numbered(doc, p[1])>>)]
           above == doc.parent
           h == CHOOSE path : path = [e \in S |-> Down(doc, path, e)]
<1>1. /\ \A e \in S : e \in Nat
      /\ \A e \in S : above[e] = None \/ (above[e] \in S /\ above[e] < e)
      /\ IsFiniteSet(S)
  BY DEF DocumentOK
<1>2. PICK most : most \in Nat /\ Below(S, most)
  <2>1. CASE S = {} BY <2>1 DEF Below
  <2>2. CASE S # {}
    <3> HIDE DEF S
    <3>1. Max(S) \in S /\ \A y \in S : y <= Max(S) BY <2>2, <1>1, MaxIsOne
    <3>2. Max(S) + 1 \in Nat /\ \A y \in S : y \in Nat /\ y < Max(S) + 1 BY <3>1, <1>1
    <3> QED BY <3>2 DEF Below
  <2> QED BY <2>1, <2>2
<1>3. base \in [S -> V]
  <2>1. \A e \in S : <<>> \in V /\ << <<doc.tag[e], 1>> >> \in V BY DEF WaysIn
  <2> QED BY <2>1
<1>4. step \in [S \X V -> V]
  <2>1. ASSUME NEW e \in S, NEW way \in V
        PROVE  Append(way, <<doc.tag[e], Numbered(doc, e)>>) \in V
    <3>1. <<doc.tag[e], Numbered(doc, e)>> \in {doc.tag[x] : x \in S} \X Nat
      BY NumberedIsOne
    <3> QED BY <3>1 DEF WaysIn
  <2> HIDE DEF V
  <2> QED BY <2>1
<1>5. PICK f \in [S -> V] : Recursive(S, base, step, above, None, f)
  <2>1. Stays(S, V, base, step) BY <1>3, <1>4 DEF Stays
  <2>2. Descends(S, above, None) BY <1>1 DEF Descends
  <2> HIDE DEF S, V, base, step, above
  <2> QED BY <1>2, <2>1, <2>2, RecursionGives
<1>6. ASSUME NEW e \in S PROVE f[e] = Down(doc, f, e)
  <2>1. CASE above[e] = None
    <3>1. f[e] = base[e] BY <2>1, <1>5 DEF Recursive
    <3> QED BY <3>1, <2>1, DownFromParent
  <2>2. CASE above[e] # None
    <3>1. <<e, f[above[e]]>> \in S \X V BY <1>1, <2>2
    <3>2. f[e] = step[<<e, f[above[e]]>>] BY <1>5, <2>2 DEF Recursive
    <3>3. f[e] = Append(f[above[e]], <<doc.tag[e], Numbered(doc, e)>>) BY <3>1, <3>2
    <3> QED BY <3>3, <2>2, DownFromParent
  <2> QED BY <2>1, <2>2
<1>7. f = [e \in S |-> Down(doc, f, e)] BY <1>6
<1>8. h = [e \in S |-> Down(doc, h, e)] BY <1>7
<1>9. \A e \in S : PathTo(doc, e) = h[e] BY DEF PathTo, Down, Numbered
<1>10. \A e \in S : h[e] = Down(doc, h, e)
  <2> HIDE DEF h
  <2> QED BY <1>8
<1> HIDE DEF h
<1>11. \A e \in S : h[e] \in V
  <2> DEFINE Bad == {e \in S : h[e] \notin V}
  <2>1. ASSUME Bad # {} PROVE FALSE
    <3>1. Bad \in SUBSET Nat BY <1>1
    <3>2. PICK m \in Bad : \A n \in Bad : m <= n
      <4> HIDE DEF Bad
      <4> QED BY <2>1, <3>1, LeastNumber
    <3>3. m \in S /\ h[m] \notin V OBVIOUS
    <3>4. CASE above[m] = None
      <4>1. h[m] = base[m] BY <1>10, <3>3, <3>4, DownFromParent
      <4> HIDE DEF base
      <4> QED BY <4>1, <3>3, <1>3
    <3>5. CASE above[m] # None
      <4>1. above[m] \in S /\ above[m] < m /\ m \in Nat /\ above[m] \in Nat BY <1>1, <3>3, <3>5
      <4>2. h[above[m]] \in V BY <4>1, <3>2
      <4>3. <<m, h[above[m]]>> \in S \X V BY <4>2, <3>3
      <4>4. h[m] = step[<<m, h[above[m]]>>]
        <5>1. h[m] = Append(h[above[m]], <<doc.tag[m], Numbered(doc, m)>>)
          BY <1>10, <3>3, <3>5, DownFromParent
        <5> QED BY <5>1, <4>3
      <4> HIDE DEF step
      <4> QED BY <4>3, <4>4, <1>4, <3>3
    <3> QED BY <3>4, <3>5
  <2> QED BY <2>1
<1> QED
  <2> TAKE e \in S
  <2>1. PathTo(doc, e) = h[e] /\ h[e] = Down(doc, h, e) /\ h[e] \in V BY <1>9, <1>10, <1>11
  <2>2. above[e] # None => above[e] \in S /\ PathTo(doc, above[e]) = h[above[e]] BY <1>1, <1>9
  <2> QED BY <2>1, <2>2, DownFromParent

(* Siblings of a tag are numbered apart.                                     *)
LEMMA NumberedApart ==
  ASSUME NEW doc, DocumentOK(doc), NEW a \in doc.els, NEW b \in doc.els,
         doc.parent[a] = doc.parent[b], doc.tag[a] = doc.tag[b], a < b
  PROVE  Numbered(doc, a) # Numbered(doc, b)
<1> DEFINE upto(e) == {c \in Children(doc, doc.parent[e]) : doc.tag[c] = doc.tag[e] /\ c <= e}
<1>1. IsFiniteSet(doc.els) /\ \A e \in doc.els : e \in Nat BY DEF DocumentOK
<1>2. \A c \in Children(doc, doc.parent[b]) : c \in doc.els BY DEF Children
<1>3. upto(a) \in SUBSET upto(b)
  <2>1. \A c \in doc.els : c <= a => c <= b BY <1>1
  <2> QED BY <2>1, <1>2
<1>4. b \in upto(b) /\ b \notin upto(a) BY <1>1 DEF Children
<1>5. IsFiniteSet(upto(b))
  <2>1. upto(b) \in SUBSET doc.els BY <1>2
  <2> HIDE DEF upto
  <2> QED BY <2>1, <1>1, FS_Subset
<1>6. Cardinality(upto(a)) # Cardinality(upto(b))
  <2> HIDE DEF upto
  <2> QED BY <1>3, <1>4, <1>5, FS_Subset
<1> QED BY <1>6 DEF Numbered

LEMMA LastStep ==
  ASSUME NEW V, NEW p \in Seq(V), NEW q \in Seq(V), NEW x \in V, NEW y \in V,
         Append(p, x) = Append(q, y)
  PROVE  p = q /\ x = y
<1>1. Len(Append(p, x)) = Len(p) + 1 /\ Len(Append(q, y)) = Len(q) + 1 OBVIOUS
<1>2. Len(p) = Len(q) BY <1>1
<1>3. \A i \in 1..Len(p) : Append(p, x)[i] = p[i] /\ Append(q, y)[i] = q[i] BY <1>2
<1>4. Append(p, x)[Len(p) + 1] = x /\ Append(q, y)[Len(q) + 1] = y OBVIOUS
<1>5. \A i \in 1..Len(p) : p[i] = q[i] BY <1>3
<1>6. p = q BY <1>2, <1>5
<1> QED BY <1>6, <1>4, <1>2

(* No two elements of the document have the same way down.                   *)
LEMMA PathsApart ==
  ASSUME NEW doc, DocumentOK(doc)
  PROVE  \A a, b \in Light(doc) : PathTo(doc, a) = PathTo(doc, b) => a = b
<1> DEFINE Bad == {a \in Light(doc) : \E b \in Light(doc) :
                     PathTo(doc, a) = PathTo(doc, b) /\ a # b}
           V == {doc.tag[e] : e \in doc.els} \X Nat
<1>1. \A e \in doc.els : e \in Nat BY DEF DocumentOK
<1>2. ASSUME Bad # {} PROVE FALSE
  <2>1. Bad \in SUBSET Nat BY <1>1 DEF Light
  <2>2. PICK a \in Bad : \A n \in Bad : a <= n
    <3> HIDE DEF Bad
    <3> QED BY <1>2, <2>1, LeastNumber
  <2>3. PICK b \in Light(doc) : PathTo(doc, a) = PathTo(doc, b) /\ a # b OBVIOUS
  <2>4. a \in Light(doc) /\ a \in doc.els /\ b \in doc.els BY DEF Light
  <2>5. ASSUME NEW e \in Light(doc), doc.parent[e] # None
        PROVE  /\ doc.parent[e] \in Light(doc) /\ doc.parent[e] < e
               /\ PathTo(doc, e) = Append(PathTo(doc, doc.parent[e]),
                                          <<doc.tag[e], Numbered(doc, e)>>)
               /\ PathTo(doc, doc.parent[e]) \in Seq(V)
               /\ <<doc.tag[e], Numbered(doc, e)>> \in V
               /\ Len(PathTo(doc, e)) = Len(PathTo(doc, doc.parent[e])) + 1
    <3>1. e \in doc.els /\ ~Shadowed(doc, e) BY DEF Light
    <3>2. /\ doc.parent[e] \in doc.els /\ doc.parent[e] < e
          /\ doc.host[doc.parent[e]] = doc.host[e]
      BY <3>1, <2>5 DEF DocumentOK
    <3>3. doc.parent[e] \in Light(doc) BY <3>1, <3>2 DEF Light, Shadowed
    <3>4. PathTo(doc, e) = Append(PathTo(doc, doc.parent[e]),
                                  <<doc.tag[e], Numbered(doc, e)>>)
      BY <2>5, <3>1, PathsFollow
    <3>5. PathTo(doc, doc.parent[e]) \in Seq(V) BY <3>2, PathsFollow DEF WaysIn
    <3>6. <<doc.tag[e], Numbered(doc, e)>> \in V BY <3>1, NumberedIsOne
    <3> HIDE DEF V
    <3>7. Len(PathTo(doc, e)) = Len(PathTo(doc, doc.parent[e])) + 1 BY <3>4, <3>5, <3>6
    <3> QED BY <3>2, <3>3, <3>4, <3>5, <3>6, <3>7
  <2>6. ASSUME NEW e \in Light(doc)
        PROVE  /\ doc.parent[e] = None => Len(PathTo(doc, e)) = 1
               /\ Len(PathTo(doc, e)) \in Nat \ {0}
    <3>1. e \in doc.els /\ ~Shadowed(doc, e) BY DEF Light
    <3>2. CASE doc.parent[e] = None
      <4>1. PathTo(doc, e) = << <<doc.tag[e], 1>> >> BY <3>1, <3>2, PathsFollow
      <4> QED BY <4>1
    <3>3. CASE doc.parent[e] # None
      <4> HIDE DEF V
      <4>1. /\ Len(PathTo(doc, e)) = Len(PathTo(doc, doc.parent[e])) + 1
            /\ PathTo(doc, doc.parent[e]) \in Seq(V)
        BY <3>3, <2>5
      <4>2. Len(PathTo(doc, doc.parent[e])) \in Nat BY <4>1
      <4> QED BY <4>1, <4>2, <3>3
    <3> QED BY <3>2, <3>3
  <2>7. CASE doc.parent[a] = None /\ doc.parent[b] = None
    BY <2>3, <2>4, <2>7 DEF DocumentOK
  <2>8. CASE doc.parent[a] # None /\ doc.parent[b] # None
    <3> DEFINE p == doc.parent[a]
               q == doc.parent[b]
    <3>0. Append(PathTo(doc, p), <<doc.tag[a], Numbered(doc, a)>>)
            = Append(PathTo(doc, q), <<doc.tag[b], Numbered(doc, b)>>)
      BY <2>3, <2>4, <2>5, <2>8
    <3>1. /\ PathTo(doc, p) = PathTo(doc, q)
          /\ <<doc.tag[a], Numbered(doc, a)>> = <<doc.tag[b], Numbered(doc, b)>>
      <4>1. /\ PathTo(doc, p) \in Seq(V) /\ PathTo(doc, q) \in Seq(V)
            /\ <<doc.tag[a], Numbered(doc, a)>> \in V
            /\ <<doc.tag[b], Numbered(doc, b)>> \in V
        BY <2>4, <2>5, <2>8
      <4> HIDE DEF V, p, q
      <4> QED BY <4>1, <3>0, LastStep
    <3>2. p \in Light(doc) /\ q \in Light(doc) /\ p < a BY <2>4, <2>5, <2>8
    <3>3. p = q
      <4>1. p \in Bad => a <= p BY <2>2
      <4>2. a \in Nat /\ p \in Nat BY <1>1, <2>4, <3>2 DEF Light
      <4>3. p \notin Bad BY <4>1, <4>2, <3>2
      <4> HIDE DEF p, q
      <4> QED BY <4>3, <3>1, <3>2
    <3>4. doc.tag[a] = doc.tag[b] /\ Numbered(doc, a) = Numbered(doc, b) BY <3>1
    <3>5. a < b \/ b < a BY <1>1, <2>3, <2>4
    <3> QED BY <2>4, <3>3, <3>4, <3>5, NumberedApart
  <2>9. CASE ~(doc.parent[a] = None <=> doc.parent[b] = None)
    <3>1. Len(PathTo(doc, a)) = Len(PathTo(doc, b)) BY <2>3
    <3>2. CASE doc.parent[a] = None
      <4>1. doc.parent[b] # None BY <2>9, <3>2
      <4>2. Len(PathTo(doc, b)) = Len(PathTo(doc, doc.parent[b])) + 1
        BY <4>1, <2>5
      <4>3. Len(PathTo(doc, doc.parent[b])) \in Nat \ {0} BY <4>1, <2>5, <2>6
      <4>4. Len(PathTo(doc, a)) = 1 BY <3>2, <2>4, <2>6
      <4>5. \A n \in Nat \ {0} : n + 1 # 1 OBVIOUS
      <4> QED BY <4>2, <4>3, <4>4, <4>5, <3>1, Zenon
    <3>3. CASE doc.parent[b] = None
      <4>1. doc.parent[a] # None BY <2>9, <3>3
      <4>2. Len(PathTo(doc, a)) = Len(PathTo(doc, doc.parent[a])) + 1
        BY <4>1, <2>4, <2>5
      <4>3. Len(PathTo(doc, doc.parent[a])) \in Nat \ {0} BY <4>1, <2>4, <2>5, <2>6
      <4>4. Len(PathTo(doc, b)) = 1 BY <3>3, <2>6
      <4>5. \A n \in Nat \ {0} : n + 1 # 1 OBVIOUS
      <4> QED BY <4>2, <4>3, <4>4, <4>5, <3>1, Zenon
    <3> QED BY <2>9, <3>2, <3>3
  <2> QED BY <2>7, <2>8, <2>9
<1> QED BY <1>2

(* None is no role a tag stands for, and no function: no record, no sequence.*)
ImpliedRoles ==
  {"button", "checkbox", "combobox", "generic", "heading", "link", "option", "radio",
   "slider", "spinbutton", "textbox"}
NoneIsNothing == None \notin ImpliedRoles /\ None # [x \in DOMAIN None |-> None[x]]

LEMMA RecordsAreSome ==
  ASSUME NoneIsNothing
  PROVE  /\ \A a, b, c, d : [tag |-> a, attrs |-> b, beside |-> c, path |-> d] # None
         /\ \A a, b, c, d, e, f, g, h :
              [tag |-> a, key |-> b, role |-> c, name |-> d, path |-> e, row |-> f,
               frames |-> g, dup |-> h] # None
         /\ \A S, s : s \in Seq(S) => s # None
<1>1. ASSUME NEW a, NEW b, NEW c, NEW d
      PROVE  [tag |-> a, attrs |-> b, beside |-> c, path |-> d] # None
  <2> DEFINE r == [tag |-> a, attrs |-> b, beside |-> c, path |-> d]
  <2>1. r = [x \in DOMAIN r |-> r[x]] OBVIOUS
  <2> HIDE DEF r
  <2> QED BY <2>1 DEF NoneIsNothing
<1>2. ASSUME NEW a, NEW b, NEW c, NEW d, NEW e, NEW f, NEW g, NEW h
      PROVE  [tag |-> a, key |-> b, role |-> c, name |-> d, path |-> e, row |-> f,
              frames |-> g, dup |-> h] # None
  <2> DEFINE r == [tag |-> a, key |-> b, role |-> c, name |-> d, path |-> e, row |-> f,
                   frames |-> g, dup |-> h]
  <2>1. r = [x \in DOMAIN r |-> r[x]] OBVIOUS
  <2> HIDE DEF r
  <2> QED BY <2>1 DEF NoneIsNothing
<1>3. ASSUME NEW S, NEW s, s \in Seq(S) PROVE s # None
  <2>1. s = [x \in DOMAIN s |-> s[x]] BY <1>3
  <2> QED BY <2>1 DEF NoneIsNothing
<1> QED BY <1>1, <1>2, <1>3

(* A locator by position hits, too.                                          *)
LEMMA PositionHits ==
  ASSUME NoneIsNothing, NEW doc, DocumentOK(doc), NEW el \in doc.els,
         ByPosition(doc, el) # None
  PROVE  /\ ByPosition(doc, el).strategy = "nth"
         /\ Found(doc, ByPosition(doc, el).xpath) = {el}
<1> DEFINE path == [XPath("*", {}) EXCEPT !.path = PathTo(doc, el)]
           locator == ByPosition(doc, el)
<1>1. ~Shadowed(doc, el) /\ locator = [Locator("nth") EXCEPT !.xpath = path]
  BY DEF ByPosition
<1>2. locator.strategy = "nth" /\ locator.xpath = path BY <1>1 DEF Locator
<1>3. /\ path.tag = "*" /\ path.attrs = {} /\ path.beside = None
      /\ path.path = PathTo(doc, el)
  BY DEF XPath
<1>4. el \in Light(doc) BY <1>1 DEF Light
<1>5. PathTo(doc, el) # None BY PathsFollow, RecordsAreSome DEF WaysIn
<1> HIDE DEF path
<1>6. \A x : x \in Found(doc, path) <=>
               x \in Light(doc) /\ PathTo(doc, x) = PathTo(doc, el)
  BY <1>3, <1>5 DEF Found
<1>7. Found(doc, path) = {el} BY <1>4, <1>6, PathsApart
<1> QED BY <1>2, <1>7

LEMMA DerivedHits ==
  ASSUME NoneIsNothing, NEW doc, DocumentOK(doc), NEW el \in doc.els, NEW container, NEW unique,
         NEW row, row.target = el, row.locator = Derive(doc, el, container, unique)
  PROVE  HitsTarget(doc, row)
<1>1. CASE row.locator # None => row.locator.strategy # "nth"
  BY <1>1, UniqueLocatorsHit
<1>2. CASE row.locator # None /\ row.locator.strategy = "nth"
  <2> DEFINE locator == row.locator
             attrs == {"type", "name", "placeholder"}
  <2>1. locator = ByPosition(doc, el)
    <3>1. /\ ByOtherTestid(doc, el) # None => ByOtherTestid(doc, el).strategy # "nth"
          /\ ById(doc, el) # None => ById(doc, el).strategy # "nth"
          /\ ByAttributes(doc, el, attrs) # None => ByAttributes(doc, el, attrs).strategy # "nth"
          /\ BySibling(doc, el) # None => BySibling(doc, el).strategy # "nth"
      BY AttributeTiersHit, SiblingTierHits
    <3>2. ByTestid(doc, el) # None => ByTestid(doc, el).strategy # "nth"
      BY DEF ByTestid, Locator
    <3>3. /\ ByRoleAndName(doc, el, unique) # None =>
               ByRoleAndName(doc, el, unique).strategy # "nth"
          /\ ByRole(doc, el) # None => ByRole(doc, el).strategy # "nth"
          /\ ByNameSource(doc, el) # None => ByNameSource(doc, el).strategy # "nth"
          /\ InContainer(doc, el, container) # None =>
               InContainer(doc, el, container).strategy # "nth"
      BY OtherTiers
    <3>4. locator \in { ByTestid(doc, el), ByOtherTestid(doc, el), ById(doc, el),
                        ByRoleAndName(doc, el, unique), ByRole(doc, el),
                        ByNameSource(doc, el), ByAttributes(doc, el, attrs),
                        InContainer(doc, el, container), BySibling(doc, el),
                        ByPosition(doc, el) }
      BY <1>2, DeriveIsATier
    <3> HIDE DEF locator, attrs
    <3>5. locator # None /\ locator.strategy = "nth" BY <1>2 DEF locator
    <3> QED BY <3>1, <3>2, <3>3, <3>4, <3>5
  <2>2. Found(doc, locator.xpath) = {el} BY <1>2, <2>1, PositionHits
  <2>3. locator.strategy # "testid" BY <1>2
  <2> QED BY <2>2, <2>3 DEF HitsTarget, WorkerFinds
<1> QED BY <1>1, <1>2

(* A locator as a record that can be written.                                *)
Shaped(l) ==
  l = [strategy |-> l.strategy, attr |-> l.attr, value |-> l.value, xpath |-> l.xpath,
       role |-> l.role, name |-> l.name, container |-> l.container, frames |-> l.frames]
Written(l) == Shaped(l) /\ l.frames = <<>> /\ Renders(l)

LEMMA XPathsAreSome ==
  ASSUME NoneIsNothing
  PROVE  /\ \A tag, attrs : XPath(tag, attrs) # None
         /\ \A tag, attrs, x : [XPath(tag, attrs) EXCEPT !.beside = x] # None
         /\ \A tag, attrs, x : [XPath(tag, attrs) EXCEPT !.path = x] # None
<1>1. \A tag, attrs : XPath(tag, attrs) # None BY RecordsAreSome DEF XPath
<1>2. ASSUME NEW tag, NEW attrs, NEW x
      PROVE  /\ [XPath(tag, attrs) EXCEPT !.beside = x] # None
             /\ [XPath(tag, attrs) EXCEPT !.path = x] # None
  <2>1. /\ [XPath(tag, attrs) EXCEPT !.beside = x] =
             [tag |-> tag, attrs |-> attrs, beside |-> x, path |-> None]
        /\ [XPath(tag, attrs) EXCEPT !.path = x] =
             [tag |-> tag, attrs |-> attrs, beside |-> None, path |-> x]
    BY DEF XPath
  <2> QED BY <2>1, RecordsAreSome
<1> QED BY <1>1, <1>2

LEMMA OnXPathWritten ==
  ASSUME NoneIsNothing, NEW doc, NEW el, NEW strategy \in XPathTiers, NEW xpath, xpath # None,
         OnXPath(doc, el, strategy, xpath) # None
  PROVE  Written(OnXPath(doc, el, strategy, xpath))
<1> DEFINE l == OnXPath(doc, el, strategy, xpath)
<1>1. l = [strategy |-> strategy, attr |-> None, value |-> None, xpath |-> xpath,
           role |-> None, name |-> None, container |-> None, frames |-> <<>>]
  BY DEF OnXPath, Locator
<1> HIDE DEF l
<1>2. /\ l.strategy = strategy /\ l.xpath = xpath /\ l.frames = <<>> /\ Shaped(l)
  BY <1>1 DEF Shaped
<1>3. strategy \notin ValueTiers /\ strategy \notin RoleTiers
  BY DEF XPathTiers, ValueTiers, RoleTiers
<1>4. DOMAIN l.frames = {} BY <1>2
<1>5. Written(l) BY <1>2, <1>3, <1>4 DEF Written, Renders
<1> QED BY <1>5 DEF l

LEMMA RolesAreSome ==
  ASSUME NoneIsNothing, NEW doc, NEW el
  PROVE  RoleOf(doc, el) # None
<1> DEFINE tag == doc.tag[el]
           type == At(doc, el, "type")
<1>1. CASE At(doc, el, "role") # None BY <1>1 DEF RoleOf
<1>2. CASE At(doc, el, "role") = None /\ tag = "input"
  <2>1. RoleOf(doc, el) = IF type \in DOMAIN InputRole THEN InputRole[type] ELSE "textbox"
    BY <1>2 DEF RoleOf
  <2>2. \A t \in DOMAIN InputRole : InputRole[t] \in ImpliedRoles
    BY DEF InputRole, ImpliedRoles
  <2>3. "textbox" \in ImpliedRoles BY DEF ImpliedRoles
  <2> HIDE DEF type
  <2> QED BY <2>1, <2>2, <2>3 DEF NoneIsNothing
<1>3. CASE At(doc, el, "role") = None /\ tag = "a"
  <2>1. RoleOf(doc, el) \in {"link", "generic"} BY <1>3 DEF RoleOf
  <2> QED BY <2>1 DEF NoneIsNothing, ImpliedRoles
<1>4. CASE At(doc, el, "role") = None /\ tag # "input" /\ tag # "a"
  <2>1. RoleOf(doc, el) = IF tag \in DOMAIN TagRole THEN TagRole[tag] ELSE "generic"
    BY <1>4 DEF RoleOf
  <2>2. \A t \in DOMAIN TagRole : TagRole[t] \in ImpliedRoles
    BY DEF TagRole, ImpliedRoles
  <2>3. "generic" \in ImpliedRoles BY DEF ImpliedRoles
  <2> HIDE DEF tag
  <2> QED BY <2>1, <2>2, <2>3 DEF NoneIsNothing
<1> QED BY <1>1, <1>2, <1>3, <1>4

LEMMA TestidsAreSome ==
  ASSUME NEW doc, NEW el, Testid(doc, el) # None
  PROVE  Testid(doc, el).value # None
<1> DEFINE had == {i \in DOMAIN Candidates : At(doc, el, Candidates[i]) # None}
           attr == Candidates[Min(had)]
<1>1. had # {} /\ Testid(doc, el) = [attr |-> attr, value |-> At(doc, el, attr)]
  BY DEF Testid
<1>2. had \in SUBSET Nat BY CaptureAssumption
<1>3. Min(had) \in had
  <2> HIDE DEF had
  <2>1. \E x \in had : \A y \in had : x <= y BY <1>1, <1>2, LeastNumber
  <2> QED BY <2>1 DEF Min
<1>4. At(doc, el, attr) # None BY <1>3
<1> QED BY <1>1, <1>4

LEMMA TiersWritten ==
  ASSUME NoneIsNothing, NEW doc, NEW el, NEW container, NEW unique
  PROVE  /\ ByTestid(doc, el) # None => Written(ByTestid(doc, el))
         /\ ByRoleAndName(doc, el, unique) # None => Written(ByRoleAndName(doc, el, unique))
         /\ ByRole(doc, el) # None => Written(ByRole(doc, el))
         /\ ByNameSource(doc, el) # None => Written(ByNameSource(doc, el))
         /\ InContainer(doc, el, container) # None => Written(InContainer(doc, el, container))
<1>1. ASSUME NEW strategy \in ValueTiers, NEW attr, NEW value, value # None
      PROVE  Written([strategy |-> strategy, attr |-> attr, value |-> value, xpath |-> None,
                      role |-> None, name |-> None, container |-> None, frames |-> <<>>])
  <2> DEFINE l == [strategy |-> strategy, attr |-> attr, value |-> value, xpath |-> None,
                   role |-> None, name |-> None, container |-> None, frames |-> <<>>]
  <2>1. l.strategy = strategy /\ l.value = value /\ l.frames = <<>> /\ Shaped(l) BY DEF Shaped
  <2>2. strategy \notin RoleTiers /\ strategy \notin XPathTiers
    BY DEF XPathTiers, ValueTiers, RoleTiers
  <2> HIDE DEF l
  <2>3. Written(l) BY <1>1, <2>1, <2>2 DEF Written, Renders
  <2> QED BY <2>3 DEF l
<1>2. ASSUME NEW strategy \in RoleTiers, NEW role, role # None, NEW name, NEW around,
             strategy = "scoped" => around # None
      PROVE  Written([strategy |-> strategy, attr |-> None, value |-> None, xpath |-> None,
                      role |-> role, name |-> name, container |-> around, frames |-> <<>>])
  <2> DEFINE l == [strategy |-> strategy, attr |-> None, value |-> None, xpath |-> None,
                   role |-> role, name |-> name, container |-> around, frames |-> <<>>]
  <2>1. /\ l.strategy = strategy /\ l.role = role /\ l.container = around
        /\ l.frames = <<>> /\ Shaped(l)
    BY DEF Shaped
  <2>2. strategy \notin ValueTiers /\ strategy \notin XPathTiers
    BY DEF XPathTiers, ValueTiers, RoleTiers
  <2> HIDE DEF l
  <2>3. RoleChain(l) # <<>>
    <3>1. CASE strategy = "role_name" BY <3>1, <2>1, <1>2 DEF RoleChain
    <3>2. CASE strategy = "scoped" BY <3>2, <2>1, <1>2 DEF RoleChain
    <3> QED BY <3>1, <3>2 DEF RoleTiers
  <2>4. Written(l) BY <2>1, <2>2, <2>3 DEF Written, Renders
  <2> QED BY <2>4 DEF l
<1>3. ASSUME ByTestid(doc, el) # None PROVE Written(ByTestid(doc, el))
  <2> DEFINE id == Testid(doc, el)
  <2>1. /\ id # None
        /\ ByTestid(doc, el) = [strategy |-> "testid", attr |-> id.attr, value |-> id.value,
              xpath |-> None, role |-> None, name |-> None, container |-> None, frames |-> <<>>]
    BY <1>3 DEF ByTestid, Locator
  <2>2. id.value # None BY <2>1, TestidsAreSome
  <2> QED BY <2>1, <2>2, <1>1 DEF ValueTiers
<1>4. ASSUME ByRoleAndName(doc, el, unique) # None PROVE Written(ByRoleAndName(doc, el, unique))
  <2>1. ByRoleAndName(doc, el, unique) =
          [strategy |-> "role_name", attr |-> None, value |-> None, xpath |-> None,
           role |-> RoleOf(doc, el), name |-> LocatorName(doc, el), container |-> None,
           frames |-> <<>>]
    BY <1>4 DEF ByRoleAndName, Locator
  <2> QED BY <2>1, <1>2, RolesAreSome DEF RoleTiers
<1>5. ASSUME ByRole(doc, el) # None PROVE Written(ByRole(doc, el))
  <2>1. /\ At(doc, el, "role") # None
        /\ ByRole(doc, el) =
             [strategy |-> "role_name", attr |-> None, value |-> None, xpath |-> None,
              role |-> At(doc, el, "role"), name |-> None, container |-> None, frames |-> <<>>]
    BY <1>5 DEF ByRole, Locator
  <2> QED BY <2>1, <1>2 DEF RoleTiers
<1>6. ASSUME InContainer(doc, el, container) # None PROVE Written(InContainer(doc, el, container))
  <2>1. /\ container # None
        /\ InContainer(doc, el, container) =
             [strategy |-> "scoped", attr |-> None, value |-> None, xpath |-> None,
              role |-> RoleOf(doc, el), name |-> LocatorName(doc, el), container |-> container,
              frames |-> <<>>]
    BY <1>6 DEF InContainer, Locator
  <2> QED BY <2>1, <1>2, RolesAreSome DEF RoleTiers
<1>7. ASSUME ByNameSource(doc, el) # None PROVE Written(ByNameSource(doc, el))
  <2> DEFINE From(strategy, value) ==
               IF value = None THEN None ELSE [Locator(strategy) EXCEPT !.value = value]
             sources == << From("placeholder", At(doc, el, "placeholder")),
                           From("label", At(doc, el, "aria-label")),
                           From("text", NameFrom(doc, el, doc.raw)) >>
  <2>1. ASSUME NEW strategy \in ValueTiers, NEW value, From(strategy, value) # None
        PROVE  Written(From(strategy, value))
    <3>1. /\ value # None
          /\ From(strategy, value) =
               [strategy |-> strategy, attr |-> None, value |-> value, xpath |-> None,
                role |-> None, name |-> None, container |-> None, frames |-> <<>>]
      BY <2>1 DEF Locator
    <3> HIDE DEF From
    <3> QED BY <3>1, <1>1
  <2>2. ByNameSource(doc, el) = FirstPresent(sources) BY <1>7 DEF ByNameSource
  <2>3. DOMAIN sources = 1..3 /\ DOMAIN sources \subseteq Nat OBVIOUS
  <2>4. PICK k \in 1..3 : ByNameSource(doc, el) = sources[k]
    <3> HIDE DEF sources
    <3> QED BY <1>7, <2>2, <2>3, FirstPresentIsOne
  <2>5. \A n \in 1..3 : \E strategy \in ValueTiers : \E value : sources[n] = From(strategy, value)
    <3>1. {"placeholder", "label", "text"} \subseteq ValueTiers BY DEF ValueTiers
    <3> HIDE DEF From
    <3> QED BY <3>1
  <2> HIDE DEF From, sources
  <2> QED BY <1>7, <2>1, <2>4, <2>5
<1> QED BY <1>3, <1>4, <1>5, <1>6, <1>7

(* Whatever a capture derives can be written.                                *)
LEMMA DerivedIsWritten ==
  ASSUME NoneIsNothing, NEW doc, NEW el, NEW container, NEW unique,
         Derive(doc, el, container, unique) # None
  PROVE  Written(Derive(doc, el, container, unique))
<1> DEFINE attrs == {"type", "name", "placeholder"}
           l == Derive(doc, el, container, unique)
<1>1. {"testid_xpath", "dom_id", "attr_combo", "sibling_text", "nth"} = XPathTiers
  BY DEF XPathTiers
<1>2. ByOtherTestid(doc, el) # None => Written(ByOtherTestid(doc, el))
  <2> DEFINE id == Testid(doc, el)
             path == XPath("*", {<<id.attr, id.value>>})
  <2>1. ByOtherTestid(doc, el) # None =>
          ByOtherTestid(doc, el) = OnXPath(doc, el, "testid_xpath", path)
    BY DEF ByOtherTestid
  <2>2. path # None BY XPathsAreSome
  <2> HIDE DEF path
  <2> QED BY <2>1, <2>2, <1>1, OnXPathWritten
<1>3. ById(doc, el) # None => Written(ById(doc, el))
  <2> DEFINE path == XPath("*", {<<"id", At(doc, el, "id")>>})
  <2>1. ById(doc, el) # None => ById(doc, el) = OnXPath(doc, el, "dom_id", path)
    BY DEF ById
  <2>2. path # None BY XPathsAreSome
  <2> HIDE DEF path
  <2> QED BY <2>1, <2>2, <1>1, OnXPathWritten
<1>4. ByAttributes(doc, el, attrs) # None => Written(ByAttributes(doc, el, attrs))
  <2> DEFINE path == XPath(doc.tag[el], AttrPairs(doc, el, attrs))
  <2>1. ByAttributes(doc, el, attrs) # None =>
          ByAttributes(doc, el, attrs) = OnXPath(doc, el, "attr_combo", path)
    BY DEF ByAttributes
  <2>2. path # None BY XPathsAreSome
  <2> HIDE DEF path
  <2> QED BY <2>1, <2>2, <1>1, OnXPathWritten
<1>5. BySibling(doc, el) # None => Written(BySibling(doc, el))
  <2> DEFINE labels == {s \in Beside(doc, el) :
                          ~Interactive(doc, s) /\ doc.words[s] # None}
             label == CHOOSE s \in labels : TRUE
             path == [XPath(doc.tag[el], {}) EXCEPT !.beside = doc.words[label]]
  <2>1. BySibling(doc, el) # None =>
          BySibling(doc, el) = OnXPath(doc, el, "sibling_text", path)
    BY DEF BySibling
  <2>2. path # None
    <3> HIDE DEF label
    <3> QED BY XPathsAreSome
  <2> HIDE DEF path
  <2> QED BY <2>1, <2>2, <1>1, OnXPathWritten
<1>6. ByPosition(doc, el) # None => Written(ByPosition(doc, el))
  <2> DEFINE path == [XPath("*", {}) EXCEPT !.path = PathTo(doc, el)]
             p == ByPosition(doc, el)
  <2>1. p # None =>
          p = [strategy |-> "nth", attr |-> None, value |-> None, xpath |-> path, role |-> None,
               name |-> None, container |-> None, frames |-> <<>>]
    BY DEF ByPosition, Locator
  <2>2. path # None BY XPathsAreSome
  <2>3. "nth" \notin ValueTiers /\ "nth" \notin RoleTiers BY DEF ValueTiers, RoleTiers
  <2> HIDE DEF path, p
  <2>4. p # None => /\ p.strategy = "nth" /\ p.xpath = path /\ p.frames = <<>> /\ Shaped(p)
    BY <2>1 DEF Shaped
  <2>5. p # None => Written(p) BY <2>2, <2>3, <2>4 DEF Written, Renders
  <2> QED BY <2>5 DEF p
<1>7. l \in { ByTestid(doc, el), ByOtherTestid(doc, el), ById(doc, el),
              ByRoleAndName(doc, el, unique), ByRole(doc, el),
              ByNameSource(doc, el), ByAttributes(doc, el, attrs),
              InContainer(doc, el, container), BySibling(doc, el),
              ByPosition(doc, el) }
  BY DeriveIsATier
<1> HIDE DEF l, attrs
<1>8. l # None BY DEF l
<1>9. Written(l) BY <1>2, <1>3, <1>4, <1>5, <1>6, <1>7, <1>8, TiersWritten
<1> QED BY <1>9 DEF l

(* A ref as a digest that is not numbered.                                   *)
DigestLike(ref) ==
  ref = [tag |-> ref.tag, key |-> ref.key, role |-> ref.role, name |-> ref.name,
         path |-> ref.path, row |-> ref.row, frames |-> ref.frames, dup |-> 1]

LEMMA RefsAreDigests ==
  ASSUME NoneIsNothing, NEW doc, NEW el
  PROVE  DigestLike(Ref(doc, el))
<1> DEFINE plain == Digest(doc.tag[el])
           Key(key) == IF key = None THEN None ELSE [plain EXCEPT !.key = key]
           one == IF Testid(doc, el) = None THEN None ELSE Key(Testid(doc, el).value)
           two == Key(StableId(doc, el))
           three == IF ShownName(doc, el) = None THEN None
                    ELSE [plain EXCEPT !.role = RoleOf(doc, el), !.name = ShownName(doc, el)]
           four == [plain EXCEPT !.path = PathTo(doc, el)]
           all == <<one, two, three, four>>
<1>1. Ref(doc, el) = FirstPresent(all) BY DEF Ref
<1>2. \A key : Key(key) # None => DigestLike(Key(key))
  <2> TAKE key
  <2>1. Key(key) # None => Key(key) = [tag |-> doc.tag[el], key |-> key, role |-> None,
          name |-> None, path |-> <<>>, row |-> None, frames |-> <<>>, dup |-> 1]
    BY DEF Digest
  <2> QED BY <2>1 DEF DigestLike
<1>3. three # None => DigestLike(three)
  <2>1. three # None => three = [tag |-> doc.tag[el], key |-> None, role |-> RoleOf(doc, el),
          name |-> ShownName(doc, el), path |-> <<>>, row |-> None, frames |-> <<>>, dup |-> 1]
    BY DEF Digest
  <2> HIDE DEF three
  <2> QED BY <2>1 DEF DigestLike
<1>4. four # None /\ DigestLike(four)
  <2>1. four = [tag |-> doc.tag[el], key |-> None, role |-> None, name |-> None,
                path |-> PathTo(doc, el), row |-> None, frames |-> <<>>, dup |-> 1]
    BY DEF Digest
  <2> HIDE DEF four
  <2> QED BY <2>1, RecordsAreSome DEF DigestLike
<1>5. one # None => DigestLike(one) BY <1>2
<1>6. two # None => DigestLike(two) BY <1>2
<1> HIDE DEF one, two, three, four
<1>7. /\ DOMAIN all = 1..4 /\ all[1] = one /\ all[2] = two /\ all[3] = three /\ all[4] = four
  OBVIOUS
<1> HIDE DEF all
<1>8. FirstPresent(all) # None
  <2> DEFINE present == {i \in DOMAIN all : all[i] # None}
             first == CHOOSE i \in present : \A j \in present : i <= j
  <2>1. 4 \in present BY <1>4, <1>7
  <2>2. present \in SUBSET Nat BY <1>7
  <2>3. first \in present
    <3> HIDE DEF present
    <3> QED BY <2>1, <2>2, LeastNumber
  <2>4. FirstPresent(all) = all[first] BY <2>1 DEF FirstPresent
  <2> HIDE DEF first
  <2> QED BY <2>3, <2>4
<1>9. PICK i \in 1..4 : FirstPresent(all) = all[i]
  <2>1. DOMAIN all \subseteq Nat BY <1>7
  <2> QED BY <2>1, <1>7, <1>8, FirstPresentIsOne
<1> QED BY <1>1, <1>3, <1>4, <1>5, <1>6, <1>7, <1>8, <1>9

(* The rows of a capture, before they leave the page.                        *)
RowsIn(doc) == [el : doc.els, score : Int, folded : Int]

LEMMA InOrderWithin ==
  ASSUME NEW T, IsFiniteSet(T), \A x \in T : x \in Nat, NEW S, \A x \in S : x \in T
  PROVE  InOrder(S) \in Seq(T) /\ Len(InOrder(S)) \in Nat
<1>1. IsFiniteSet(S)
  <2>1. S \in SUBSET T OBVIOUS
  <2> QED BY <2>1, FS_Subset
<1>2. \A x \in S : x \in Nat OBVIOUS
<1>3. InOrder(S) \in Seq(S) BY <1>1, <1>2, InOrderLists
<1> DEFINE s == InOrder(S)
<1>4. s \in Seq(S) BY <1>3
<1> HIDE DEF s
<1>5. s \in Seq(T) /\ Len(s) \in Nat BY <1>4
<1> QED BY <1>5 DEF s

LEMMA PlacesLess ==
  ASSUME NEW V, NEW s \in Seq(V)
  PROVE  IsFiniteSet(DOMAIN s) /\ \A i \in DOMAIN s : i \in Nat /\ s[i] \in V
<1>1. DOMAIN s = 1..Len(s) /\ Len(s) \in Nat OBVIOUS
<1>2. IsFiniteSet(1..Len(s)) BY <1>1, FS_Interval
<1> QED BY <1>1, <1>2

LEMMA ScoreIsOne ==
  ASSUME NEW doc, DocumentOK(doc), NEW el, NEW pressed
  PROVE  Score(doc, el, pressed) \in Int
<1> DEFINE over == {a \in doc.els : Encloses(doc, a, el)}
           depth == Cardinality(over)
           cost == IF 2 * depth > 10 THEN 10 ELSE 2 * depth
<1>1. depth \in Nat
  <2>1. over \in SUBSET doc.els /\ IsFiniteSet(doc.els) BY DEF DocumentOK
  <2> HIDE DEF over
  <2> QED BY <2>1, FS_Subset, FS_CardinalityType
<1> HIDE DEF depth
<1>2. cost \in Int BY <1>1
<1> HIDE DEF cost
<1>3. Score(doc, el, pressed) =
        (IF pressed THEN 50 ELSE 0) + (IF ShownName(doc, el) # None THEN 20 ELSE 0)
          + (IF el \in doc.shown THEN 20 ELSE 0)
          + (IF Testid(doc, el) # None THEN 10 ELSE 0) - cost
  BY DEF Score, cost, depth, over
<1> DEFINE a == IF pressed THEN 50 ELSE 0
           b == IF ShownName(doc, el) # None THEN 20 ELSE 0
           c == IF el \in doc.shown THEN 20 ELSE 0
           d == IF Testid(doc, el) # None THEN 10 ELSE 0
<1>4. a \in Int /\ b \in Int /\ c \in Int /\ d \in Int OBVIOUS
<1>5. Score(doc, el, pressed) = a + b + c + d - cost BY <1>3
<1> HIDE DEF a, b, c, d
<1> QED BY <1>2, <1>4, <1>5

LEMMA RowsAreListed ==
  ASSUME NEW doc, DocumentOK(doc), NEW o, NEW root
  PROVE  Rows(doc, o, root) \in Seq(RowsIn(doc))
<1> DEFINE S == doc.els
           ready == {el \in S : root \in Above(doc, el) /\ Candidate(doc, o, el)}
           walked == InOrder(ready)
           read == IF o.verifiable THEN Verifiable(doc) ELSE <<>>
           part == IF root # 1 THEN ScopedText(doc, root) ELSE <<>>
           all == walked \o read \o part
           held == {i \in DOMAIN all :
                      \/ i <= Len(walked)
                      \/ \A j \in 1..(i - 1) : Ref(doc, all[j]) # Ref(doc, all[i])}
           kept == InOrder(held)
           Row(i) == CapturedRow(all[i], Score(doc, all[i], i <= Len(walked)), 0)
<1>1. IsFiniteSet(S) /\ \A x \in S : x \in Nat BY DEF DocumentOK
<1>2. walked \in Seq(S)
  <2>1. \A x \in ready : x \in S OBVIOUS
  <2> HIDE DEF ready, S
  <2> QED BY <1>1, <2>1, InOrderWithin
<1>3. Verifiable(doc) \in Seq(S)
  <2> DEFINE heard == {el \in Light(doc) : ~AriaHidden(doc, el)}
             heads == {el \in heard : doc.tag[el] = "h" /\ doc.raw[el] # None}
             live == {el \in heard : At(doc, el, "role") \in {"alert", "status"}}
  <2>1. (\A x \in heads : x \in S) /\ (\A x \in live : x \in S) BY DEF Light
  <2>2. Verifiable(doc) = InOrder(heads) \o InOrder(live) BY DEF Verifiable
  <2> HIDE DEF heads, live, S
  <2>3. InOrder(heads) \in Seq(S) /\ InOrder(live) \in Seq(S) BY <1>1, <2>1, InOrderWithin
  <2> QED BY <2>2, <2>3
<1>4. ScopedText(doc, root) \in Seq(S)
  <2> DEFINE leaves == {el \in S : Encloses(doc, root, el) /\ Children(doc, el) = {}}
             textless == {"script", "style", "noscript", "svg", "path", "img", "iframe"}
             plain == {el \in leaves \ {root} :
                 /\ doc.raw[el] # None /\ ~AriaHidden(doc, el)
                 /\ doc.tag[el] \notin textless
                 /\ \A other \in leaves \ {el} : doc.raw[other] # doc.raw[el]}
  <2>1. \A x \in plain : x \in S OBVIOUS
  <2>2. ScopedText(doc, root) = InOrder(plain) BY DEF ScopedText
  <2> HIDE DEF plain, S
  <2> QED BY <1>1, <2>1, <2>2, InOrderWithin
<1>5. all \in Seq(S)
  <2>0. <<>> \in Seq(S) OBVIOUS
  <2>1. read \in Seq(S) /\ part \in Seq(S)
    <3> HIDE DEF S
    <3>1. read = Verifiable(doc) \/ read = <<>> OBVIOUS
    <3>2. part = ScopedText(doc, root) \/ part = <<>> OBVIOUS
    <3> HIDE DEF read, part
    <3> QED BY <2>0, <3>1, <3>2, <1>3, <1>4
  <2> HIDE DEF read, part, walked, S
  <2> QED BY <1>2, <2>1
<1>6. Rows(doc, o, root) = [k \in DOMAIN kept |-> Row(kept[k])] BY DEF Rows
<1> HIDE DEF all
<1>7. kept \in Seq(DOMAIN all)
  <2>1. \A x \in held : x \in DOMAIN all OBVIOUS
  <2>2. IsFiniteSet(DOMAIN all) /\ \A x \in DOMAIN all : x \in Nat BY <1>5, PlacesLess
  <2> HIDE DEF held
  <2> QED BY <2>1, <2>2, InOrderWithin
<1>8. \A i \in DOMAIN all : Row(i) \in RowsIn(doc)
  <2> TAKE i \in DOMAIN all
  <2>1. all[i] \in S BY <1>5, PlacesLess
  <2>2. Score(doc, all[i], i <= Len(walked)) \in Int BY ScoreIsOne
  <2> QED BY <2>1, <2>2 DEF RowsIn, CapturedRow
<1> HIDE DEF kept, Row
<1>9. DOMAIN kept = 1..Len(kept) /\ Len(kept) \in Nat /\ \A k \in DOMAIN kept : kept[k] \in DOMAIN all
  BY <1>7
<1> DEFINE given == [k \in DOMAIN kept |-> Row(kept[k])]
<1>10. given \in [1..Len(kept) -> RowsIn(doc)] BY <1>8, <1>9
<1>11. given \in Seq(RowsIn(doc)) BY <1>9, <1>10
<1> QED BY <1>6, <1>11

LEMMA Refolded ==
  ASSUME NEW doc, NEW row \in RowsIn(doc), NEW n \in Nat
  PROVE  [row EXCEPT !.folded = n - 1] \in RowsIn(doc)
BY DEF RowsIn

LEMMA CollapsedIsListed ==
  ASSUME NEW doc, NEW given \in Seq(RowsIn(doc))
  PROVE  Collapsed(doc, given) \in Seq(RowsIn(doc))
<1> DEFINE kinds == [i \in DOMAIN given |->
                       <<doc.parent[given[i].el], doc.tag[given[i].el],
                         RoleOf(doc, given[i].el), Fingerprint(doc, given[i].el)>>]
           Like(i) == {j \in DOMAIN given : kinds[j] = kinds[i]}
           Limit(group) ==
             IF 2 * Cardinality({j \in group : Testid(doc, given[j].el) # None})
                  >= Cardinality(group)
             THEN Instrumented ELSE Uninstrumented
           Long(i) == Cardinality(Like(i)) >= Limit(Like(i))
           Best(i) == \A j \in Like(i) \ {i} :
                        \/ given[i].score > given[j].score
                        \/ given[i].score = given[j].score /\ i < j
           held == {i \in DOMAIN given : Long(i) => Best(i)}
           kept == InOrder(held)
           Row(i) == IF Long(i) THEN [given[i] EXCEPT !.folded = Cardinality(Like(i)) - 1]
                                ELSE given[i]
           made == [k \in DOMAIN kept |-> Row(kept[k])]
<1>1. Collapsed(doc, given) = made BY DEF Collapsed
<1>2. IsFiniteSet(DOMAIN given) /\ \A x \in DOMAIN given : x \in Nat /\ given[x] \in RowsIn(doc)
  BY PlacesLess
<1>3. kept \in Seq(DOMAIN given)
  <2>1. \A x \in held : x \in DOMAIN given OBVIOUS
  <2> HIDE DEF held
  <2> QED BY <1>2, <2>1, InOrderWithin
<1>4. \A i \in DOMAIN given : Row(i) \in RowsIn(doc)
  <2> TAKE i \in DOMAIN given
  <2>1. Cardinality(Like(i)) \in Nat
    <3>1. Like(i) \in SUBSET DOMAIN given OBVIOUS
    <3> HIDE DEF Like
    <3> QED BY <3>1, <1>2, FS_Subset, FS_CardinalityType
  <2>2. given[i] \in RowsIn(doc) BY <1>2
  <2> HIDE DEF Like, Long
  <2>3. [given[i] EXCEPT !.folded = Cardinality(Like(i)) - 1] \in RowsIn(doc)
    BY <2>1, <2>2, Refolded
  <2> QED BY <2>2, <2>3
<1> HIDE DEF kept, Row
<1>5. DOMAIN kept = 1..Len(kept) /\ Len(kept) \in Nat
      /\ \A k \in DOMAIN kept : kept[k] \in DOMAIN given
  BY <1>3
<1>6. made \in [1..Len(kept) -> RowsIn(doc)] BY <1>4, <1>5
<1>7. made \in Seq(RowsIn(doc)) BY <1>5, <1>6
<1> QED BY <1>1, <1>7

(* The highest of the overlays that are shown is one of the document's.      *)
LEMMA TopIsOne ==
  ASSUME NEW doc, DocumentOK(doc), TopOverlay(doc) # None
  PROVE  TopOverlay(doc) \in doc.els
<1> DEFINE open == {el \in Light(doc) : IsOverlay(doc, el) /\ el \in doc.boxed}
           highest == {el \in open : \A o \in open : doc.z[o] <= doc.z[el]}
           levels == {doc.z[o] : o \in open}
<1>1. open # {} /\ TopOverlay(doc) = Max(highest) BY DEF TopOverlay
<1>2. IsFiniteSet(open) /\ \A e \in open : e \in doc.els /\ e \in Nat /\ doc.z[e] \in Int
  <2>1. open \in SUBSET doc.els BY DEF Light
  <2>2. IsFiniteSet(doc.els) /\ \A e \in doc.els : e \in Nat /\ doc.z[e] \in Int
    BY DEF DocumentOK
  <2> HIDE DEF open
  <2> QED BY <2>1, <2>2, FS_Subset
<1> HIDE DEF open
<1>3. highest # {}
  <2>1. IsFiniteSet(levels)
    <3> DEFINE f == [e \in open |-> doc.z[e]]
    <3>1. f \in [open -> levels] /\ \A y \in levels : \E e \in open : f[e] = y OBVIOUS
    <3> HIDE DEF f, levels
    <3>2. f \in Surjection(open, levels) BY <3>1 DEF Surjection
    <3> QED BY <3>2, <1>2, FS_Surjection
  <2>2. levels # {} /\ \A x \in levels : x \in Int BY <1>1, <1>2
  <2>3. Max(levels) \in levels /\ \A y \in levels : y <= Max(levels)
    <3> HIDE DEF levels
    <3> QED BY <2>1, <2>2, MaxIsOne
  <2>4. PICK e \in open : doc.z[e] = Max(levels) BY <2>3
  <2>5. \A o \in open : doc.z[o] <= doc.z[e] BY <2>3, <2>4
  <2> QED BY <2>4, <2>5
<1>4. IsFiniteSet(highest) /\ (\A x \in highest : x \in Int /\ x \in doc.els)
  <2>1. highest \in SUBSET open OBVIOUS
  <2> HIDE DEF highest
  <2> QED BY <2>1, <1>2, FS_Subset
<1> HIDE DEF highest
<1>5. Max(highest) \in highest BY <1>3, <1>4, MaxIsOne
<1> QED BY <1>1, <1>4, <1>5

LEMMA OverlayIsListed ==
  ASSUME NEW doc, DocumentOK(doc), NEW o, NEW root, NEW given \in Seq(RowsIn(doc))
  PROVE  WithOverlay(doc, o, root, given) \in Seq(RowsIn(doc))
<1> DEFINE overlay == TopOverlay(doc)
           inside == {i \in DOMAIN given : Encloses(doc, overlay, given[i].el)}
           held == DOMAIN given \ inside
           outside == InOrder(held)
           rest == [k \in DOMAIN outside |-> given[outside[k]]]
           made == WithOverlay(doc, o, root, given)
<1>1. IsFiniteSet(DOMAIN given) /\ \A x \in DOMAIN given : x \in Nat /\ given[x] \in RowsIn(doc)
  BY PlacesLess
<1>2. outside \in Seq(DOMAIN given)
  <2>1. \A x \in held : x \in DOMAIN given OBVIOUS
  <2> HIDE DEF held
  <2> QED BY <1>1, <2>1, InOrderWithin
<1>3. rest \in Seq(RowsIn(doc))
  <2> HIDE DEF outside
  <2>1. DOMAIN outside = 1..Len(outside) /\ Len(outside) \in Nat
        /\ \A k \in DOMAIN outside : outside[k] \in DOMAIN given
    BY <1>2
  <2>2. rest \in [1..Len(outside) -> RowsIn(doc)] BY <1>1, <2>1
  <2> QED BY <2>1, <2>2
<1>4. Cardinality(inside) \in Nat
  <2>1. inside \in SUBSET DOMAIN given OBVIOUS
  <2> HIDE DEF inside
  <2> QED BY <2>1, <1>1, FS_Subset, FS_CardinalityType
<1>5. \/ made = given
      \/ /\ overlay # None
         /\ \/ made = Append(rest, CapturedRow(overlay, Topmost, Cardinality(inside)))
            \/ made = Append(given, CapturedRow(overlay, Topmost, 0))
  BY DEF WithOverlay
<1>6. overlay # None => overlay \in doc.els BY TopIsOne
<1> HIDE DEF inside, rest, overlay, made
<1>7. overlay # None =>
        /\ CapturedRow(overlay, Topmost, Cardinality(inside)) \in RowsIn(doc)
        /\ CapturedRow(overlay, Topmost, 0) \in RowsIn(doc)
  BY <1>4, <1>6 DEF CapturedRow, Topmost, RowsIn
<1>8. made \in Seq(RowsIn(doc))
  <2> DEFINE V == RowsIn(doc)
  <2>1. rest \in Seq(V) /\ given \in Seq(V) BY <1>3
  <2>2. overlay # None =>
          /\ Append(rest, CapturedRow(overlay, Topmost, Cardinality(inside))) \in Seq(V)
          /\ Append(given, CapturedRow(overlay, Topmost, 0)) \in Seq(V)
    <3> HIDE DEF V
    <3> QED BY <2>1, <1>7, Appended DEF V
  <2> QED BY <2>1, <2>2, <1>5
<1> QED BY <1>8 DEF made

LEMMA SortedIsListed ==
  ASSUME NEW doc, NEW given \in Seq(RowsIn(doc))
  PROVE  ByScore(given) \in Seq(RowsIn(doc))
<1> DEFINE S == DOMAIN given
           Ahead(i) == {j \in S : \/ given[j].score > given[i].score
                                  \/ given[j].score = given[i].score /\ j <= i}
           Place(i) == Cardinality(Ahead(i))
           One(k) == CHOOSE i \in S : Place(i) = k
           made == [k \in S |-> given[One(k)]]
           R == {p \in S \X S : \/ given[p[1]].score > given[p[2]].score
                                \/ given[p[1]].score = given[p[2]].score /\ p[1] < p[2]}
<1>1. ByScore(given) = made BY DEF ByScore
<1>2. \A i \in S : i \in Nat /\ given[i] \in RowsIn(doc) /\ given[i].score \in Int
  <2>1. \A i \in S : i \in Nat /\ given[i] \in RowsIn(doc) BY PlacesLess
  <2>2. \A row \in RowsIn(doc) : row.score \in Int BY DEF RowsIn
  <2> QED BY <2>1, <2>2
<1>3. S = 1..Len(given) /\ Len(given) \in Nat OBVIOUS
<1>4. IsFiniteSet(S) /\ Cardinality(S) = Len(given) BY <1>3, FS_Interval
<1> HIDE DEF S
<1>5. Orders(R, S)
  <2>1. \A i, j \in S : <<i, j>> \in R <=>
          \/ given[i].score > given[j].score
          \/ given[i].score = given[j].score /\ i < j
    OBVIOUS
  <2> HIDE DEF R
  <2> DEFINE mark(i) == given[i].score
  <2>a. \A i, j \in S : <<i, j>> \in R <=> mark(i) > mark(j) \/ (mark(i) = mark(j) /\ i < j)
    BY <2>1
  <2>b. \A i \in S : i \in Nat /\ mark(i) \in Int BY <1>2
  <2> HIDE DEF mark
  <2>2. \A x \in S : <<x, x>> \notin R BY <2>a, <2>b
  <2>3. \A x, y \in S : x = y \/ <<x, y>> \in R \/ <<y, x>> \in R
    <3> TAKE x, y \in S
    <3>1. x \in Nat /\ y \in Nat /\ mark(x) \in Int /\ mark(y) \in Int BY <2>b
    <3>2. mark(x) > mark(y) \/ mark(y) > mark(x) \/ mark(x) = mark(y) BY <3>1
    <3>3. x < y \/ y < x \/ x = y BY <3>1
    <3> QED BY <2>a, <3>2, <3>3
  <2>4. \A x, y, z \in S : <<x, y>> \in R /\ <<y, z>> \in R => <<x, z>> \in R
    <3> TAKE x, y, z \in S
    <3>1. /\ x \in Nat /\ y \in Nat /\ z \in Nat
          /\ mark(x) \in Int /\ mark(y) \in Int /\ mark(z) \in Int
      BY <2>b
    <3> HAVE <<x, y>> \in R /\ <<y, z>> \in R
    <3>2. mark(x) > mark(y) \/ (mark(x) = mark(y) /\ x < y) BY <2>a
    <3>3. mark(y) > mark(z) \/ (mark(y) = mark(z) /\ y < z) BY <2>a
    <3>4. mark(x) > mark(z) \/ (mark(x) = mark(z) /\ x < z) BY <3>1, <3>2, <3>3
    <3> QED BY <2>a, <3>4
  <2> QED BY <2>2, <2>3, <2>4 DEF Orders
<1>6. \A i \in S : Ahead(i) = {j \in S : j = i \/ <<j, i>> \in R}
  <2> TAKE i \in S
  <2>1. \A j \in S : (j = i \/ <<j, i>> \in R) <=>
          (\/ given[j].score > given[i].score
           \/ given[j].score = given[i].score /\ j <= i)
    BY <1>2
  <2> HIDE DEF R
  <2> QED BY <2>1
<1>7. \A k \in S : One(k) \in S
  <2> TAKE k \in S
  <2>1. k \in 1..Cardinality(S) BY <1>3, <1>4
  <2>2. PICK i \in S : PlaceIn(R, S, i) = k
    <3> HIDE DEF R, Place, Ahead, made
    <3>1. \A n \in 1..Cardinality(S) : \E x \in S : PlaceIn(R, S, x) = n
      BY <1>4, <1>5, EachPlaceIsTaken
    <3> QED BY <2>1, <3>1
  <2>3. Place(i) = k BY <2>2, <1>6 DEF PlaceIn
  <2> HIDE DEF Place
  <2> QED BY <2>3
<1> HIDE DEF One
<1>8. made \in [1..Len(given) -> RowsIn(doc)] BY <1>2, <1>3, <1>7
<1>9. made \in Seq(RowsIn(doc)) BY <1>3, <1>8
<1> QED BY <1>1, <1>9

LEMMA DelegateIsOne ==
  ASSUME NEW doc, DocumentOK(doc), NEW el, Delegate(doc, el) # None
  PROVE  Delegate(doc, el) \in doc.els
<1> DEFINE near == {a \in Above(doc, el) \ {el} :
                      Cardinality(Above(doc, el)) - Cardinality(Above(doc, a)) <= MaxClimb}
           takers == {a \in near : a \notin doc.noPointer /\ a \in doc.cursor}
<1>1. takers # {} /\ Delegate(doc, el) = Max(takers) BY DEF Delegate
<1>2. IsFiniteSet(doc.els) /\ (\A x \in doc.els : x \in Nat) /\ \A x \in doc.cursor : x \in doc.els
  BY DEF DocumentOK
<1>3. \A x \in takers : x \in doc.els /\ x \in Int BY <1>2
<1> HIDE DEF takers
<1>4. IsFiniteSet(takers)
  <2>1. takers \in SUBSET doc.els BY <1>3
  <2> QED BY <2>1, <1>2, FS_Subset
<1>5. Max(takers) \in takers BY <1>1, <1>3, <1>4, MaxIsOne
<1> QED BY <1>1, <1>3, <1>5

(* A row of a document as an answer may report it.                           *)
Told(row) ==
  /\ "ref" \in DOMAIN row /\ "locator" \in DOMAIN row
  /\ DigestLike(row.ref) /\ (row.locator # None => Written(row.locator))

LEMMA WireFits ==
  ASSUME NoneIsNothing, NEW doc, DocumentOK(doc), NEW all, NEW row, row.el \in doc.els
  PROVE  HitsTarget(doc, Wire(doc, all, row)) /\ Told(Wire(doc, all, row))
<1> DEFINE el == row.el
           count == RefCount(doc, all, Ref(doc, el))
           container == IF count > 1 /\ Testid(doc, el) = None THEN Container(doc, el)
                                                               ELSE None
           target == IF Blocked(doc, el) THEN Delegate(doc, el) ELSE el
           ref == IF container = None THEN Ref(doc, el)
                  ELSE [Digest(doc.tag[el]) EXCEPT !.role = RoleOf(doc, el),
                                                   !.name = ShownName(doc, el),
                                                   !.row = container.name]
           locator == CASE target = None -> None
                        [] target # None /\ target = el -> Derive(doc, el, container, count <= 1)
                        [] OTHER -> Derive(doc, target, Container(doc, target), FALSE)
           wire == Wire(doc, all, row)
<1>1. wire = [ref |-> ref, el |-> el, role |-> RoleOf(doc, el), name |-> ShownName(doc, el),
              target |-> target, folded |-> row.folded, container |-> container,
              visible |-> ~VisuallyHidden(doc, el), locator |-> locator]
  BY DEF Wire
<1> HIDE DEF ref, locator, container, count, wire
<1>2. /\ "ref" \in DOMAIN wire /\ "locator" \in DOMAIN wire
      /\ wire.ref = ref /\ wire.locator = locator /\ wire.target = target
  BY <1>1
<1>3. DigestLike(ref)
  <2>1. CASE container = None BY <2>1, RefsAreDigests DEF ref
  <2>2. CASE container # None
    <3>1. ref = [tag |-> doc.tag[el], key |-> None, role |-> RoleOf(doc, el),
                 name |-> ShownName(doc, el), path |-> <<>>, row |-> container.name,
                 frames |-> <<>>, dup |-> 1]
      BY <2>2 DEF ref, Digest
    <3> QED BY <3>1 DEF DigestLike
  <2> QED BY <2>1, <2>2
<1>4. CASE target = None
  <2>1. locator = None BY <1>4 DEF locator
  <2>2. HitsTarget(doc, wire) /\ Told(wire) BY <2>1, <1>2, <1>3 DEF Told, HitsTarget
  <2> QED BY <2>2 DEF wire
<1>5. CASE target # None
  <2>1. target \in doc.els BY <1>5, DelegateIsOne
  <2>2. \E around, unique : locator = Derive(doc, target, around, unique)
    <3>1. CASE target = el
      <4>1. locator = Derive(doc, target, container, count <= 1) BY <1>5, <3>1 DEF locator
      <4> QED BY <4>1
    <3>2. CASE target # el
      <4>1. locator = Derive(doc, target, Container(doc, target), FALSE)
        BY <1>5, <3>2 DEF locator
      <4> QED BY <4>1
    <3> QED BY <3>1, <3>2
  <2>3. PICK around, unique : locator = Derive(doc, target, around, unique) BY <2>2
  <2> HIDE DEF target
  <2>4. HitsTarget(doc, wire) BY <1>2, <2>1, <2>3, DerivedHits
  <2>5. locator # None => Written(locator) BY <2>3, DerivedIsWritten
  <2> QED BY <2>4, <2>5, <1>2, <1>3 DEF Told, wire
<1> QED BY <1>4, <1>5

(* What a capture reports fits the document.                                 *)
SuitsPage(doc, told) ==
  /\ told \in Seq({told[i] : i \in DOMAIN told})
  /\ \A i \in DOMAIN told : HitsTarget(doc, told[i]) /\ Told(told[i])

LEMMA CaptureFits ==
  ASSUME NoneIsNothing, NEW doc, DocumentOK(doc), NEW o, Capture(doc, o) # None
  PROVE  SuitsPage(doc, Capture(doc, o).elements)
<1> DEFINE root == RootOf(doc, o.scope)
           all == Rows(doc, o, root)
           fewer == IF o.collapse THEN Collapsed(doc, all) ELSE all
           working == WithOverlay(doc, o, root, fewer)
           sorted == ByScore(working)
           count == IF Len(sorted) < MaxNodes THEN Len(sorted) ELSE MaxNodes
           slice == SubSeq(sorted, 1, count)
           V == RowsIn(doc)
           wires == [i \in DOMAIN slice |-> Wire(doc, all, slice[i])]
<1>1. Capture(doc, o) = [elements |-> wires, truncated |-> Len(working) > MaxNodes,
                         alerts |-> Alerts(doc), overlay |-> Announced(doc)]
  BY DEF Capture
<1>2. Capture(doc, o).elements = wires
  <2> HIDE DEF wires, working
  <2> QED BY <1>1
<1>3. all \in Seq(V) BY RowsAreListed
<1> HIDE DEF all
<1>4. fewer \in Seq(V) BY <1>3, CollapsedIsListed
<1> HIDE DEF fewer
<1>5. working \in Seq(V) BY <1>4, OverlayIsListed
<1> HIDE DEF working
<1>6. sorted \in Seq(V) BY <1>5, SortedIsListed
<1> HIDE DEF sorted
<1>7. count \in Nat /\ count <= Len(sorted) BY <1>6, CaptureAssumption
<1> HIDE DEF count, V
<1>8. DOMAIN slice = 1..count /\ \A i \in 1..count : slice[i] = sorted[i] /\ i \in DOMAIN sorted
  BY <1>6, <1>7
<1> HIDE DEF slice
<1>9. \A i \in 1..count : slice[i].el \in doc.els
  <2>1. \A i \in 1..count : slice[i] \in V BY <1>6, <1>8
  <2> QED BY <2>1 DEF V, RowsIn
<1>10. \A i \in 1..count : HitsTarget(doc, wires[i]) /\ Told(wires[i])
  BY <1>8, <1>9, WireFits
<1> HIDE DEF wires
<1>11. DOMAIN wires = 1..count /\ wires = [i \in 1..count |-> wires[i]]
  BY <1>8 DEF wires
<1> DEFINE W == {wires[i] : i \in 1..count}
<1>12. wires \in [1..count -> W] BY <1>11
<1>13. wires \in Seq(W) BY <1>7, <1>12
<1> QED BY <1>2, <1>10, <1>11, <1>13 DEF SuitsPage

(* What is flattened is an element of one of the parts.                      *)
Flat(seqs, f, i) == IF i = 1 THEN seqs[i] ELSE f[i - 1] \o seqs[i]

LEMMA FlattenedIsOf ==
  ASSUME NEW V, NEW seqs \in Seq(Seq(V))
  PROVE  FlattenSeq(seqs) \in Seq(V)
<1> DEFINE S == 1..Len(seqs)
           h == CHOOSE f : f = [i \in S |-> Flat(seqs, f, i)]
           base == [i \in S |-> seqs[i]]
           step == [p \in S \X Seq(V) |-> p[2] \o seqs[p[1]]]
           above == [i \in S |-> i - 1]
           W == Seq(V)
<1>0. Len(seqs) \in Nat /\ \A i \in S : seqs[i] \in W OBVIOUS
<1>1. CASE Len(seqs) = 0
  <2>1. FlattenSeq(seqs) = seqs BY <1>1 DEF FlattenSeq
  <2>2. seqs = <<>> BY <1>1
  <2> QED BY <2>1, <2>2
<1>2. CASE Len(seqs) # 0
  <2>1. FlattenSeq(seqs) = h[Len(seqs)] BY <1>2 DEF FlattenSeq, Flat
  <2>2. PICK f \in [S -> W] : Recursive(S, base, step, above, 0, f)
    <3>1. Below(S, Len(seqs) + 1) /\ Len(seqs) + 1 \in Nat BY <1>0 DEF Below
    <3>2. Descends(S, above, 0) BY <1>0 DEF Descends
    <3>3. Stays(S, W, base, step)
      <4>1. \A i \in S : base[i] \in W BY <1>0
      <4>2. ASSUME NEW i \in S, NEW v \in W PROVE step[<<i, v>>] \in W
        <5>1. step[<<i, v>>] = v \o seqs[i] OBVIOUS
        <5>2. seqs[i] \in W BY <1>0
        <5> QED BY <5>1, <5>2
      <4> HIDE DEF S, W, base, step
      <4> QED BY <4>1, <4>2 DEF Stays
    <3> HIDE DEF S, W, base, step, above
    <3> QED BY <3>1, <3>2, <3>3, RecursionGives
  <2>3. ASSUME NEW i \in S PROVE f[i] = Flat(seqs, f, i)
    <3>1. above[i] = i - 1 BY <1>0
    <3>2. CASE i = 1
      <4>1. above[i] = 0 BY <3>1, <3>2
      <4>2. f[i] = base[i]
        <5> HIDE DEF base, step, above
        <5> QED BY <2>2, <4>1 DEF Recursive
      <4> QED BY <4>2, <3>2 DEF Flat
    <3>3. CASE i # 1
      <4>1. i - 1 \in S /\ i - 1 # 0 BY <1>0, <3>3
      <4>2. <<i, f[i - 1]>> \in S \X W BY <4>1, <2>2
      <4>3. f[i] = step[<<i, f[above[i]]>>] BY <2>2, <3>1, <4>1 DEF Recursive
      <4>4. f[i] = f[i - 1] \o seqs[i] BY <3>1, <4>2, <4>3
      <4> QED BY <4>4, <3>3 DEF Flat
    <3> QED BY <3>2, <3>3
  <2>4. f = [i \in S |-> Flat(seqs, f, i)] BY <2>2, <2>3
  <2>5. h = [i \in S |-> Flat(seqs, h, i)] BY <2>4
  <2> HIDE DEF h
  <2>6. \A i \in S : h[i] = Flat(seqs, h, i) BY <2>5
  <2> DEFINE Bad == {i \in S : h[i] \notin W}
  <2>7. ASSUME Bad # {} PROVE FALSE
    <3>1. Bad \in SUBSET Nat BY <1>0
    <3>2. PICK m \in Bad : \A n \in Bad : m <= n
      <4> HIDE DEF Bad
      <4> QED BY <2>7, <3>1, LeastNumber
    <3>3. m \in S /\ h[m] \notin W /\ h[m] = Flat(seqs, h, m) BY <2>6
    <3>4. CASE m = 1 BY <3>3, <3>4, <1>0 DEF Flat
    <3>5. CASE m # 1
      <4>1. m - 1 \in S BY <3>3, <3>5, <1>0
      <4>2. h[m - 1] \in W BY <4>1, <3>2, <3>3, <1>0
      <4>3. h[m] = h[m - 1] \o seqs[m] BY <3>3, <3>5 DEF Flat
      <4>4. seqs[m] \in W BY <3>3, <1>0
      <4>5. \A p, q \in W : p \o q \in W OBVIOUS
      <4> HIDE DEF W
      <4> QED BY <4>2, <4>3, <4>4, <4>5, <3>3
    <3> QED BY <3>4, <3>5
  <2>8. Len(seqs) \in S BY <1>0, <1>2
  <2> QED BY <2>1, <2>7, <2>8
<1> QED BY <1>1, <1>2

(* A row of a frame, with the way there.                                     *)
LEMMA FramedIsTold ==
  ASSUME NoneIsNothing, NEW row, Told(row), NEW path
  PROVE  LET framed == WithFramePath(row, Hops(path))
         IN  /\ "ref" \in DOMAIN framed /\ "locator" \in DOMAIN framed
             /\ DigestLike(framed.ref)
             /\ framed.locator # None => Renders(framed.locator)
<1> DEFINE frames == Hops(path)
           framed == WithFramePath(row, frames)
           carried == [row.locator EXCEPT !.frames = frames]
<1>1. /\ "ref" \in DOMAIN framed /\ "locator" \in DOMAIN framed
      /\ framed.ref = [row.ref EXCEPT !.frames = frames]
      /\ framed.locator = IF row.locator = None THEN None ELSE carried
  <2> HIDE DEF frames
  <2> QED BY DEF WithFramePath, Told
<1>2. \A f : FrameRenders(Hop(f))
  <2> TAKE f
  <2> DEFINE xpath == XPath("*", {<<"id", f>>})
  <2>1. xpath # None BY XPathsAreSome
  <2> HIDE DEF xpath
  <2>2. Hop(f).strategy = "dom_id" /\ Hop(f).xpath = xpath BY DEF Hop, Locator, xpath
  <2> QED BY <2>1, <2>2 DEF FrameRenders, XPathTiers
<1>3. \A i \in DOMAIN frames : FrameRenders(frames[i])
  BY <1>2 DEF Hops
<1> HIDE DEF frames, framed
<1>4. DigestLike(framed.ref)
  <2>1. DigestLike(row.ref) BY DEF Told
  <2>2. framed.ref = [tag |-> row.ref.tag, key |-> row.ref.key, role |-> row.ref.role,
                      name |-> row.ref.name, path |-> row.ref.path, row |-> row.ref.row,
                      frames |-> frames, dup |-> 1]
    BY <1>1, <2>1 DEF DigestLike
  <2> QED BY <2>2 DEF DigestLike
<1>5. framed.locator # None => Renders(framed.locator)
  <2> HAVE framed.locator # None
  <2> DEFINE l == row.locator
  <2>1. Shaped(l) /\ Renders(l) /\ framed.locator = carried BY <1>1 DEF Told, Written
  <2>2. carried = [strategy |-> l.strategy, attr |-> l.attr, value |-> l.value,
                   xpath |-> l.xpath, role |-> l.role, name |-> l.name,
                   container |-> l.container, frames |-> frames]
    <3> HIDE DEF l
    <3>1. [l EXCEPT !.frames = frames] =
             [strategy |-> l.strategy, attr |-> l.attr, value |-> l.value,
              xpath |-> l.xpath, role |-> l.role, name |-> l.name,
              container |-> l.container, frames |-> frames]
      BY <2>1 DEF Shaped
    <3> QED BY <3>1 DEF l
  <2> HIDE DEF l, carried
  <2>3. /\ carried.strategy = l.strategy /\ carried.value = l.value /\ carried.xpath = l.xpath
        /\ carried.role = l.role /\ carried.name = l.name /\ carried.container = l.container
        /\ carried.frames = frames
    BY <2>2
  <2>4. RoleChain(carried) = RoleChain(l) BY <2>3 DEF RoleChain
  <2>5. Renders(carried) BY <2>1, <2>3, <2>4, <1>3 DEF Renders
  <2> QED BY <2>1, <2>5
<1> QED BY <1>1, <1>4, <1>5 DEF framed, frames

(* A row of an answer, of whichever frame.                                   *)
Sound(row) ==
  /\ "ref" \in DOMAIN row /\ "locator" \in DOMAIN row
  /\ DigestLike(row.ref) /\ (row.locator # None => Renders(row.locator))
AnswerFit(given) ==
  /\ \A i \in DOMAIN given : given[i].locator # None => Renders(given[i].locator)
  /\ RefsApart(given)

LEMMA NumberedAreFit ==
  ASSUME NEW V, \A row \in V : Sound(row), NEW told \in Seq(V)
  PROVE  AnswerFit(DisambiguateDuplicateRefs(told))
<1> DEFINE n == Len(told)
           Texts(ref) == {ref.tag, ref.key, ref.role, ref.name, ref.path, ref.row, ref.frames}
           texts == UNION {Texts(row.ref) : row \in V}
           given == DisambiguateDuplicateRefs(told)
<1>1. n \in Nat /\ DOMAIN told = 1..n /\ \A i \in 1..n : told[i] \in V OBVIOUS
<1>2. ASSUME NEW i \in 1..n
      PROVE  "ref" \in DOMAIN told[i] /\ told[i].ref \in Digests(texts)
  <2> DEFINE ref == told[i].ref
  <2>1. Sound(told[i]) BY <1>1
  <2>2. DigestLike(ref) BY <2>1 DEF Sound
  <2>3. /\ ref.tag \in texts /\ ref.key \in texts /\ ref.role \in texts /\ ref.name \in texts
        /\ ref.path \in texts /\ ref.row \in texts /\ ref.frames \in texts
    <3>1. \A x \in Texts(ref) : x \in texts BY <1>1
    <3>2. /\ ref.tag \in Texts(ref) /\ ref.key \in Texts(ref) /\ ref.role \in Texts(ref)
          /\ ref.name \in Texts(ref) /\ ref.path \in Texts(ref) /\ ref.row \in Texts(ref)
          /\ ref.frames \in Texts(ref)
      OBVIOUS
    <3> HIDE DEF Texts, texts, ref
    <3> QED BY <3>1, <3>2
  <2> HIDE DEF ref, texts
  <2>4. ref \in Digests(texts) BY <2>2, <2>3 DEF DigestLike, Digests
  <2> QED BY <2>1, <2>4 DEF Sound, ref
<1> HIDE DEF texts
<1>3. RefsApart(given) BY <1>1, <1>2, AnswersKeepRefsApart
<1>4. ASSUME NEW i \in DOMAIN given PROVE given[i].locator # None => Renders(given[i].locator)
  <2>1. i \in 1..n BY <1>1 DEF DisambiguateDuplicateRefs
  <2>2. Sound(told[i]) BY <1>1, <2>1
  <2>3. given[i] = told[i] \/ given[i] = [told[i] EXCEPT !.ref.dup = Occurrence(told, i)]
    BY <1>1, <2>1 DEF DisambiguateDuplicateRefs
  <2> HIDE DEF given
  <2>4. given[i].locator = told[i].locator BY <2>2, <2>3 DEF Sound
  <2> QED BY <2>2, <2>4 DEF Sound
<1> HIDE DEF given
<1>5. AnswerFit(given) BY <1>3, <1>4 DEF AnswerFit
<1> QED BY <1>5 DEF given

LEMMA ToldIsSound ==
  ASSUME NEW row, Told(row)
  PROVE  Sound(row)
BY DEF Told, Written, Sound

LEMMA NothingFits ==
  ASSUME NEW doc
  PROVE  SuitsPage(doc, <<>>)
BY DEF SuitsPage

(* The rows of the main frame, then of the frames that were captured.        *)
LEMMA AnswerIsFit ==
  ASSUME NoneIsNothing, NEW doc, NEW top, SuitsPage(doc, top), NEW S, NEW groups \in Seq(S),
         \A i \in DOMAIN groups : SuitsPage(doc, groups[i].rows)
  PROVE  AnswerFit(DisambiguateDuplicateRefs(
           top \o FlattenSeq([i \in DOMAIN groups |-> RowsOf(groups[i])])))
<1> DEFINE G == DOMAIN groups
           parts == [i \in G |-> RowsOf(groups[i])]
           V == {row \in {top[k] : k \in DOMAIN top}
                         \cup (UNION {{parts[i][k] : k \in DOMAIN parts[i]} : i \in G}) :
                   Sound(row)}
<1>1. top \in Seq(V)
  <2> DEFINE T == {top[k] : k \in DOMAIN top}
  <2>1. top \in Seq(T) BY DEF SuitsPage
  <2>2. \A k \in DOMAIN top : Sound(top[k]) BY ToldIsSound DEF SuitsPage
  <2>3. \A k \in DOMAIN top : top[k] \in V BY <2>2
  <2> HIDE DEF V
  <2>4. DOMAIN top = 1..Len(top) /\ Len(top) \in Nat BY <2>1
  <2>5. top = [k \in 1..Len(top) |-> top[k]] BY <2>1, <2>4
  <2>6. top \in [1..Len(top) -> V] BY <2>3, <2>4, <2>5
  <2> QED BY <2>4, <2>6
<1>2. ASSUME NEW i \in G PROVE parts[i] \in Seq(V)
  <2> DEFINE given == groups[i].rows
             n == Len(given)
             made == RowsOf(groups[i])
             Row(k) == WithFramePath(given[k], Hops(groups[i].path))
  <2>1. DOMAIN given = 1..n /\ n \in Nat
    <3>1. SuitsPage(doc, given) OBVIOUS
    <3> HIDE DEF given
    <3> QED BY <3>1 DEF SuitsPage
  <2>2. made = [k \in 1..n |-> Row(k)] BY <2>1 DEF RowsOf
  <2>3. parts[i] = made OBVIOUS
  <2>4. ASSUME NEW k \in 1..n PROVE Sound(Row(k))
    <3>1. Told(given[k]) BY <2>1 DEF SuitsPage
    <3> HIDE DEF given
    <3>2. /\ "ref" \in DOMAIN Row(k) /\ "locator" \in DOMAIN Row(k)
          /\ DigestLike(Row(k).ref) /\ (Row(k).locator # None => Renders(Row(k).locator))
      BY <3>1, FramedIsTold
    <3> HIDE DEF Row
    <3> QED BY <3>2 DEF Sound
  <2> HIDE DEF Row, made, n
  <2>5. \A k \in 1..n : made[k] \in V
    <3> TAKE k \in 1..n
    <3>1. Sound(made[k]) BY <2>2, <2>4
    <3>2. k \in DOMAIN parts[i] /\ made[k] = parts[i][k] BY <2>2, <2>3
    <3> HIDE DEF parts
    <3> QED BY <3>1, <3>2
  <2> HIDE DEF V, parts
  <2>6. made \in [1..n -> V] BY <2>2, <2>5
  <2>7. made \in Seq(V) BY <2>1, <2>6
  <2> QED BY <2>3, <2>7
<1> HIDE DEF V
<1>3. parts \in Seq(Seq(V))
  <2>1. G = 1..Len(groups) /\ Len(groups) \in Nat OBVIOUS
  <2>2. parts \in [1..Len(groups) -> Seq(V)] BY <1>2, <2>1
  <2> HIDE DEF parts, G
  <2> QED BY <2>1, <2>2
<1> HIDE DEF parts
<1>4. FlattenSeq(parts) \in Seq(V) BY <1>3, FlattenedIsOf
<1> DEFINE flat == FlattenSeq(parts)
           told == top \o flat
<1> HIDE DEF flat
<1>5. told \in Seq(V) BY <1>1, <1>4 DEF flat
<1> HIDE DEF told
<1>6. \A row \in V : Sound(row) BY DEF V
<1>7. AnswerFit(DisambiguateDuplicateRefs(told)) BY <1>5, <1>6, NumberedAreFit
<1> QED BY <1>7 DEF told, flat, parts

(* What there is of a read at any time: rows that fit what the page shows.   *)
ReadFit ==
  /\ SuitsPage(document, rows) /\ \A i \in DOMAIN captured : SuitsPage(document, captured[i].rows)
  /\ AnswerFit(answer)

(* The read calls what PageCapture defines.                                  *)
Captured == \A d \in Documents, o \in Reads : CaptureOf(d, o) = Capture(d, o)

LEMMA FitsOn ==
  ASSUME NoneIsNothing, Captured, WalkTyped, Looking, ReadFit, [FrameNext]_frameVars
  PROVE  ReadFit'
<1> USE DEF ReadFit
<1>1. CASE ReadTop
  <2>1. /\ UNCHANGED <<document, captured, answer>>
        /\ rows' = rows \/ (Capture(document, opts) # None
                            /\ rows' = Capture(document, opts).elements)
    BY <1>1 DEF ReadTop, shown, Captured, WalkTyped
  <2>2. DocumentOK(document) BY DocumentsAssumption DEF WalkTyped
  <2>3. SuitsPage(document, rows') BY <2>1, <2>2, CaptureFits
  <2> QED BY <2>1, <2>3
<1>2. CASE CaptureFrame
  <2>1. PICK group : /\ UNCHANGED <<document, rows, answer>>
                     /\ captured' = Append(captured, group) /\ group.rows \in {<<>>, rows}
                     /\ group \in Groups
    <3> DEFINE path == Append(Head(queue).path, visited)
    <3>1. PICK found \in {<<>>, rows} :
            captured' = Append(captured, [frame |-> visited, path |-> path, rows |-> found])
      BY <1>2 DEF CaptureFrame
    <3>2. path \in Seq(Frames) /\ visited \in Frames
      <4>1. visited \in Frames /\ pc = "visit" BY <1>2 DEF CaptureFrame, WalkTyped
      <4>2. queue # <<>> BY <4>1, <1>2 DEF Looking
      <4>3. Head(queue) \in Entries BY <4>2, Left DEF WalkTyped
      <4> QED BY <4>1, <4>3 DEF Entries
    <3> HIDE DEF path
    <3>3. [frame |-> visited, path |-> path, rows |-> found] \in Groups
      BY <3>2 DEF Groups, WalkTyped
    <3>4. UNCHANGED <<document, rows, answer>> BY <1>2 DEF CaptureFrame, shown
    <3> QED BY <3>1, <3>3, <3>4
  <2>2. SuitsPage(document, group.rows) BY <2>1, NothingFits
  <2>3. /\ DOMAIN captured' = 1..(Len(captured) + 1) /\ DOMAIN captured = 1..Len(captured)
        /\ captured'[Len(captured) + 1] = group
        /\ \A i \in 1..Len(captured) : captured'[i] = captured[i]
        /\ Len(captured) \in Nat
    BY <2>1, Added DEF WalkTyped
  <2>4. \A i \in DOMAIN captured' : SuitsPage(document, captured'[i].rows)
    <3> TAKE i \in DOMAIN captured'
    <3>1. i \in 1..Len(captured) \/ i = Len(captured) + 1 BY <2>3
    <3> QED BY <2>2, <2>3, <3>1
  <2> QED BY <2>1, <2>4
<1>3. CASE Reported
  <2>1. UNCHANGED <<document, rows, captured>> BY <1>3 DEF Reported, shown
  <2>2. AnswerFit(DisambiguateDuplicateRefs(
          rows \o FlattenSeq([i \in DOMAIN captured |-> RowsOf(captured[i])])))
    BY AnswerIsFit DEF WalkTyped
  <2>3. AnswerFit(answer') BY <2>2, <1>3 DEF Reported
  <2> QED BY <2>1, <2>3
<1>4. CASE ~ReadTop /\ ~CaptureFrame /\ ~Reported
  <2>1. UNCHANGED <<document, rows, captured, answer>>
    BY <1>4 DEF FrameNext, Attach, Detach, BeginFrames, NextWave, OutOfBudget, PassOver,
                List, ListedAll, Visit, VisitFails, look, shown, frameVars
  <2> QED BY <2>1
<1> QED BY <1>1, <1>2, <1>3, <1>4

(* Whatever a page shows and whichever frames come and go: what a read       *)
(* reports is fit for use.  Its locators lead back to their elements and can *)
(* be written, and no two of its rows share a ref.                           *)
THEOREM ReadsAreFit ==
  ASSUME NoneIsNothing, Captured
  PROVE  FrameSpec => []FitForUse
<1> DEFINE Inv == WalkTyped /\ Looking /\ ReadFit
<1>1. FrameInit => Inv
  <2> SUFFICES ASSUME FrameInit PROVE Inv OBVIOUS
  <2>1. WalkTyped BY FramesAssumption DEF FrameInit, WalkTyped, Shown
  <2>2. Looking BY DEF FrameInit, Looking
  <2>3. ReadFit
    <3>1. rows = <<>> /\ captured = <<>> /\ answer = <<>> BY DEF FrameInit
    <3>2. AnswerFit(<<>>) BY DEF AnswerFit, RefsApart
    <3> QED BY <3>1, <3>2, NothingFits DEF ReadFit
  <2> QED BY <2>1, <2>2, <2>3
<1>2. Inv /\ [FrameNext]_frameVars => Inv' BY WalkTypes, LooksOn, FitsOn
<1>3. Inv => FitForUse BY DEF ReadFit, SuitsPage, AnswerFit, FitForUse
<1> QED BY <1>1, <1>2, <1>3, PTL DEF FrameSpec

==============================================================================
