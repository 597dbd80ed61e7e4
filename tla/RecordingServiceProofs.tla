----------------------- MODULE RecordingServiceProofs -----------------------
(***************************************************************************)
(* Theorems about RecordingService, for any elements, addresses and        *)
(* bounds.  RecordingInv is inductive.  What handling a report does to the *)
(* entry is put together from what the store's operations do to it: each   *)
(* of them keeps or cuts the front of the list and adds to its end.        *)
(***************************************************************************)
EXTENDS RecordingService, TLAPS, WellFoundedInduction

-----------------------------------------------------------------------------
(* Steps and entries.                                                      *)

LEMMA PagesAreNamed == Main \in Pages /\ Popup \in Pages /\ Main # Popup /\ None \notin Pages
BY RecordingAssumption DEF RecordingAssumption, Pages

(* A listed step is the step, without a picture.                           *)
LEMMA ListedIsRow ==
  ASSUME NEW s \in Steps
  PROVE  /\ Listed(s) \in Rows /\ Plain(Listed(s)) = s /\ Listed(s).pic = None
         /\ Listed(s).act = s.act /\ Listed(s).at = s.at /\ Listed(s).on = s.on
BY DEF Listed, Plain, ToStep, Steps, Rows

LEMMA RowIsStep ==
  ASSUME NEW x \in Rows
  PROVE  /\ Plain(x) \in Steps
         /\ Plain(x).act = x.act /\ Plain(x).at = x.at /\ Plain(x).on = x.on
BY DEF Plain, ToStep, Steps, Rows

LEMMA EntryFields ==
  ASSUME NEW r \in Recordings
  PROVE  /\ r.status \in {"recording", "review"} /\ r.by \in {"human", "agent"}
         /\ r.paused \in BOOLEAN /\ r.last \in Pages \cup {None} /\ r.steps \in Seq(Rows)
         /\ Len(r.steps) \in Nat /\ DOMAIN r.steps = 1..Len(r.steps)
         /\ \A n \in 1..Len(r.steps) : r.steps[n] \in Rows
BY DEF Recordings

(* s comes at the end of the list of q.                                    *)
Lengthens(q, r, s) ==
  /\ r \in Recordings /\ r.status = q.status /\ r.by = q.by
  /\ Len(r.steps) = Len(q.steps) + 1 /\ r.steps[Len(q.steps) + 1] = Listed(s)
  /\ \A n \in 1..Len(q.steps) : r.steps[n] = q.steps[n]
Adds(q, r, s) == Lengthens(q, r, s) /\ r.paused = q.paused /\ r.last = q.last

LEMMA AddAdds ==
  ASSUME NEW q \in Recordings, q.status = "recording", NEW s \in Steps
  PROVE  Adds(q, Add(q, s), s)
<1>1. Listed(s) \in Rows
  BY ListedIsRow
<1>2. q.steps \in Seq(Rows)
  BY EntryFields
<1>3. PICK l : l = Append(q.steps, Listed(s))
  OBVIOUS
<1>4. l \in Seq(Rows) /\ Len(l) = Len(q.steps) + 1 /\ l[Len(q.steps) + 1] = Listed(s)
      /\ \A n \in 1..Len(q.steps) : l[n] = q.steps[n]
  BY <1>1, <1>2, <1>3
<1>5. Add(q, s) = [q EXCEPT !.steps = l]
  BY <1>3 DEF Add
<1>6. PICK r : r = Add(q, s)
  OBVIOUS
<1>7. r \in Recordings /\ r.status = q.status /\ r.by = q.by /\ r.paused = q.paused
      /\ r.last = q.last /\ r.steps = l
  BY <1>4, <1>5, <1>6 DEF Recordings
<1> QED BY <1>4, <1>6, <1>7 DEF Adds, Lengthens

(* How an entry q may have become r while a report was handled: a step of  *)
(* the list stays where it is or is a removed click, at an element of D,   *)
(* and a new one has no picture.                                           *)
Evolves(q, r, D) ==
  /\ r \in Recordings /\ r.status = q.status /\ r.by = q.by
  /\ \A n \in 1..Len(q.steps) : \/ n <= Len(r.steps) /\ r.steps[n] = q.steps[n]
                                \/ q.steps[n].act = "click" /\ q.steps[n].at \in D
  /\ \A n \in 1..Len(r.steps) : \/ n <= Len(q.steps) /\ r.steps[n] = q.steps[n]
                                \/ r.steps[n].pic = None

LEMMA EvolvesAgain ==
  ASSUME NEW q \in Recordings, NEW r \in Recordings, NEW s, NEW D,
         Evolves(q, r, D), Evolves(r, s, D)
  PROVE  Evolves(q, s, D)
<1>1. s \in Recordings /\ s.status = q.status /\ s.by = q.by
  BY DEF Evolves
<1>2. Len(q.steps) \in Nat /\ Len(r.steps) \in Nat /\ Len(s.steps) \in Nat
  BY <1>1, EntryFields
<1>3. ASSUME NEW n \in 1..Len(q.steps)
      PROVE  \/ n <= Len(s.steps) /\ s.steps[n] = q.steps[n]
             \/ q.steps[n].act = "click" /\ q.steps[n].at \in D
  <2>1. CASE n <= Len(r.steps) /\ r.steps[n] = q.steps[n]
    <3>1. n \in 1..Len(r.steps)
      BY <1>2, <2>1
    <3> QED BY <2>1, <3>1 DEF Evolves
  <2> QED BY <2>1 DEF Evolves
<1>4. ASSUME NEW n \in 1..Len(s.steps)
      PROVE  \/ n <= Len(q.steps) /\ s.steps[n] = q.steps[n]
             \/ s.steps[n].pic = None
  <2>1. CASE n <= Len(r.steps) /\ s.steps[n] = r.steps[n]
    <3>1. n \in 1..Len(r.steps)
      BY <1>2, <2>1
    <3> QED BY <2>1, <3>1 DEF Evolves
  <2> QED BY <2>1 DEF Evolves
<1> QED BY <1>1, <1>3, <1>4 DEF Evolves

LEMMA LengthensEvolves ==
  ASSUME NEW q \in Recordings, NEW r, NEW s \in Steps, NEW D, Lengthens(q, r, s)
  PROVE  Evolves(q, r, D)
<1>1. Len(q.steps) \in Nat
  BY EntryFields
<1>2. Listed(s).pic = None
  BY ListedIsRow
<1>3. \A n \in 1..Len(r.steps) : n \in 1..Len(q.steps) \/ n = Len(q.steps) + 1
  BY <1>1 DEF Lengthens
<1> QED BY <1>1, <1>2, <1>3 DEF Lengthens, Evolves

-----------------------------------------------------------------------------
(* Pages and switches.                                                     *)

(* Which pieces of a longer list have no switch.                           *)
LEMMA NoSwitchLengthened ==
  ASSUME NEW q \in Recordings, NEW r, NEW s \in Steps, Lengthens(q, r, s),
         NEW m \in 1..Len(q.steps)
  PROVE  /\ NoSwitch(r, m, Len(r.steps)) <=> NoSwitch(q, m, Len(q.steps)) /\ s.act # "switch"
         /\ \A n \in m + 1 .. Len(q.steps) : NoSwitch(r, m, n) <=> NoSwitch(q, m, n)
<1>1. Len(q.steps) \in Nat /\ m \in Nat /\ Len(r.steps) = Len(q.steps) + 1
  BY EntryFields DEF Lengthens
<1>2. r.steps[Len(q.steps) + 1].act = s.act
  BY ListedIsRow DEF Lengthens
<1>3. ASSUME NEW n \in m + 1 .. Len(q.steps) PROVE NoSwitch(r, m, n) <=> NoSwitch(q, m, n)
  <2>1. \A k \in m + 1 .. n : k \in 1..Len(q.steps)
    BY <1>1
  <2> QED BY <2>1 DEF NoSwitch, Lengthens
<1>4. NoSwitch(r, m, Len(r.steps)) <=> NoSwitch(q, m, Len(q.steps)) /\ s.act # "switch"
  <2>1. \A k : k \in m + 1 .. Len(r.steps) <=>
                 k \in m + 1 .. Len(q.steps) \/ k = Len(q.steps) + 1
    BY <1>1
  <2>2. \A k \in m + 1 .. Len(q.steps) : k \in 1..Len(q.steps)
    BY <1>1
  <2> QED BY <1>2, <2>1, <2>2 DEF NoSwitch, Lengthens
<1> QED BY <1>3, <1>4

(* A switch, or a step of the page that was noted last, keeps the list     *)
(* attributable; page is the page noted last in the longer list.           *)
LEMMA LengthensAttributable ==
  ASSUME NEW q \in Recordings, NEW r, NEW s \in Steps, Lengthens(q, r, s), Attributable(q),
         \/ s.act # "switch" /\ r.last = q.last
         \/ s.act = "switch" /\ s.on # None /\ q.by = "human",
         \/ s.on = None
         \/ q.by = "human" /\ s.on = r.last
         \/ q.by = "agent" /\ s.on = Main
  PROVE  Attributable(r)
<1>1. Len(q.steps) \in Nat /\ Len(r.steps) = Len(q.steps) + 1 /\ r.by = q.by
      /\ r.by \in {"human", "agent"}
  BY EntryFields DEF Lengthens
<1>2. DOMAIN r.steps = 1..Len(r.steps) /\ DOMAIN q.steps = 1..Len(q.steps)
  BY EntryFields DEF Lengthens
<1>3. LET x == r.steps[Len(q.steps) + 1] IN x.act = s.act /\ x.on = s.on
  BY ListedIsRow DEF Lengthens
<1> DEFINE Right(m) ==
      /\ r.steps[m].act = "switch" => r.steps[m].on # None
      /\ r.by = "agent" => r.steps[m].on \in {None, Main}
      /\ r.by = "human" /\ r.steps[m].on # None =>
           /\ NoSwitch(r, m, Len(r.steps)) => r.steps[m].on = r.last
           /\ \A n \in m + 1 .. Len(r.steps) :
                r.steps[n].on # None /\ NoSwitch(r, m, n) => r.steps[m].on = r.steps[n].on
<1>4. ASSUME NEW m \in 1..Len(q.steps) PROVE Right(m)
  <2>1. r.steps[m] = q.steps[m]
    BY DEF Lengthens
  <2>2. /\ NoSwitch(r, m, Len(r.steps)) <=> NoSwitch(q, m, Len(q.steps)) /\ s.act # "switch"
        /\ \A n \in m + 1 .. Len(q.steps) : NoSwitch(r, m, n) <=> NoSwitch(q, m, n)
    BY NoSwitchLengthened
  <2>3. /\ r.steps[m].act = "switch" => r.steps[m].on # None
        /\ r.by = "agent" => r.steps[m].on \in {None, Main}
    BY <1>1, <1>2, <2>1 DEF Attributable
  <2>4. ASSUME r.by = "human", r.steps[m].on # None, NoSwitch(r, m, Len(r.steps))
        PROVE  r.steps[m].on = r.last
    BY <1>1, <1>2, <2>1, <2>2, <2>4 DEF Attributable
  <2>5. ASSUME r.by = "human", r.steps[m].on # None, NEW n \in m + 1 .. Len(r.steps),
               r.steps[n].on # None, NoSwitch(r, m, n)
        PROVE  r.steps[m].on = r.steps[n].on
    <3>1. CASE n = Len(q.steps) + 1
      <4>1. n = Len(r.steps) /\ r.steps[n].on = s.on
        BY <1>1, <1>3, <3>1
      <4> QED BY <1>1, <2>4, <2>5, <4>1
    <3>2. CASE n # Len(q.steps) + 1
      <4>1. n \in m + 1 .. Len(q.steps) /\ n \in 1..Len(q.steps)
        BY <1>1, <3>2
      <4>2. r.steps[n] = q.steps[n]
        BY <4>1 DEF Lengthens
      <4> QED BY <1>1, <1>2, <2>1, <2>2, <2>5, <4>1, <4>2 DEF Attributable
    <3> QED BY <3>1, <3>2
  <2> QED BY <2>3, <2>4, <2>5
<1>5. Right(Len(q.steps) + 1)
  <2>1. \A n : n \notin Len(q.steps) + 1 + 1 .. Len(r.steps)
    BY <1>1
  <2>2. s.act = "switch" => s.on # None
    BY <1>1
  <2>3. NoSwitch(r, Len(q.steps) + 1, Len(r.steps))
    BY <2>1 DEF NoSwitch
  <2> QED BY <1>1, <1>3, <2>1, <2>2, PagesAreNamed
<1>6. \A m \in DOMAIN r.steps : m \in 1..Len(q.steps) \/ m = Len(q.steps) + 1
  BY <1>1, <1>2
<1>7. \A m \in DOMAIN r.steps : Right(m)
  BY <1>4, <1>5, <1>6
<1> QED BY <1>7 DEF Attributable

(* The page changed from q to r and no switch says so.                     *)
Unsaid(q, r) ==
  /\ r.last # q.last /\ q.last # None
  /\ \A n \in 1..Len(r.steps) : n > Len(q.steps) => r.steps[n].act # "switch"

(* What the handling of a report makes of q, at any point of it.           *)
Handled(q, r, D) ==
  /\ Evolves(q, r, D)
  /\ Attributable(q) => Attributable(r) \/ Unsaid(q, r)

LEMMA HandledNothing ==
  ASSUME NEW q \in Recordings, NEW D
  PROVE  Handled(q, q, D)
BY EntryFields DEF Handled, Evolves

LEMMA HandledAdd ==
  ASSUME NEW q \in Recordings, NEW r \in Recordings, NEW D, Handled(q, r, D),
         r.status = "recording", NEW s \in Steps, s.act # "switch",
         \/ s.on = None
         \/ q.by = "human" /\ s.on = r.last
         \/ q.by = "agent" /\ s.on = Main
  PROVE  /\ Handled(q, Add(r, s), D) /\ Adds(r, Add(r, s), s)
         /\ Add(r, s) \in Recordings
<1>1. PICK z : z = Add(r, s)
  OBVIOUS
<1>2. Adds(r, z, s) /\ z \in Recordings /\ Lengthens(r, z, s)
  BY <1>1, AddAdds DEF Adds, Lengthens
<1>3. Evolves(q, z, D)
  BY <1>2, LengthensEvolves, EvolvesAgain DEF Handled
<1>4. r.by = q.by /\ z.last = r.last
  BY <1>2 DEF Handled, Evolves, Adds
<1>5. ASSUME Attributable(r) PROVE Attributable(z)
  BY <1>2, <1>4, <1>5, LengthensAttributable
<1>6. ASSUME Unsaid(q, r) PROVE Unsaid(q, z)
  <2>1. Len(r.steps) \in Nat /\ Len(q.steps) \in Nat /\ Len(z.steps) = Len(r.steps) + 1
    BY <1>2, EntryFields DEF Lengthens
  <2>2. \A n \in 1..Len(z.steps) : n \in 1..Len(r.steps) \/ n = Len(r.steps) + 1
    BY <2>1
  <2>3. z.steps[Len(r.steps) + 1].act # "switch"
    BY <1>2, ListedIsRow DEF Lengthens
  <2>4. \A n \in 1..Len(r.steps) : z.steps[n] = r.steps[n]
    BY <1>2 DEF Lengthens
  <2> QED BY <1>4, <1>6, <2>2, <2>3, <2>4 DEF Unsaid
<1>7. Attributable(q) => Attributable(z) \/ Unsaid(q, z)
  BY <1>5, <1>6 DEF Handled
<1> QED BY <1>1, <1>2, <1>3, <1>7 DEF Handled

(* Noting a page leaves the list alone.                                    *)
LEMMA NotedFacts ==
  ASSUME NEW r \in Recordings, NEW p \in Pages
  PROVE  LET z == [r EXCEPT !.last = p]
         IN  /\ z \in Recordings /\ z.last = p /\ z.steps = r.steps
             /\ z.status = r.status /\ z.by = r.by /\ z.paused = r.paused
BY DEF Recordings

LEMMA HandledNoted ==
  ASSUME NEW q \in Recordings, NEW r \in Recordings, NEW D, Handled(q, r, D),
         r.last = q.last, r.status = "recording", NEW p \in Pages, r.last # p, r.by = "human",
         \A n \in 1..Len(r.steps) : n > Len(q.steps) => r.steps[n].act # "switch",
         NEW z, z = [r EXCEPT !.last = p]
  PROVE  /\ Handled(q, z, D)
         /\ Handled(q, Add(z, ToStep("switch", p, p)), D)
         /\ Adds(z, Add(z, ToStep("switch", p, p)), ToStep("switch", p, p))
<1>1. /\ z \in Recordings /\ z.last = p /\ z.steps = r.steps
      /\ z.status = r.status /\ z.by = r.by /\ z.paused = r.paused
  BY NotedFacts
<1>2. Evolves(q, z, D)
  BY <1>1 DEF Handled, Evolves
<1>3. Handled(q, z, D)
  <2>1. CASE q.last # None
    <3>1. Unsaid(q, z)
      BY <1>1, <2>1 DEF Unsaid
    <3> QED BY <1>2, <3>1 DEF Handled
  <2>2. CASE q.last = None
    <3>1. ~Unsaid(q, r)
      BY DEF Unsaid
    <3>2. ASSUME Attributable(r) PROVE Attributable(z)
      <4>1. \A m, n : NoSwitch(z, m, n) <=> NoSwitch(r, m, n)
        BY <1>1 DEF NoSwitch
      <4>2. \A m \in DOMAIN r.steps : r.steps[m].on # None => ~NoSwitch(r, m, Len(r.steps))
        BY <2>2, <3>2 DEF Attributable
      <4> QED BY ONLY <1>1, <3>2, <4>1, <4>2, r.by = "human" DEF Attributable
    <3> QED BY <1>2, <3>1, <3>2 DEF Handled
  <2> QED BY <2>1, <2>2
<1>4. PICK s : s = ToStep("switch", p, p)
  OBVIOUS
<1>5. s \in Steps /\ s.act = "switch" /\ s.on = p
  BY <1>4 DEF ToStep, Steps, Acts, Places
<1>6. PICK w : w = Add(z, s)
  OBVIOUS
<1>7. Adds(z, w, s) /\ w \in Recordings /\ w.last = p
  BY <1>1, <1>5, <1>6, AddAdds, ZenonT(40) DEF Adds, Lengthens
<1>8. Lengthens(r, w, s)
  BY <1>1, <1>7 DEF Adds, Lengthens
<1>9. Evolves(q, w, D)
  BY <1>5, <1>7, <1>8, LengthensEvolves, EvolvesAgain DEF Handled
<1>10. ASSUME Attributable(r) PROVE Attributable(w)
  BY <1>5, <1>7, <1>8, <1>10, LengthensAttributable, PagesAreNamed
<1>11. ~Unsaid(q, r)
  BY DEF Unsaid
<1>12. Handled(q, w, D)
  BY <1>9, <1>10, <1>11 DEF Handled
<1> QED BY <1>3, <1>4, <1>6, <1>7, <1>12

(* attributePageIfChanged, in front of anything but a switch.              *)
LEMMA HandledAttributed ==
  ASSUME NEW q \in Recordings, NEW r \in Recordings, NEW D, Handled(q, r, D),
         r.last = q.last, r.status = "recording", NEW p \in Pages,
         \A n \in 1..Len(r.steps) : n > Len(q.steps) => r.steps[n].act # "switch"
  PROVE  /\ Handled(q, Attributed(r, p), D) /\ Attributed(r, p) \in Recordings
         /\ Attributed(r, p).status = "recording" /\ Attributed(r, p).by = q.by
         /\ q.by = "human" => Attributed(r, p).last = p
<1>1. r.by = q.by /\ r.by \in {"human", "agent"}
  BY EntryFields DEF Handled, Evolves
<1>2. CASE ~ChangesPage(r, p)
  <2>1. Attributed(r, p) = r
    BY <1>2 DEF Attributed, Switches
  <2>2. r.by = "human" => r.last = p
    BY <1>2 DEF ChangesPage
  <2> QED BY <1>1, <2>1, <2>2
<1>3. CASE ChangesPage(r, p)
  <2>1. r.by = "human" /\ r.last # p
    BY <1>3 DEF ChangesPage
  <2>2. PICK z : z = [r EXCEPT !.last = p]
    OBVIOUS
  <2>3. PICK w : w = Add(z, ToStep("switch", p, p))
    OBVIOUS
  <2>4. Handled(q, z, D) /\ Handled(q, w, D) /\ Adds(z, w, ToStep("switch", p, p))
    BY <2>1, <2>2, <2>3, HandledNoted
  <2>5. z \in Recordings /\ z.last = p /\ z.status = "recording" /\ z.by = q.by
    BY <1>1, <2>2, NotedFacts
  <2>6. w \in Recordings /\ w.last = p /\ w.status = "recording" /\ w.by = q.by
    BY <2>4, <2>5 DEF Adds, Lengthens
  <2>7. Attributed(r, p) \in {z, w}
    BY <1>3, <2>2, <2>3 DEF Attributed
  <2> QED BY <2>4, <2>5, <2>6, <2>7
<1> QED BY <1>2, <1>3

-----------------------------------------------------------------------------
(* The clicks a double click replaces.                                     *)

(* A set of numbers has a least one.                                       *)
LEMMA LeastNumber ==
  ASSUME NEW S \in SUBSET Nat, S # {}
  PROVE  \E x \in S : \A y \in S : x <= y
<1> DEFINE Less == {p \in Nat \X Nat : p[1] < p[2]}
<1>1. IsWellFoundedOn(Less, Nat)
  BY NatLessThanWellFounded DEF OpToRel
<1>2. \E x \in S : \A y \in S : ~(<<y, x>> \in Less)
  BY <1>1, WFMin, Zenon
<1>3. PICK x \in S : \A y \in S : ~(<<y, x>> \in Less)
  BY <1>2
<1>4. ASSUME NEW y \in S PROVE x <= y
  <2>1. x \in Nat /\ y \in Nat
    OBVIOUS
  <2>2. y < x => <<y, x>> \in Less
    BY <2>1
  <2>3. QED
    BY <1>3, <2>1, <2>2
<1>5. QED
  BY <1>4

(* The run of clicks on t that ends the list begins after some k.          *)
LEMMA RunOfClicks ==
  ASSUME NEW r \in Recordings, NEW t
  PROVE  \E k \in 0..Len(r.steps) :
           /\ \A n \in k + 1 .. Len(r.steps) : r.steps[n].act = "click" /\ r.steps[n].at = t
           /\ k > 0 => ~(r.steps[k].act = "click" /\ r.steps[k].at = t)
<1> DEFINE IsClick(n) == r.steps[n].act = "click" /\ r.steps[n].at = t
           S == {k \in 0..Len(r.steps) : \A n \in k + 1 .. Len(r.steps) : IsClick(n)}
<1>1. Len(r.steps) \in Nat
  BY EntryFields
<1>2. Len(r.steps) \in S
  BY <1>1
<1>3. PICK k \in S : \A j \in S : k <= j
  BY <1>2, LeastNumber, S \in SUBSET Nat
<1>4. ASSUME k > 0, IsClick(k) PROVE FALSE
  <2>1. k - 1 \in 0..Len(r.steps) /\ k \in Nat
    BY <1>1, <1>4
  <2>2. \A n \in (k - 1) + 1 .. Len(r.steps) : n = k \/ n \in k + 1 .. Len(r.steps)
    BY <1>1, <2>1
  <2>3. k - 1 \in S
    BY <1>4, <2>1, <2>2
  <2>4. k <= k - 1
    BY <1>3, <2>3
  <2> QED BY <2>1, <2>4
<1> QED BY <1>3, <1>4

(* dedupClicksBeforeDblclick takes clicks on t off the end, and nothing    *)
(* else.                                                                   *)
LEMMA DedupedFacts ==
  ASSUME NEW r \in Recordings, NEW t
  PROVE  LET z == Deduped(r, t)
         IN  /\ z \in Recordings /\ z.status = r.status /\ z.by = r.by
             /\ z.last = r.last /\ Len(z.steps) <= Len(r.steps)
             /\ \A n \in 1..Len(z.steps) : z.steps[n] = r.steps[n]
             /\ \A n \in Len(z.steps) + 1 .. Len(r.steps) :
                  r.steps[n].act = "click" /\ r.steps[n].at = t
<1> DEFINE IsClick(n) == r.steps[n].act = "click" /\ r.steps[n].at = t
           Front(k) == /\ \A n \in k + 1 .. Len(r.steps) : IsClick(n)
                       /\ k > 0 => ~IsClick(k)
<1>1. PICK k : k = CHOOSE j \in 0..Len(r.steps) : Front(j)
  OBVIOUS
<1>2. k \in 0..Len(r.steps) /\ Front(k)
  <2>1. \E j \in 0..Len(r.steps) : Front(j)
    BY RunOfClicks
  <2> HIDE DEF Front
  <2> QED BY <1>1, <2>1
<1>3. r.steps \in Seq(Rows) /\ Len(r.steps) \in Nat /\ k \in 0..Len(r.steps)
  BY <1>2, EntryFields
<1>4. PICK l : l = SubSeq(r.steps, 1, k)
  OBVIOUS
<1>5. l \in Seq(Rows) /\ Len(l) = k /\ \A n \in 1..k : l[n] = r.steps[n]
  BY <1>3, <1>4
<1>6. Deduped(r, t) = [r EXCEPT !.steps = l]
  BY <1>1, <1>4 DEF Deduped
<1>7. PICK z : z = Deduped(r, t)
  OBVIOUS
<1>8. z \in Recordings /\ z.status = r.status /\ z.by = r.by /\ z.last = r.last /\ z.steps = l
  BY <1>5, <1>6, <1>7 DEF Recordings
<1> QED BY <1>2, <1>3, <1>5, <1>7, <1>8

LEMMA HandledDeduped ==
  ASSUME NEW q \in Recordings, NEW r \in Recordings, NEW D, Handled(q, r, D), NEW t \in D
  PROVE  /\ Handled(q, Deduped(r, t), D) /\ Deduped(r, t) \in Recordings
         /\ Deduped(r, t).status = r.status /\ Deduped(r, t).last = r.last
<1>1. PICK z : z = Deduped(r, t)
  OBVIOUS
<1>2. /\ z \in Recordings /\ z.status = r.status /\ z.by = r.by
      /\ z.last = r.last /\ Len(z.steps) <= Len(r.steps)
      /\ \A n \in 1..Len(z.steps) : z.steps[n] = r.steps[n]
      /\ \A n \in Len(z.steps) + 1 .. Len(r.steps) :
           r.steps[n].act = "click" /\ r.steps[n].at = t
  BY <1>1, DedupedFacts
<1>3. /\ Len(z.steps) \in Nat /\ Len(r.steps) \in Nat
      /\ DOMAIN z.steps = 1..Len(z.steps) /\ DOMAIN r.steps = 1..Len(r.steps)
  BY <1>2, EntryFields
<1>4. /\ \A n \in 1..Len(r.steps) : n \in 1..Len(z.steps) \/ n \in Len(z.steps) + 1 .. Len(r.steps)
      /\ \A n \in 1..Len(z.steps) : n \in 1..Len(r.steps)
  BY <1>2, <1>3
<1>5. Evolves(q, z, D)
  <2>1. Evolves(r, z, D)
    <3>1. \A n \in 1..Len(z.steps) : n <= Len(r.steps)
      BY <1>4
    <3>2. \A n \in 1..Len(z.steps) : n <= Len(z.steps)
      BY <1>3
    <3> QED BY <1>2, <1>4, <3>1, <3>2 DEF Evolves
  <2> QED BY <2>1, EvolvesAgain DEF Handled
<1>6. ASSUME Unsaid(q, r) PROVE Unsaid(q, z)
  BY <1>2, <1>4, <1>6 DEF Unsaid
<1>7. ASSUME Attributable(r) PROVE Attributable(z)
  <2> SUFFICES ASSUME NEW m \in 1..Len(z.steps)
      PROVE /\ z.steps[m].act = "switch" => z.steps[m].on # None
            /\ z.by = "agent" => z.steps[m].on \in {None, Main}
            /\ z.by = "human" /\ z.steps[m].on # None =>
                 /\ NoSwitch(z, m, Len(z.steps)) => z.steps[m].on = z.last
                 /\ \A n \in m + 1 .. Len(z.steps) :
                      z.steps[n].on # None /\ NoSwitch(z, m, n) => z.steps[m].on = z.steps[n].on
    BY <1>3 DEF Attributable
  <2>1. m \in DOMAIN r.steps /\ z.steps[m] = r.steps[m]
    BY <1>2, <1>3, <1>4
  <2>2. \A n \in m + 1 .. Len(z.steps) :
          /\ n \in m + 1 .. Len(r.steps) /\ z.steps[n] = r.steps[n]
          /\ NoSwitch(z, m, n) <=> NoSwitch(r, m, n)
    <3>1. \A n \in m + 1 .. Len(z.steps) :
            /\ n \in m + 1 .. Len(r.steps) /\ n \in 1..Len(z.steps)
            /\ \A k \in m + 1 .. n : k \in 1..Len(z.steps)
      BY <1>2, <1>3
    <3> QED BY <1>2, <3>1 DEF NoSwitch
  <2>3. NoSwitch(z, m, Len(z.steps)) => NoSwitch(r, m, Len(r.steps))
    <3>1. \A k \in m + 1 .. Len(r.steps) :
            \/ k \in m + 1 .. Len(z.steps) /\ k \in 1..Len(z.steps)
            \/ k \in Len(z.steps) + 1 .. Len(r.steps)
      BY <1>2, <1>3
    <3> QED BY <1>2, <3>1 DEF NoSwitch
  <2> QED BY <1>2, <1>7, <2>1, <2>2, <2>3 DEF Attributable
<1>8. Attributable(q) => Attributable(z) \/ Unsaid(q, z)
  BY <1>6, <1>7 DEF Handled
<1> QED BY <1>1, <1>2, <1>5, <1>8 DEF Handled

-----------------------------------------------------------------------------
(* The new entry is stored, its new steps are published and pictured.      *)

(* A step that was replaced is a removed click.                            *)
LEMMA ReplacedIsRemoved ==
  ASSUME TypeOK, rec # None, NEW r, NEW D, Evolves(rec, r, D), NEW n \in 1..Len(rec.steps),
         ~(n <= Len(r.steps) /\ Plain(r.steps[n]) = Plain(rec.steps[n]))
  PROVE  Plain(rec.steps[n]).act = "click" /\ Plain(rec.steps[n]).at \in D
<1>1. rec \in Recordings
  BY DEF TypeOK
<1>2. rec.steps[n] \in Rows
  BY <1>1, EntryFields
<1>3. rec.steps[n].act = "click" /\ rec.steps[n].at \in D
  BY DEF Evolves
<1> QED BY <1>2, <1>3, RowIsStep

LEMMA StoredKeepsTypes ==
  ASSUME RecordingInv, rec # None, NEW r \in Recordings, NEW agent \in BOOLEAN,
         Fits(r), rec' = r, Publish(r, agent), Shoot(r, agent)
  PROVE  /\ rec' \in Recordings /\ Len(rec'.steps) <= MaxSteps
         /\ shots' \in SUBSET Captures /\ told' \in [1..MaxSteps -> Steps \cup {None}]
         /\ \A n \in DOMAIN r.steps : n \in 1..MaxSteps /\ Plain(r.steps[n]) \in Steps
<1>1. /\ DOMAIN r.steps = 1..Len(r.steps) /\ Len(r.steps) \in Nat /\ Len(r.steps) <= MaxSteps
      /\ \A n \in DOMAIN r.steps : r.steps[n] \in Rows
  BY EntryFields DEF Fits
<1>2. MaxSteps \in Nat
  BY RecordingAssumption DEF RecordingAssumption
<1>3. \A n \in DOMAIN r.steps : n \in 1..MaxSteps /\ Plain(r.steps[n]) \in Steps
  BY <1>1, <1>2, RowIsStep
<1>4. told' \in [1..MaxSteps -> Steps \cup {None}]
  <2>1. told \in [1..MaxSteps -> Steps \cup {None}]
    BY DEF RecordingInv, TypeOK
  <2>2. \A n \in Entering(r) : Plain(r.steps[n]) \in Steps
    BY <1>3 DEF Entering
  <2> QED BY <2>1, <2>2 DEF Publish
<1>5. shots' \in SUBSET Captures
  <2>1. \A n \in Entering(r) : n \in 1..MaxSteps /\ Plain(r.steps[n]) \in Steps
    BY <1>3 DEF Entering
  <2>2. shots \in SUBSET Captures
    BY DEF RecordingInv, TypeOK
  <2>3. ASSUME NEW n \in 1..MaxSteps, NEW s \in Steps
        PROVE  [seq |-> n, for |-> s, agent |-> agent, old |-> FALSE] \in Captures
    BY <2>3 DEF Captures
  <2> QED BY <2>1, <2>2, <2>3 DEF Shoot
<1> QED BY <1>1, <1>3, <1>4, <1>5

LEMMA StoredKeepsPictures ==
  ASSUME RecordingInv, rec # None, NEW r, Evolves(rec, r, doubled'), rec' = r,
         doubled \subseteq doubled'
  PROVE  PictureIsOwn'
<1> SUFFICES ASSUME NEW n \in 1..Len(r.steps)
             PROVE  \/ r.steps[n].pic = None \/ r.steps[n].pic.for = Plain(r.steps[n])
                    \/ r.steps[n].pic.old \/ Removable(r.steps[n].pic.for)'
  <2>1. DOMAIN r.steps = 1..Len(r.steps)
    BY EntryFields DEF Evolves
  <2> QED BY <2>1 DEF PictureIsOwn
<1>1. CASE r.steps[n].pic = None
  BY <1>1
<1>2. CASE n <= Len(rec.steps) /\ r.steps[n] = rec.steps[n]
  <2>1. rec \in Recordings
    BY DEF RecordingInv, TypeOK
  <2>2. n \in DOMAIN rec.steps
    BY <1>2, <2>1, EntryFields
  <2>3. \/ r.steps[n].pic = None \/ r.steps[n].pic.for = Plain(r.steps[n])
        \/ r.steps[n].pic.old \/ Removable(r.steps[n].pic.for)
    BY <1>2, <2>2 DEF RecordingInv, PictureIsOwn
  <2> QED BY <2>3 DEF Removable
<1> QED BY <1>1, <1>2 DEF Evolves

LEMMA StoredKeepsCaptures ==
  ASSUME RecordingInv, rec # None, NEW r, NEW agent \in BOOLEAN, Evolves(rec, r, doubled'),
         rec' = r, Shoot(r, agent), doubled \subseteq doubled', shots' \in SUBSET Captures
  PROVE  CapturesFit'
<1> SUFFICES ASSUME NEW x \in shots'
             PROVE  \/ x.old \/ Removable(x.for)'
                    \/ x.seq <= Len(r.steps) /\ x.for = Plain(r.steps[x.seq])
  BY DEF CapturesFit
<1>1. rec \in Recordings
  BY DEF RecordingInv, TypeOK
<1>2. DOMAIN r.steps = 1..Len(r.steps) /\ Len(r.steps) \in Nat /\ Len(rec.steps) \in Nat
  BY <1>1, EntryFields DEF Evolves
<1>3. CASE x \in shots
  <2>1. CASE x.old \/ Removable(x.for)
    BY <2>1 DEF Removable
  <2>2. CASE x.seq <= Len(rec.steps) /\ x.for = Plain(rec.steps[x.seq])
    <3>1. x.seq \in Nat \ {0}
      BY <1>3 DEF RecordingInv, TypeOK, Captures
    <3>2. x.seq \in 1..Len(rec.steps)
      BY <1>2, <2>2, <3>1
    <3>3. CASE x.seq <= Len(r.steps) /\ Plain(r.steps[x.seq]) = Plain(rec.steps[x.seq])
      BY <2>2, <3>3
    <3>4. CASE ~(x.seq <= Len(r.steps) /\ Plain(r.steps[x.seq]) = Plain(rec.steps[x.seq]))
      <4>1. x.for.act = "click" /\ x.for.at \in doubled'
        BY <2>2, <3>2, <3>4, ReplacedIsRemoved DEF RecordingInv
      <4> QED BY <4>1 DEF Removable
    <3> QED BY <3>3, <3>4
  <2> QED BY <1>3, <2>1, <2>2 DEF RecordingInv, CapturesFit
<1>4. CASE x \notin shots
  <2>1. PICK n \in Entering(r) :
          x = [seq |-> n, for |-> Plain(r.steps[n]), agent |-> agent, old |-> FALSE]
    BY <1>4 DEF Shoot
  <2> QED BY <1>2, <2>1 DEF Entering
<1> QED BY <1>3, <1>4

LEMMA StoredIsTold ==
  ASSUME RecordingInv, rec # None, NEW r, NEW agent \in BOOLEAN, Evolves(rec, r, doubled'),
         rec' = r, Publish(r, agent), Shoot(r, agent), doubled \subseteq doubled',
         UNCHANGED strayed, agent => \A n \in Entering(r) : r.steps[n].act = "click"
  PROVE  TellsSteps'
<1>1. rec \in Recordings
  BY DEF RecordingInv, TypeOK
<1>2. /\ DOMAIN r.steps = 1..Len(r.steps) /\ Len(r.steps) \in Nat /\ Len(rec.steps) \in Nat
      /\ \A n \in DOMAIN r.steps : r.steps[n] \in Rows
  BY <1>1, EntryFields DEF Evolves
<1> DEFINE Telling(n) == n <= Len(r.steps) /\ told'[n] = Plain(r.steps[n])
           Removed(s) == s.act = "click" /\ s.at \in doubled'
           Waits(n) == \E x \in shots' : x.seq = n /\ x.for = Plain(r.steps[n])
<1>3. ASSUME ~strayed, NEW n \in 1..MaxSteps
      PROVE  /\ Telling(n) \/ told'[n] = None \/ Removed(told'[n])
             /\ n <= Len(r.steps) => Telling(n) \/ Waits(n)
  <2> DEFINE told1 == n <= Len(rec.steps) /\ told[n] = Plain(rec.steps[n])
  <2>1. /\ told1 \/ told[n] = None \/ Removed(told[n])
        /\ n <= Len(rec.steps) =>
             told1 \/ \E x \in shots : x.seq = n /\ x.for = Plain(rec.steps[n])
    BY <1>3 DEF RecordingInv, TellsSteps, Removable
  <2>2. /\ n \in DOMAIN r.steps <=> n <= Len(r.steps)
        /\ n \in DOMAIN rec.steps <=> n <= Len(rec.steps)
        /\ n <= Len(rec.steps) => n \in 1..Len(rec.steps)
    BY <1>1, <1>2, EntryFields
  <2>3. ASSUME told1, ~(n <= Len(r.steps) /\ Plain(r.steps[n]) = Plain(rec.steps[n]))
        PROVE  Removed(told[n])
    BY <2>2, <2>3, ReplacedIsRemoved DEF RecordingInv
  <2>4. CASE n \in Entering(r) /\ r.steps[n].act # "snapshot" /\ ~agent
    <3>1. told'[n] = Plain(r.steps[n])
      BY <2>4 DEF Publish
    <3> QED BY <2>2, <2>4, <3>1 DEF Entering
  <2>5. CASE n \in Entering(r) /\ ~(r.steps[n].act # "snapshot" /\ ~agent)
    <3>1. told'[n] = told[n]
      BY <2>5 DEF Publish
    <3>2. n \in DOMAIN r.steps /\ (n <= Len(rec.steps) => Plain(r.steps[n]) # Plain(rec.steps[n]))
      BY <2>5 DEF Entering
    <3>3. r.steps[n].act \in {"click", "snapshot"}
      BY <2>5
    <3>4. Waits(n)
      <4>1. [seq |-> n, for |-> Plain(r.steps[n]), agent |-> agent, old |-> FALSE] \in shots'
        BY <2>5, <3>3 DEF Shoot
      <4> QED BY <4>1
    <3> QED BY <2>1, <2>3, <3>1, <3>2, <3>4
  <2>6. CASE n \notin Entering(r)
    <3>1. told'[n] = told[n]
      BY <2>6 DEF Publish
    <3>2. CASE n <= Len(r.steps)
      <4>1. n <= Len(rec.steps) /\ Plain(r.steps[n]) = Plain(rec.steps[n])
        BY <2>2, <2>6, <3>2 DEF Entering
      <4>2. shots \subseteq shots'
        BY DEF Shoot
      <4> QED BY <2>1, <3>1, <3>2, <4>1, <4>2
    <3>3. CASE ~(n <= Len(r.steps))
      BY <2>1, <2>3, <3>1, <3>3
    <3> QED BY <3>2, <3>3
  <2> QED BY <2>4, <2>5, <2>6
<1> QED BY <1>3 DEF TellsSteps, Removable

(* What Store keeps, whatever the report was.                              *)
LEMMA StoreKeeps ==
  ASSUME RecordingInv, rec # None, NEW r, NEW agent \in BOOLEAN, Handled(rec, r, doubled'),
         Store(r, agent), doubled \subseteq doubled', doubled' \subseteq Targets,
         popup' \in BOOLEAN, starting' \in BOOLEAN, UNCHANGED rest,
         framed' \in SUBSET Steps, rec.by = "agent" => framed' = {},
         \A s \in framed' : s.act \in {"click", "dblclick"} /\ s.on # None,
         agent => \A n \in Entering(r) : r.steps[n].act = "click"
  PROVE  RecordingInv'
<1>1. /\ Fits(r) /\ rec' = r /\ Publish(r, agent) /\ Shoot(r, agent)
      /\ Evolves(rec, r, doubled') /\ UNCHANGED <<strayed, started>>
  BY DEF Store, Handled, rest
<1>2. r \in Recordings /\ r.by = rec.by
  BY <1>1 DEF Evolves
<1>3. /\ rec' \in Recordings /\ Len(rec'.steps) <= MaxSteps
      /\ shots' \in SUBSET Captures /\ told' \in [1..MaxSteps -> Steps \cup {None}]
  BY <1>1, <1>2, StoredKeepsTypes
<1>4. TypeOK'
  <2>1. missed' \in BOOLEAN
    BY DEF Store, RecordingInv, TypeOK
  <2>2. strayed' \in BOOLEAN /\ started' \in BOOLEAN
    BY <1>1 DEF RecordingInv, TypeOK
  <2> QED BY <1>3, <2>1, <2>2 DEF TypeOK
<1>5. PictureIsOwn' /\ CapturesFit'
  BY <1>1, <1>3, StoredKeepsPictures, StoredKeepsCaptures
<1>6. TellsSteps'
  BY <1>1, StoredIsTold
<1>7. PagesAreSaid'
  <2> SUFFICES ASSUME ~missed' PROVE Attributable(r)
    BY <1>1 DEF PagesAreSaid
  <2>1. ~missed /\ ~Unsaid(rec, r)
    <3>1. DOMAIN r.steps = 1..Len(r.steps)
      BY <1>2, EntryFields
    <3> QED BY <3>1 DEF Store, Unsaid
  <2>2. Attributable(rec)
    BY <2>1 DEF RecordingInv, PagesAreSaid
  <2> QED BY <2>1, <2>2 DEF Handled
<1>8. WaitsAreRight'
  BY <1>1, <1>2 DEF RecordingInv, WaitsAreRight
<1> QED BY <1>4, <1>5, <1>6, <1>7, <1>8 DEF RecordingInv

-----------------------------------------------------------------------------
(* Reports.                                                                *)

LEMMA RecordingIsEntry ==
  ASSUME RecordingInv, Is("recording")
  PROVE  rec \in Recordings /\ rec # None /\ rec.status = "recording"
         /\ \A D : Handled(rec, rec, D)
BY HandledNothing DEF RecordingInv, TypeOK, Is

(* What every report leaves as it is.                                      *)
LEMMA WaitsStay ==
  ASSUME RecordingInv
  PROVE  /\ framed \in SUBSET Steps /\ doubled \subseteq Targets
         /\ popup \in BOOLEAN /\ starting \in BOOLEAN
         /\ \A s \in framed : s.act \in {"click", "dblclick"} /\ s.on # None
         /\ rec # None /\ rec.by = "agent" => framed = {}
BY DEF RecordingInv, TypeOK, WaitsAreRight

(* The steps that reports are translated to.                               *)
LEMMA ReportedSteps ==
  ASSUME NEW p \in Pages \cup {None}
  PROVE  /\ \A act \in {"click", "dblclick"}, t \in Targets :
              LET s == ToStep(act, t, p)
              IN  s \in Steps /\ s.act = act /\ s.at = t /\ s.on = p
         /\ \A u \in Urls : LET s == ToStep("navigate", u, p)
                            IN  s \in Steps /\ s.act = "navigate" /\ s.on = p
         /\ LET s == ToStep("snapshot", None, p) IN s \in Steps /\ s.act = "snapshot" /\ s.on = p
         /\ LET s == ToStep("buffered", None, None)
            IN  s \in Steps /\ s.act = "buffered" /\ s.on = None
BY DEF ToStep, Steps, Acts, Places

(* A navigation is added unless it repeats the last step.                  *)
LEMMA HandledWent ==
  ASSUME NEW q \in Recordings, NEW r \in Recordings, NEW D, Handled(q, r, D),
         r.status = "recording", NEW u \in Urls, NEW p \in Pages \cup {None},
         \/ p = None
         \/ q.by = "human" /\ p = r.last
         \/ q.by = "agent" /\ p = Main
  PROVE  Handled(q, Went(r, u, p), D)
<1>1. PICK s : s = ToStep("navigate", u, p)
  OBVIOUS
<1>2. s \in Steps /\ s.act = "navigate" /\ s.on = p
  BY <1>1, ReportedSteps
<1>3. Handled(q, Add(r, s), D)
  BY <1>2, HandledAdd
<1> QED BY <1>1, <1>3 DEF Went

LEMMA HearsDomKeeps ==
  ASSUME RecordingInv, NEW p \in Pages, NEW act \in {"click", "dblclick"},
         NEW t \in Targets, NEW nested \in BOOLEAN, HearsDom(p, act, t, nested)
  PROVE  RecordingInv'
<1>1. /\ rec \in Recordings /\ rec # None /\ rec.status = "recording" /\ rec.by = "human"
      /\ \A D : Handled(rec, rec, D)
  BY RecordingIsEntry DEF HearsDom, Hears
<1>2. /\ framed \in SUBSET Steps /\ doubled \subseteq Targets
      /\ popup \in BOOLEAN /\ starting \in BOOLEAN
      /\ \A s \in framed : s.act \in {"click", "dblclick"} /\ s.on # None
  BY WaitsStay
<1>3. /\ doubled \subseteq doubled' /\ doubled' \subseteq Targets
      /\ act = "dblclick" => t \in doubled'
      /\ UNCHANGED <<popup, starting, rest>>
  BY <1>2 DEF HearsDom
<1>4. PICK r : r = Attributed(rec, p)
  OBVIOUS
<1>5. /\ Handled(rec, r, doubled') /\ r \in Recordings
      /\ r.status = "recording" /\ r.by = "human" /\ r.last = p
  <2>1. \A n \in 1..Len(rec.steps) : n > Len(rec.steps) => rec.steps[n].act # "switch"
    BY <1>1, EntryFields
  <2> QED BY <1>1, <1>4, <2>1, HandledAttributed
<1>6. PICK cut : cut = IF act = "dblclick" THEN Deduped(r, t) ELSE r
  OBVIOUS
<1>7. Handled(rec, cut, doubled') /\ cut \in Recordings
      /\ cut.status = "recording" /\ cut.last = p
  <2>1. CASE act = "dblclick"
    <3>1. t \in doubled' /\ cut = Deduped(r, t)
      BY <1>3, <1>6, <2>1
    <3> QED BY <1>1, <1>5, <3>1, HandledDeduped
  <2>2. CASE act # "dblclick"
    BY <1>5, <1>6, <2>2
  <2> QED BY <2>1, <2>2
<1>8. PICK s : s = ToStep(act, t, p)
  OBVIOUS
<1>9. s \in Steps /\ s.act = act /\ s.act # "switch" /\ s.on = p /\ s.on # None
  BY <1>8, ReportedSteps, PagesAreNamed
<1>10. Handled(rec, Add(cut, s), doubled')
  BY <1>1, <1>7, <1>9, HandledAdd
<1>11. CASE nested
  <2>1. Store(cut, FALSE) /\ framed' = framed \cup {s}
    BY <1>4, <1>6, <1>8, <1>11 DEF HearsDom
  <2> QED BY <1>1, <1>2, <1>3, <1>7, <1>9, <2>1, StoreKeeps
<1>12. CASE ~nested
  <2>1. Store(Add(cut, s), FALSE) /\ UNCHANGED framed
    BY <1>4, <1>6, <1>8, <1>12 DEF HearsDom
  <2> QED BY <1>1, <1>2, <1>3, <1>10, <2>1, StoreKeeps
<1> QED BY <1>11, <1>12

LEMMA StartedKeeps == ASSUME RecordingInv, Started PROVE RecordingInv'
<1>1. UNCHANGED <<popup, framed, doubled, rest>> /\ starting' = FALSE
  BY DEF Started
<1>2. CASE UNCHANGED <<rec, shots, told, missed>>
  BY <1>1, <1>2 DEF RecordingInv, TypeOK, PictureIsOwn, CapturesFit, TellsSteps, PagesAreSaid,
     WaitsAreRight, Removable, rest
<1>3. ASSUME Is("recording"), NEW u \in Urls, Store(Went(Attributed(rec, Main), u, Main), FALSE)
      PROVE  RecordingInv'
  <2>1. /\ rec \in Recordings /\ rec # None /\ rec.status = "recording"
        /\ Handled(rec, rec, doubled') /\ rec.by \in {"human", "agent"}
    BY <1>3, RecordingIsEntry, EntryFields
  <2>2. PICK r : r = Attributed(rec, Main)
    OBVIOUS
  <2>3. /\ Handled(rec, r, doubled') /\ r \in Recordings
        /\ r.status = "recording"
        /\ rec.by = "human" => r.last = Main
    <3>1. \A n \in 1..Len(rec.steps) : n > Len(rec.steps) => rec.steps[n].act # "switch"
      BY <2>1, EntryFields
    <3> QED BY <2>1, <2>2, <3>1, HandledAttributed, PagesAreNamed
  <2>4. Handled(rec, Went(r, u, Main), doubled')
    BY <2>1, <2>3, HandledWent, PagesAreNamed
  <2>5. Store(Went(r, u, Main), FALSE)
    BY <1>3, <2>2
  <2> QED BY <1>1, <2>1, <2>4, <2>5, WaitsStay, StoreKeeps
<1> QED BY <1>2, <1>3 DEF Started

LEMMA PopupOpensKeeps == ASSUME RecordingInv, PopupOpens PROVE RecordingInv'
<1>1. UNCHANGED <<starting, framed, doubled, rest>> /\ popup' = TRUE
  BY DEF PopupOpens
<1>2. CASE ~(Is("recording") /\ rec.by = "human" /\ rec.last # Popup)
  <2>1. UNCHANGED <<rec, shots, told, missed>>
    BY <1>2 DEF PopupOpens
  <2> QED BY <1>1, <2>1 DEF RecordingInv, TypeOK, PictureIsOwn, CapturesFit, TellsSteps,
          PagesAreSaid, WaitsAreRight, Removable, rest
<1>3. CASE Is("recording") /\ rec.by = "human" /\ rec.last # Popup
  <2>1. /\ rec \in Recordings /\ rec # None /\ rec.status = "recording"
        /\ Handled(rec, rec, doubled')
    BY <1>3, RecordingIsEntry
  <2>2. PICK z : z = [rec EXCEPT !.last = Popup]
    OBVIOUS
  <2>3. PICK w : w = Add(z, ToStep("switch", Popup, Popup))
    OBVIOUS
  <2>4. Handled(rec, z, doubled') /\ Handled(rec, w, doubled')
    <3>1. \A n \in 1..Len(rec.steps) : n > Len(rec.steps) => rec.steps[n].act # "switch"
      BY <2>1, EntryFields
    <3> QED BY <1>3, <2>1, <2>2, <2>3, <3>1, HandledNoted, PagesAreNamed
  <2>5. Store(z, FALSE) \/ Store(w, FALSE)
    BY <1>3, <2>2, <2>3 DEF PopupOpens
  <2> QED BY <1>1, <2>1, <2>4, <2>5, WaitsStay, StoreKeeps
<1> QED BY <1>2, <1>3

LEMMA NavigatesKeeps == ASSUME RecordingInv, NEW u \in Urls, Navigates(u) PROVE RecordingInv'
<1>1. UNCHANGED <<popup, starting, framed, doubled, rest>>
  BY DEF Navigates
<1>2. /\ rec \in Recordings /\ rec # None /\ rec.status = "recording" /\ rec.by = "human"
      /\ Handled(rec, rec, doubled')
  BY RecordingIsEntry DEF Navigates, Hears
<1>3. ASSUME NEW r \in Recordings, Handled(rec, r, doubled'), r.last = rec.last,
             r.status = "recording",
             \A n \in 1..Len(r.steps) : n > Len(rec.steps) => r.steps[n].act # "switch"
      PROVE  Handled(rec, Went(Attributed(r, Main), u, Main), doubled')
  <2>1. PICK z : z = Attributed(r, Main)
    OBVIOUS
  <2>2. Handled(rec, z, doubled') /\ z \in Recordings /\ z.status = "recording" /\ z.last = Main
    BY <1>2, <1>3, <2>1, HandledAttributed, PagesAreNamed
  <2>3. Handled(rec, Went(z, u, Main), doubled')
    BY <1>2, <2>2, HandledWent, PagesAreNamed
  <2> QED BY <2>1, <2>3
<1>4. Handled(rec, Went(Attributed(rec, Main), u, Main), doubled')
  <2>1. \A n \in 1..Len(rec.steps) : n > Len(rec.steps) => rec.steps[n].act # "switch"
    BY <1>2, EntryFields
  <2> QED BY <1>2, <1>3, <2>1
<1>5. Handled(rec, Went(Attributed(Filled, Main), u, Main), doubled')
  <2>1. PICK s : s = ToStep("buffered", None, None)
    OBVIOUS
  <2>2. s \in Steps /\ s.act = "buffered" /\ s.on = None
    BY <2>1, ReportedSteps
  <2>3. PICK r : r = Filled
    OBVIOUS
  <2>4. r = Add(rec, s)
    BY <2>1, <2>3 DEF Filled
  <2>5. Handled(rec, r, doubled') /\ Adds(rec, r, s) /\ r \in Recordings
    BY <1>2, <2>2, <2>4, HandledAdd
  <2>6. \A n \in 1..Len(r.steps) : n > Len(rec.steps) => r.steps[n].act # "switch"
    <3>1. Len(rec.steps) \in Nat /\ Len(r.steps) = Len(rec.steps) + 1
          /\ r.steps[Len(rec.steps) + 1].act = "buffered"
      BY <1>2, <2>2, <2>5, EntryFields, ListedIsRow DEF Adds, Lengthens
    <3>2. \A n \in 1..Len(r.steps) : n > Len(rec.steps) => n = Len(rec.steps) + 1
      BY <3>1
    <3> QED BY <3>1, <3>2
  <2>7. r.last = rec.last /\ r.status = "recording"
    BY <1>2, <2>5 DEF Adds, Lengthens
  <2> QED BY <1>3, <2>3, <2>5, <2>6, <2>7
<1>6. PICK r : /\ Handled(rec, r, doubled') /\ Store(r, FALSE)
  BY <1>4, <1>5 DEF Navigates
<1> QED BY <1>1, <1>2, <1>6, WaitsStay, StoreKeeps

LEMMA HearsSnapshotKeeps ==
  ASSUME RecordingInv, NEW p \in Pages, HearsSnapshot(p) PROVE RecordingInv'
<1>1. UNCHANGED <<popup, starting, framed, doubled, rest>>
  BY DEF HearsSnapshot
<1>2. /\ rec \in Recordings /\ rec # None /\ rec.status = "recording" /\ rec.by = "human"
      /\ Handled(rec, rec, doubled')
  BY RecordingIsEntry DEF HearsSnapshot, Hears
<1>3. PICK r : r = Attributed(rec, p)
  OBVIOUS
<1>4. Handled(rec, r, doubled') /\ r \in Recordings /\ r.status = "recording" /\ r.last = p
  <2>1. \A n \in 1..Len(rec.steps) : n > Len(rec.steps) => rec.steps[n].act # "switch"
    BY <1>2, EntryFields
  <2> QED BY <1>2, <1>3, <2>1, HandledAttributed
<1>5. PICK s : s = ToStep("snapshot", None, p)
  OBVIOUS
<1>6. s \in Steps /\ s.act = "snapshot" /\ s.on = p
  BY <1>5, ReportedSteps
<1>7. Handled(rec, Add(r, s), doubled')
  BY <1>2, <1>4, <1>6, HandledAdd
<1>8. Store(Add(r, s), FALSE)
  BY <1>3, <1>5 DEF HearsSnapshot
<1> QED BY <1>1, <1>2, <1>7, <1>8, WaitsStay, StoreKeeps

-----------------------------------------------------------------------------
(* The agent's steps, and the snapshots that the API asks for.             *)

LEMMA TakeManualSnapshotKeeps == ASSUME RecordingInv, TakeManualSnapshot PROVE RecordingInv'
<1>1. UNCHANGED <<popup, starting, framed, doubled, rest>>
  BY DEF TakeManualSnapshot
<1>2. /\ rec \in Recordings /\ rec # None /\ rec.status = "recording"
      /\ Handled(rec, rec, doubled')
  BY RecordingIsEntry DEF TakeManualSnapshot
<1>3. PICK s : s = ToStep("snapshot", None, None)
  OBVIOUS
<1>4. s \in Steps /\ s.act = "snapshot" /\ s.on = None
  BY <1>3, ReportedSteps
<1>5. Handled(rec, Add(rec, s), doubled')
  BY <1>2, <1>4, HandledAdd
<1>6. Store(Add(rec, s), FALSE)
  BY <1>3 DEF TakeManualSnapshot
<1> QED BY <1>1, <1>2, <1>5, <1>6, WaitsStay, StoreKeeps

LEMMA AddAgentStepKeeps == ASSUME RecordingInv, AddAgentStep PROVE RecordingInv'
<1>1. UNCHANGED <<popup, starting, framed, doubled, rest>>
  BY DEF AddAgentStep
<1>2. /\ rec \in Recordings /\ rec # None /\ rec.status = "recording"
      /\ Handled(rec, rec, doubled')
  BY RecordingIsEntry DEF AddAgentStep
<1>3. PICK t \in Targets : Store(Add(rec, ToStep("click", t, None)), TRUE)
  BY DEF AddAgentStep
<1>4. PICK s : s = ToStep("click", t, None)
  OBVIOUS
<1>5. s \in Steps /\ s.act = "click" /\ s.on = None
  BY <1>4, ReportedSteps
<1>6. PICK r : r = Add(rec, s)
  OBVIOUS
<1>7. Handled(rec, r, doubled') /\ Adds(rec, r, s)
  BY <1>2, <1>5, <1>6, HandledAdd
<1>8. \A n \in Entering(r) : r.steps[n].act = "click"
  <2>1. Len(rec.steps) \in Nat /\ DOMAIN r.steps = 1..Len(r.steps)
        /\ Len(r.steps) = Len(rec.steps) + 1
    BY <1>2, <1>7, EntryFields DEF Adds, Lengthens
  <2>2. \A n \in DOMAIN r.steps : n \in 1..Len(rec.steps) \/ n = Len(rec.steps) + 1
    BY <2>1
  <2>3. \A n \in 1..Len(rec.steps) : n <= Len(rec.steps) /\ r.steps[n] = rec.steps[n]
    BY <1>7, <2>1 DEF Adds, Lengthens
  <2>4. r.steps[Len(rec.steps) + 1].act = "click"
    BY <1>5, <1>7, ListedIsRow DEF Adds, Lengthens
  <2> QED BY <2>2, <2>3, <2>4 DEF Entering
<1>9. Store(r, TRUE)
  BY <1>3, <1>4, <1>6
<1> QED BY <1>1, <1>2, <1>7, <1>8, <1>9, WaitsStay, StoreKeeps

LEMMA AddAgentImplicitNavigateKeeps ==
  ASSUME RecordingInv, NEW u \in Urls, AddAgentImplicitNavigate(u) PROVE RecordingInv'
<1>1. UNCHANGED <<popup, starting, framed, doubled, rest>>
  BY DEF AddAgentImplicitNavigate
<1>2. /\ rec \in Recordings /\ rec # None /\ rec.status = "recording"
      /\ Handled(rec, rec, doubled')
  BY RecordingIsEntry DEF AddAgentImplicitNavigate
<1>3. Handled(rec, Went(rec, u, None), doubled')
  BY <1>2, HandledWent
<1>4. PICK r : Handled(rec, r, doubled') /\ Store(r, FALSE)
  BY <1>2, <1>3 DEF AddAgentImplicitNavigate
<1> QED BY <1>1, <1>2, <1>4, WaitsStay, StoreKeeps

-----------------------------------------------------------------------------
(* What was waited for.                                                    *)

(* The step of a nested frame is the next of the page it came from, or the *)
(* change of page is missed.                                               *)
LEMMA FramePathKnownKeeps ==
  ASSUME RecordingInv, NEW s \in framed, FramePathKnown(s) PROVE RecordingInv'
<1>1. UNCHANGED <<popup, starting, doubled, rest>> /\ framed' = framed \ {s}
  BY DEF FramePathKnown
<1>2. s \in Steps /\ s.act \in {"click", "dblclick"} /\ s.on # None
  BY WaitsStay
<1>3. CASE ~Is("recording")
  <2>1. UNCHANGED <<rec, told, shots, missed>>
    BY <1>3 DEF FramePathKnown
  <2> QED BY <1>1, <2>1 DEF RecordingInv, TypeOK, PictureIsOwn, CapturesFit, TellsSteps,
          PagesAreSaid, WaitsAreRight, Removable, rest
<1>4. CASE Is("recording")
  <2>1. /\ rec \in Recordings /\ rec # None /\ rec.status = "recording"
    BY <1>4, RecordingIsEntry
  <2>2. PICK r : r = Add(rec, s)
    OBVIOUS
  <2>3. /\ rec' = r /\ Fits(r) /\ Publish(r, FALSE) /\ Shoot(r, FALSE)
        /\ missed' = (missed \/ s.on # rec.last)
    BY <1>4, <2>2 DEF FramePathKnown
  <2>4. Adds(rec, r, s) /\ Lengthens(rec, r, s) /\ r \in Recordings /\ r.by = rec.by
        /\ r.last = rec.last
    BY <1>2, <2>1, <2>2, AddAdds DEF Adds, Lengthens
  <2>5. Evolves(rec, r, doubled')
    BY <1>2, <2>1, <2>4, LengthensEvolves
  <2>6. /\ rec' \in Recordings /\ Len(rec'.steps) <= MaxSteps
        /\ shots' \in SUBSET Captures /\ told' \in [1..MaxSteps -> Steps \cup {None}]
    BY <2>1, <2>3, <2>4, StoredKeepsTypes
  <2>7. TypeOK'
    BY <1>1, <2>3, <2>6 DEF RecordingInv, TypeOK, rest
  <2>8. PictureIsOwn' /\ CapturesFit'
    BY <1>1, <2>1, <2>3, <2>5, <2>6, StoredKeepsPictures, StoredKeepsCaptures
  <2>9. TellsSteps'
    BY <1>1, <2>1, <2>3, <2>5, StoredIsTold DEF rest
  <2>10. PagesAreSaid'
    <3> SUFFICES ASSUME ~missed' PROVE Attributable(r)
      BY <2>3 DEF PagesAreSaid
    <3>1. s.on = rec.last /\ Attributable(rec)
      BY <2>1, <2>3 DEF RecordingInv, PagesAreSaid
    <3>2. rec.by = "human"
      <4>1. rec.by \in {"human", "agent"}
        BY <2>1, EntryFields
      <4> QED BY <2>1, <4>1, WaitsStay
    <3> QED BY <1>2, <2>1, <2>4, <3>1, <3>2, LengthensAttributable
  <2>11. WaitsAreRight'
    BY <1>1, <2>1, <2>3, <2>4 DEF RecordingInv, WaitsAreRight, rest
  <2> QED BY <2>7, <2>8, <2>9, <2>10, <2>11 DEF RecordingInv
<1> QED BY <1>3, <1>4

(* A list whose steps differ in their pictures only is attributed alike.   *)
LEMMA RepicturedAttributable ==
  ASSUME NEW q \in Recordings, NEW r \in Recordings, Attributable(q),
         r.by = q.by, r.last = q.last, Len(r.steps) = Len(q.steps),
         \A n \in 1..Len(q.steps) : r.steps[n].act = q.steps[n].act
                                    /\ r.steps[n].on = q.steps[n].on
  PROVE  Attributable(r)
<1>1. DOMAIN r.steps = 1..Len(q.steps) /\ DOMAIN q.steps = 1..Len(q.steps)
      /\ Len(q.steps) \in Nat
  BY EntryFields
<1> SUFFICES ASSUME NEW m \in 1..Len(q.steps)
    PROVE /\ r.steps[m].act = "switch" => r.steps[m].on # None
          /\ r.by = "agent" => r.steps[m].on \in {None, Main}
          /\ r.by = "human" /\ r.steps[m].on # None =>
               /\ NoSwitch(r, m, Len(r.steps)) => r.steps[m].on = r.last
               /\ \A n \in m + 1 .. Len(r.steps) :
                    r.steps[n].on # None /\ NoSwitch(r, m, n) => r.steps[m].on = r.steps[n].on
  BY <1>1 DEF Attributable
<1>2. \A n \in m..Len(q.steps) : NoSwitch(r, m, n) <=> NoSwitch(q, m, n)
  <2>1. \A n \in m..Len(q.steps) : \A k \in m + 1 .. n : k \in 1..Len(q.steps)
    BY <1>1
  <2> QED BY <2>1 DEF NoSwitch
<1>3. Len(q.steps) \in m..Len(q.steps)
      /\ \A n \in m + 1 .. Len(q.steps) : n \in m..Len(q.steps) /\ n \in 1..Len(q.steps)
  BY <1>1
<1> QED BY <1>1, <1>2, <1>3 DEF Attributable

(* A capture is given to the step its number has by then.                  *)
Pictured(q, n, pic) == [q EXCEPT !.steps[n].pic = pic]

LEMMA PicturedFacts ==
  ASSUME NEW q \in Recordings, NEW n \in 1..Len(q.steps), NEW pic \in Pictures,
         NEW r, r = Pictured(q, n, pic)
  PROVE  /\ r \in Recordings /\ r.status = q.status /\ r.by = q.by
         /\ r.paused = q.paused /\ r.last = q.last /\ Len(r.steps) = Len(q.steps)
         /\ \A m \in 1..Len(q.steps) :
              /\ Plain(r.steps[m]) = Plain(q.steps[m])
              /\ r.steps[m].act = q.steps[m].act /\ r.steps[m].on = q.steps[m].on
              /\ r.steps[m].pic = IF m = n THEN pic ELSE q.steps[m].pic
<1>1. /\ q.steps \in Seq(Rows) /\ Len(q.steps) \in Nat /\ DOMAIN q.steps = 1..Len(q.steps)
      /\ \A m \in 1..Len(q.steps) : q.steps[m] \in Rows
  BY EntryFields
<1>2. PICK x : x = [q.steps[n] EXCEPT !.pic = pic]
  OBVIOUS
<1>3. x \in Rows /\ x.pic = pic /\ x.act = q.steps[n].act /\ x.at = q.steps[n].at
      /\ x.on = q.steps[n].on
  BY <1>1, <1>2 DEF Rows
<1>4. PICK l : l = [q.steps EXCEPT ![n] = x]
  OBVIOUS
<1>5. l \in Seq(Rows) /\ Len(l) = Len(q.steps)
      /\ \A m \in 1..Len(q.steps) : l[m] = IF m = n THEN x ELSE q.steps[m]
  BY <1>1, <1>3, <1>4
<1>6. r = [q EXCEPT !.steps = l]
  BY <1>2, <1>4 DEF Pictured
<1>7. r \in Recordings /\ r.status = q.status /\ r.by = q.by
      /\ r.paused = q.paused /\ r.last = q.last /\ r.steps = l
  BY <1>5, <1>6 DEF Recordings
<1>8. Plain(x) = Plain(q.steps[n])
  BY <1>3 DEF Plain, ToStep
<1>9. ASSUME NEW m \in 1..Len(q.steps)
      PROVE  /\ Plain(r.steps[m]) = Plain(q.steps[m])
             /\ r.steps[m].act = q.steps[m].act /\ r.steps[m].on = q.steps[m].on
             /\ r.steps[m].pic = IF m = n THEN pic ELSE q.steps[m].pic
  <2>1. CASE m = n
    BY <1>3, <1>5, <1>7, <1>8, <2>1
  <2>2. CASE m # n
    BY <1>5, <1>7, <2>2
  <2> QED BY <2>1, <2>2
<1> QED BY <1>5, <1>7, <1>9

(* A capture is done.                                                      *)
LEMMA ShotDoneKeeps == ASSUME RecordingInv, NEW x \in shots, ShotDone(x) PROVE RecordingInv'
<1> DEFINE there == rec # None /\ x.seq <= Len(rec.steps)
           pic == [for |-> x.for, old |-> x.old]
<1>1. /\ UNCHANGED <<popup, starting, framed, doubled, missed, started>>
      /\ shots' = shots \ {x}
      /\ strayed' = (strayed \/ (x.agent /\ x.old))
  BY DEF ShotDone
<1>2. x.seq \in 1..MaxSteps /\ x.for \in Steps /\ x.agent \in BOOLEAN /\ x.old \in BOOLEAN
  BY DEF RecordingInv, TypeOK, Captures
<1>3. MaxSteps \in Nat
  BY RecordingAssumption DEF RecordingAssumption
<1>4. ASSUME rec # None
      PROVE  /\ rec \in Recordings /\ Len(rec.steps) \in Nat /\ Len(rec.steps) <= MaxSteps
             /\ DOMAIN rec.steps = 1..Len(rec.steps)
             /\ \A n \in 1..Len(rec.steps) : Plain(rec.steps[n]) \in Steps
             /\ there => x.seq \in 1..Len(rec.steps)
  BY <1>2, <1>3, <1>4, EntryFields, RowIsStep DEF RecordingInv, TypeOK
<1>5. told' \in [1..MaxSteps -> Steps \cup {None}]
  <2>1. told \in [1..MaxSteps -> Steps \cup {None}]
    BY DEF RecordingInv, TypeOK
  <2>2. there => Plain(rec.steps[x.seq]) \in Steps
    BY <1>4
  <2> QED BY <1>2, <2>1, <2>2 DEF ShotDone
<1>6. \/ UNCHANGED rec
      \/ /\ there /\ rec' = [rec EXCEPT !.steps[x.seq].pic = pic]
         /\ rec' \in Recordings /\ rec'.status = rec.status /\ rec'.by = rec.by
         /\ rec'.paused = rec.paused /\ rec'.last = rec.last
         /\ Len(rec'.steps) = Len(rec.steps)
         /\ \A m \in 1..Len(rec.steps) :
              /\ Plain(rec'.steps[m]) = Plain(rec.steps[m])
              /\ rec'.steps[m].act = rec.steps[m].act /\ rec'.steps[m].on = rec.steps[m].on
              /\ rec'.steps[m].pic = IF m = x.seq THEN pic ELSE rec.steps[m].pic
  <2>1. pic \in Pictures
    BY <1>2 DEF Pictures
  <2>2. CASE UNCHANGED rec
    BY <2>2
  <2>3. CASE there /\ rec' = [rec EXCEPT !.steps[x.seq].pic = pic]
    <3>1. rec \in Recordings /\ x.seq \in 1..Len(rec.steps)
      BY <1>4, <2>3
    <3>2. PICK r : r = Pictured(rec, x.seq, pic)
      OBVIOUS
    <3>3. rec' = Pictured(rec, x.seq, pic)
      BY <2>3, Zenon DEF Pictured
    <3> HIDE DEF pic
    <3>4. /\ r \in Recordings /\ r.status = rec.status /\ r.by = rec.by
          /\ r.paused = rec.paused /\ r.last = rec.last /\ Len(r.steps) = Len(rec.steps)
          /\ \A m \in 1..Len(rec.steps) :
               /\ Plain(r.steps[m]) = Plain(rec.steps[m])
               /\ r.steps[m].act = rec.steps[m].act /\ r.steps[m].on = rec.steps[m].on
               /\ r.steps[m].pic = IF m = x.seq THEN pic ELSE rec.steps[m].pic
      BY ONLY <2>1, <3>1, <3>2, PicturedFacts
    <3> QED BY <2>3, <3>2, <3>3, <3>4, ZenonT(40)
  <2> QED BY <2>2, <2>3 DEF ShotDone
<1>7. TypeOK'
  <2>1. rec' = None \/ (rec' \in Recordings /\ Len(rec'.steps) <= MaxSteps)
    BY <1>4, <1>6 DEF RecordingInv, TypeOK
  <2>2. shots' \in SUBSET Captures /\ strayed' \in BOOLEAN
    BY <1>1, <1>2 DEF RecordingInv, TypeOK
  <2>3. rec' # None => Len(rec'.steps) <= MaxSteps
    BY <2>1
  <2> QED BY <1>1, <1>5, <2>1, <2>2, <2>3 DEF RecordingInv, TypeOK
<1> HIDE DEF pic
<1>8. ASSUME rec' # None
      PROVE  /\ rec # None /\ rec \in Recordings /\ rec' \in Recordings
             /\ Len(rec'.steps) = Len(rec.steps) /\ rec'.by = rec.by /\ rec'.last = rec.last
             /\ \A m \in 1..Len(rec.steps) :
                  /\ Plain(rec'.steps[m]) = Plain(rec.steps[m])
                  /\ rec'.steps[m].act = rec.steps[m].act /\ rec'.steps[m].on = rec.steps[m].on
                  /\ \/ rec'.steps[m].pic = rec.steps[m].pic
                     \/ m = x.seq /\ rec'.steps[m].pic = pic
  BY <1>4, <1>6, <1>8
<1>9. PictureIsOwn'
  <2> SUFFICES ASSUME rec' # None, NEW m \in 1..Len(rec.steps)
               PROVE  LET y == rec'.steps[m].pic
                      IN  \/ y = None \/ y.for = Plain(rec'.steps[m]) \/ y.old
                          \/ Removable(y.for)
    BY <1>1, <1>4, <1>8, EntryFields DEF PictureIsOwn, Removable
  <2>1. CASE rec'.steps[m].pic = rec.steps[m].pic
    <3>1. m \in DOMAIN rec.steps
      BY <1>4, <1>8
    <3> QED BY <1>8, <2>1, <3>1 DEF RecordingInv, PictureIsOwn
  <2>2. CASE m = x.seq /\ rec'.steps[m].pic = pic
    <3>1. pic.for = x.for /\ pic.old = x.old
      BY DEF pic
    <3>2. x.old \/ Removable(x.for) \/ x.for = Plain(rec.steps[m])
      BY <1>8, <2>2 DEF RecordingInv, CapturesFit
    <3> QED BY <1>8, <2>2, <3>1, <3>2
  <2> QED BY <1>8, <2>1, <2>2
<1>10. CapturesFit'
  <2> SUFFICES ASSUME rec' # None, NEW y \in shots
               PROVE  \/ y.old \/ Removable(y.for)
                      \/ y.seq <= Len(rec'.steps) /\ y.for = Plain(rec'.steps[y.seq])
    BY <1>1 DEF CapturesFit, Removable
  <2>1. y.seq \in Nat \ {0}
    BY DEF RecordingInv, TypeOK, Captures
  <2>2. y.seq <= Len(rec.steps) => y.seq \in 1..Len(rec.steps)
    BY <1>4, <1>8, <2>1
  <2> QED BY <1>8, <2>2 DEF RecordingInv, CapturesFit
<1>11. TellsSteps'
  <2> SUFFICES ASSUME rec' # None, ~strayed', NEW n \in 1..MaxSteps
      PROVE  LET telling == n <= Len(rec'.steps) /\ told'[n] = Plain(rec'.steps[n])
             IN  /\ telling \/ told'[n] = None \/ Removable(told'[n])
                 /\ n <= Len(rec'.steps) =>
                      telling \/ \E y \in shots' : y.seq = n /\ y.for = Plain(rec'.steps[n])
    BY <1>1 DEF TellsSteps, Removable
  <2>1. /\ Len(rec'.steps) = Len(rec.steps) /\ Len(rec.steps) \in Nat
        /\ n <= Len(rec.steps) => Plain(rec'.steps[n]) = Plain(rec.steps[n])
    <3>1. n <= Len(rec.steps) => n \in 1..Len(rec.steps)
      BY <1>3, <1>4, <1>8
    <3> QED BY <1>4, <1>8, <3>1
  <2>2. ~strayed /\ ~(x.agent /\ x.old) /\ rec # None
    BY <1>1, <1>2, <1>8
  <2>3. LET telling == n <= Len(rec.steps) /\ told[n] = Plain(rec.steps[n])
        IN  /\ telling \/ told[n] = None \/ Removable(told[n])
            /\ n <= Len(rec.steps) =>
                 telling \/ \E y \in shots : y.seq = n /\ y.for = Plain(rec.steps[n])
    BY <2>2 DEF RecordingInv, TellsSteps
  <2>4. told \in [1..MaxSteps -> Steps \cup {None}]
    BY DEF RecordingInv, TypeOK
  <2>5. told' = IF there THEN [told EXCEPT ![x.seq] = Plain(rec.steps[x.seq])] ELSE told
    BY <2>2 DEF ShotDone
  <2>6. CASE n = x.seq /\ n <= Len(rec.steps)
    <3>1. told'[n] = Plain(rec.steps[n])
      BY <2>2, <2>4, <2>5, <2>6
    <3> QED BY <2>1, <2>6, <3>1
  <2>7. CASE n # x.seq \/ ~(n <= Len(rec.steps))
    <3>1. told'[n] = told[n]
      BY <2>4, <2>5, <2>7
    <3>2. \A y \in shots : y.seq = n /\ n <= Len(rec.steps) => y \in shots'
      BY <1>1, <2>7
    <3> QED BY <2>1, <2>3, <3>1, <3>2
  <2> QED BY <2>6, <2>7
<1>12. PagesAreSaid'
  <2> SUFFICES ASSUME rec' # None, ~missed PROVE Attributable(rec')
    BY <1>1 DEF PagesAreSaid
  <2>1. PICK r : r = rec'
    OBVIOUS
  <2>2. Attributable(rec) /\ r \in Recordings /\ rec \in Recordings
    BY <1>8, <2>1 DEF RecordingInv, PagesAreSaid
  <2>3. Attributable(r)
    BY <1>8, <2>1, <2>2, RepicturedAttributable
  <2> QED BY <2>1, <2>3
<1>13. WaitsAreRight'
  BY <1>1, <1>8 DEF RecordingInv, WaitsAreRight
<1> QED BY <1>7, <1>9, <1>10, <1>11, <1>12, <1>13 DEF RecordingInv

-----------------------------------------------------------------------------
(* The beginning, and what leaves the list alone.                          *)

LEMMA InitRecording == Init => RecordingInv
<1> SUFFICES ASSUME Init PROVE RecordingInv
  OBVIOUS
<1>1. MaxSteps \in Nat \ {0}
  BY RecordingAssumption DEF RecordingAssumption
<1>2. shots \in SUBSET Captures /\ \A x \in shots : x.old
  <2>1. ASSUME NEW t \in Targets, NEW by \in BOOLEAN
        PROVE  [seq |-> 1, for |-> ToStep("click", t, None), agent |-> by, old |-> TRUE]
                 \in Captures
    <3>1. ToStep("click", t, None) \in Steps /\ 1 \in 1..MaxSteps
      BY <1>1, ReportedSteps
    <3> QED BY <3>1 DEF Captures
  <2> QED BY <2>1 DEF Init
<1>3. TypeOK
  <2>1. told \in [1..MaxSteps -> Steps \cup {None}]
    BY DEF Init, Untold
  <2> QED BY <1>2, <2>1 DEF Init, TypeOK
<1> QED BY <1>2, <1>3 DEF Init, RecordingInv, PictureIsOwn, CapturesFit, TellsSteps, PagesAreSaid,
        WaitsAreRight

LEMMA StartKeeps == ASSUME RecordingInv, NEW by \in Starters, Start(by) PROVE RecordingInv'
<1>1. PICK r : r = [status |-> "recording", by |-> by, paused |-> FALSE, last |-> None,
                    steps |-> <<>>]
  OBVIOUS
<1>2. /\ r \in Recordings /\ r.steps = <<>> /\ Len(r.steps) = 0 /\ DOMAIN r.steps = {}
  <2>1. by \in {"human", "agent"}
    BY RecordingAssumption DEF RecordingAssumption
  <2> QED BY <1>1, <2>1 DEF Recordings
<1>3. /\ rec' = r /\ ~started /\ started' = TRUE /\ starting' = TRUE /\ told' = Untold
      /\ doubled' = {} /\ missed' = FALSE /\ strayed' = FALSE
      /\ UNCHANGED <<popup, framed, shots>>
  BY <1>1 DEF Start
<1>4. framed = {} /\ \A x \in shots : x.old
  BY <1>3 DEF RecordingInv, WaitsAreRight
<1>5. MaxSteps \in Nat
  BY RecordingAssumption DEF RecordingAssumption
<1>6. TypeOK'
  <2>1. told' \in [1..MaxSteps -> Steps \cup {None}]
    BY <1>3 DEF Untold
  <2>2. Len(r.steps) <= MaxSteps
    BY <1>2, <1>5
  <2>3. popup' \in BOOLEAN /\ framed' \in SUBSET Steps /\ shots' \in SUBSET Captures
    BY <1>3 DEF RecordingInv, TypeOK
  <2> QED BY <1>2, <1>3, <2>1, <2>2, <2>3 DEF TypeOK
<1>7. PictureIsOwn' /\ CapturesFit' /\ PagesAreSaid' /\ WaitsAreRight'
  BY <1>2, <1>3, <1>4 DEF PictureIsOwn, CapturesFit, PagesAreSaid, Attributable, WaitsAreRight
<1>8. TellsSteps'
  <2>1. \A n \in 1..MaxSteps : told'[n] = None /\ ~(n <= Len(r.steps))
    BY <1>2, <1>3, <1>5 DEF Untold
  <2> QED BY <1>3, <2>1 DEF TellsSteps
<1> QED BY <1>6, <1>7, <1>8 DEF RecordingInv

(* Status and pause are not looked at by the invariant.                    *)
LEMMA MarkKeeps ==
  ASSUME RecordingInv, NEW r \in Recordings, rec # None,
         r.steps = rec.steps, r.by = rec.by, r.last = rec.last, rec' = r,
         UNCHANGED <<popup, starting, framed, shots, told, doubled, missed, rest>>
  PROVE  RecordingInv'
<1>1. TypeOK'
  BY DEF RecordingInv, TypeOK, rest
<1>2. PictureIsOwn' /\ CapturesFit' /\ WaitsAreRight'
  BY DEF RecordingInv, PictureIsOwn, CapturesFit, WaitsAreRight, Removable, rest
<1>3. TellsSteps'
  BY DEF RecordingInv, TellsSteps, Removable, rest
<1>4. PagesAreSaid'
  <2> SUFFICES ASSUME ~missed PROVE Attributable(r)
    BY DEF PagesAreSaid
  <2>1. rec \in Recordings /\ Attributable(rec)
    BY DEF RecordingInv, TypeOK, PagesAreSaid
  <2>2. \A n \in 1..Len(rec.steps) : r.steps[n].act = rec.steps[n].act
                                    /\ r.steps[n].on = rec.steps[n].on
    OBVIOUS
  <2> QED BY <2>1, <2>2, RepicturedAttributable
<1> QED BY <1>1, <1>2, <1>3, <1>4 DEF RecordingInv

LEMMA StopKeeps == ASSUME RecordingInv, Stop PROVE RecordingInv'
<1>1. rec \in Recordings /\ rec # None
  BY RecordingIsEntry DEF Stop
<1>2. PICK r : r = [rec EXCEPT !.status = "review"]
  OBVIOUS
<1>3. r \in Recordings /\ r.steps = rec.steps /\ r.by = rec.by /\ r.last = rec.last
  BY <1>1, <1>2 DEF Recordings
<1> QED BY <1>1, <1>2, <1>3, MarkKeeps DEF Stop

LEMMA HearsPausedKeeps ==
  ASSUME RecordingInv, NEW flag \in BOOLEAN, HearsPaused(flag) PROVE RecordingInv'
<1>1. rec \in Recordings /\ rec # None
  BY RecordingIsEntry DEF HearsPaused
<1>2. PICK r : r = [rec EXCEPT !.paused = flag]
  OBVIOUS
<1>3. r \in Recordings /\ r.steps = rec.steps /\ r.by = rec.by /\ r.last = rec.last
  BY <1>1, <1>2 DEF Recordings
<1> QED BY <1>1, <1>2, <1>3, MarkKeeps DEF HearsPaused

LEMMA DiscardKeeps == ASSUME RecordingInv, Discard PROVE RecordingInv'
<1>1. /\ rec # None /\ rec' = None /\ shots' = Outdated /\ told' = Untold
      /\ doubled' = {} /\ missed' = FALSE /\ UNCHANGED <<popup, starting, framed, strayed, started>>
  BY DEF Discard, rest
<1>2. shots' \in SUBSET Captures
  <2>1. \A x \in shots : [x EXCEPT !.old = TRUE] \in Captures
    BY DEF RecordingInv, TypeOK, Captures
  <2> QED BY <1>1, <2>1 DEF Outdated
<1>3. told' \in [1..MaxSteps -> Steps \cup {None}]
  BY <1>1 DEF Untold
<1>4. started
  BY <1>1 DEF RecordingInv, WaitsAreRight
<1>5. TypeOK'
  BY <1>1, <1>2, <1>3 DEF RecordingInv, TypeOK
<1>6. PictureIsOwn' /\ CapturesFit' /\ TellsSteps' /\ PagesAreSaid' /\ WaitsAreRight'
  BY <1>1, <1>4 DEF RecordingInv, PictureIsOwn, CapturesFit, TellsSteps, PagesAreSaid,
     WaitsAreRight
<1> QED BY <1>5, <1>6 DEF RecordingInv

LEMMA PopupClosesKeeps ==
  ASSUME RecordingInv, PopupCloses \/ UNCHANGED vars PROVE RecordingInv'
<1>1. UNCHANGED <<starting, framed, noSteps, rest>> /\ popup' \in BOOLEAN
  BY DEF PopupCloses, vars, RecordingInv, TypeOK
<1> QED BY <1>1 DEF RecordingInv, TypeOK, PictureIsOwn, CapturesFit, TellsSteps, PagesAreSaid,
        WaitsAreRight, Removable, noSteps, rest

-----------------------------------------------------------------------------
(* Every reachable state of a recording is as RecordingInv says: in        *)
(* particular a step has its own picture, or one that was taken for a      *)
(* click that a double click removed or for a discarded recording          *)
(* (updateStepScreenshot goes by number).                                  *)
THEOREM RecordingCorrect == Spec => []RecordingInv
<1>1. RecordingInv /\ [Next]_vars => RecordingInv'
  <2> SUFFICES ASSUME RecordingInv, [Next]_vars PROVE RecordingInv'
    OBVIOUS
  <2>1. CASE Report
    BY <2>1, HearsDomKeeps, HearsSnapshotKeeps, HearsPausedKeeps, NavigatesKeeps,
       PopupOpensKeeps, PopupClosesKeeps DEF Report
  <2>2. CASE Api
    BY <2>2, StartKeeps, StopKeeps, TakeManualSnapshotKeeps, DiscardKeeps, AddAgentStepKeeps,
       AddAgentImplicitNavigateKeeps DEF Api
  <2>3. CASE Waited
    BY <2>3, StartedKeeps, FramePathKnownKeeps, ShotDoneKeeps DEF Waited
  <2>4. CASE UNCHANGED vars
    BY <2>4, PopupClosesKeeps
  <2> QED BY <2>1, <2>2, <2>3, <2>4 DEF Next
<1> QED BY <1>1, InitRecording, PTL DEF Spec

(* Two steps that pages reported, one after the other, are of one page or  *)
(* have the switch between them, unless a change was noted while nothing   *)
(* could be recorded or a frame's path came late (attributePageIfChanged). *)
THEOREM ChangesAreSaid == Spec => []PageChangesAreSaid
<1>1. RecordingInv => PageChangesAreSaid
  <2> SUFFICES ASSUME RecordingInv, rec # None, ~missed,
                      NEW m \in DOMAIN rec.steps, NEW n \in DOMAIN rec.steps, m < n,
                      rec.steps[m].on # None, rec.steps[n].on # None,
                      \A k \in m + 1 .. n - 1 : rec.steps[k].on = None,
                      rec.steps[n].act # "switch"
               PROVE  rec.steps[m].on = rec.steps[n].on
    BY DEF PageChangesAreSaid
  <2>1. rec \in Recordings /\ Attributable(rec)
    BY DEF RecordingInv, TypeOK, PagesAreSaid
  <2>2. /\ DOMAIN rec.steps = 1..Len(rec.steps) /\ Len(rec.steps) \in Nat
        /\ rec.by \in {"human", "agent"}
    BY <2>1, EntryFields
  <2>3. n \in m + 1 .. Len(rec.steps)
    BY <2>2
  <2>4. NoSwitch(rec, m, n)
    <3>1. \A k \in m + 1 .. n : k \in DOMAIN rec.steps /\ (k = n \/ k \in m + 1 .. n - 1)
      BY <2>2
    <3> QED BY <2>1, <3>1 DEF NoSwitch, Attributable
  <2>5. CASE rec.by = "human"
    BY <2>1, <2>3, <2>4, <2>5 DEF Attributable
  <2>6. CASE rec.by = "agent"
    BY <2>1, <2>6 DEF Attributable
  <2> QED BY <2>2, <2>5, <2>6
<1> QED BY <1>1, RecordingCorrect, PTL

(* What recording_step events say of the numbers is the list, once the     *)
(* captures are done, but for clicks that a double click removed.          *)
THEOREM EventsTellTheList == Spec => []ListIsTold
<1>1. RecordingInv => ListIsTold
  <2> SUFFICES ASSUME RecordingInv, rec # None, ~strayed, NEW n \in 1..MaxSteps
      PROVE \/ n <= Len(rec.steps) /\ told[n] = Plain(rec.steps[n])
            \/ \E x \in shots : x.seq = n /\ n <= Len(rec.steps) /\ x.for = Plain(rec.steps[n])
            \/ n > Len(rec.steps) /\ (told[n] = None \/ Removable(told[n]))
    BY DEF ListIsTold
  <2>1. Len(rec.steps) \in Nat
    BY EntryFields DEF RecordingInv, TypeOK
  <2>2. n <= Len(rec.steps) \/ n > Len(rec.steps)
    BY <2>1
  <2> QED BY <2>1, <2>2 DEF RecordingInv, TellsSteps
<1> QED BY <1>1, RecordingCorrect, PTL

=============================================================================
