---------------------------- MODULE RecordingProofs ----------------------------
(***************************************************************************)
(* A recording's file, its entry in the library, and what the editor and   *)
(* the extension make of it.                                               *)
(*                                                                         *)
(* RecordingLibrary, for all names, slugs and contents and any number of   *)
(* operations under way: index and files agree about a recording that was  *)
(* left alone, and an operation changes no entry but its own.              *)
(*                                                                         *)
(* RecordingView, for any number of steps, events and messages under way:  *)
(* no step of a recording goes unseen, the saved status is the recording's *)
(* and what is finalized has every step that was not removed.              *)
(***************************************************************************)
EXTENDS RecordingLibrary, RecordingView, FiniteSetTheorems, WellFoundedInduction, NaturalsInduction, TLAPS

-----------------------------------------------------------------------------
(* RecordingLibrary.                                                       *)

(* The file and the entry of a slug agree, in each of its spellings. *)
Agrees(k) ==
  \A n \in Names : Slug[n] = k =>
    art[n] = IF idx[k] # None /\ idx[k].name = n
             THEN [steps |-> idx[k].steps, meta |-> idx[k].meta] ELSE None

(* One index write at a time, and what it has read, if it could read, is   *)
(* still the index.                                                        *)
Queued ==
  /\ \A i \in Slots : queue[i] # None =>
       op[i] # None /\ op[i].at = "index" /\ queue[i] \in {idx, Torn}
  /\ \A i, j \in Slots : queue[i] # None /\ queue[j] # None => i = j

(* What an operation of each kind holds at each of its waits.              *)
Shape(o) ==
  /\ o.kind = "delete" => o.at \in {"remove", "index"} /\ o.has = None
  /\ o.kind = "write" => o.at \in {"read", "write", "written", "index"}
  /\ o.kind = "annotate" => o.at # "remove"
  /\ o.at \in {"write", "written", "look"} => o.has \in Contents(o.name)
  /\ o.at = "index" /\ o.kind # "delete" => o.has \in Entries /\ Slug[o.has.name] = Slug[o.name]
Shapes == \A i \in Slots : op[i] # None => Shape(op[i])

(* The entry that a lone annotate is to find has the file's steps.         *)
FileKept(o) ==
  o.kind = "annotate" /\ Slug[o.name] \notin upset =>
    LET e == idx[Slug[o.name]] IN e # None /\ e.name = o.name /\ e.steps = o.has.steps

(* How far a lone operation has brought file and entry, at each wait.      *)
OnWay(o) ==
  /\ o.at \in {"read", "remove", "write"} => Slug[o.name] \in upset \/ Agrees(Slug[o.name])
  /\ o.at = "write" /\ o.kind = "annotate" =>
       art[o.name] \notin {None, Torn} /\ o.has.steps = art[o.name].steps
  /\ o.at = "written" => o.linked /\ art[o.name] = Torn /\ FileKept(o)
  /\ o.at = "look" => art[o.name] = o.has /\ FileKept(o)
  /\ o.at = "index" /\ o.kind = "delete" => art[o.name] = None
  /\ o.at = "index" /\ o.kind # "delete" =>
       \/ o.kind = "annotate" /\ Slug[o.name] \in upset
       \/ o.has.name = o.name /\ art[o.name] = [steps |-> o.has.steps, meta |-> o.has.meta]

Lones ==
  \A i \in Slots, o \in Operations : o = op[i] /\ o.lone =>
    Under(Slug[o.name]) = {i} /\ Spellings(o.name) = {} /\ OnWay(o)

LeftAlone == \A k \in Slugs \ upset : Under(k) = {} => Agrees(k)

LibraryIInv == TypeOK /\ Queued /\ Shapes /\ Lones /\ LeftAlone

-----------------------------------------------------------------------------
(* Types.                                                                  *)
LEMMA Slugged == \A n \in Names : Slug[n] \in Slugs
BY DEF Slugs

LEMMA ContentsAre ==
  ASSUME NEW n \in Names, NEW c \in Contents(n)
  PROVE  /\ c \in AnyContents /\ c = [steps |-> c.steps, meta |-> c.meta]
         /\ Entry(n, c) \in Entries /\ Entry(n, c).name = n
         /\ Entry(n, c).steps = c.steps /\ Entry(n, c).meta = c.meta
<1>1. Edits[n] \subseteq Values
  BY DEF Values
<1>2. c.steps \in Edits[n] /\ c.meta \in Edits[n] /\ c = [steps |-> c.steps, meta |-> c.meta]
  BY DEF Contents
<1> QED BY <1>1, <1>2 DEF AnyContents, Entries, Entry

LEMMA OpIs ==
  ASSUME TypeOK, NEW i \in Slots, op[i] # None
  PROVE  /\ op[i] \in Operations /\ op[i].name \in Names /\ Slug[op[i].name] \in Slugs
         /\ op[i].lone \in BOOLEAN /\ op[i].kind \in Kinds /\ op[i].at \in Stages
<1>1. op[i] \in Operations
  BY DEF TypeOK
<1> QED BY <1>1, Slugged DEF Operations

(* An operation goes on: it keeps its name, changes at most its own file,  *)
(* and is not yet at its index write.                                      *)
LEMMA Goes ==
  ASSUME LibraryIInv, NEW i \in Slots, op[i] # None, op[i].at # "index",
         NEW q \in Operations, q.name = op[i].name, q.lone => op[i].lone, Shape(q),
         op' \in [Slots -> {None} \cup Operations], op'[i] = q,
         \A j \in Slots \ {i} : \/ op'[j] = op[j]
                                \/ /\ op[j] # None /\ op[j].name = op[i].name
                                   /\ op'[j] = [op[j] EXCEPT !.linked = FALSE],
         DOMAIN art' = Names, \A m \in Names \ {op[i].name} : art'[m] = art[m],
         art'[op[i].name] \in {None, Torn} \cup Contents(op[i].name),
         UNCHANGED <<idx, queue, upset>>,
         q.lone => OnWay(q)'
  PROVE  LibraryIInv'
<1> DEFINE n == op[i].name
           k == Slug[n]
<1>1. n \in Names /\ k \in Slugs
  BY OpIs DEF LibraryIInv
<1>2. q # None
  BY LibraryAssumption DEF LibraryAssumption
<1>3. ASSUME NEW j \in Slots \ {i}, op[j] # None
      PROVE  /\ op'[j] # None /\ op'[j].name = op[j].name /\ op'[j].lone = op[j].lone
             /\ op'[j].at = op[j].at /\ (Shape(op[j]) => Shape(op'[j]))
  <2>1. CASE op'[j] = op[j]
    BY <2>1, <1>3
  <2>2. CASE op'[j] = [op[j] EXCEPT !.linked = FALSE]
    <3>1. op[j] \in Operations
      BY <1>3, OpIs DEF LibraryIInv
    <3>2. op'[j] \in Operations /\ op'[j].name = op[j].name /\ op'[j].lone = op[j].lone
          /\ op'[j].at = op[j].at /\ op'[j].kind = op[j].kind /\ op'[j].has = op[j].has
      BY <2>2, <3>1 DEF Operations
    <3> QED BY <3>2, LibraryAssumption DEF LibraryAssumption, Shape
  <2> QED BY <2>1, <2>2
<1>4. ASSUME NEW j \in Slots PROVE (op'[j] # None) <=> (op[j] # None)
  BY <1>2, <1>3
<1>5. ASSUME NEW l PROVE Under(l)' = Under(l)
  BY <1>3, <1>4 DEF Under
<1>6. ASSUME NEW j \in Slots, queue[j] # None PROVE j # i /\ op'[j] # None /\ op'[j].at = "index"
  <2>1. op[j] # None /\ op[j].at = "index"
    BY <1>6 DEF LibraryIInv, Queued
  <2>2. j \in Slots \ {i}
    BY <2>1
  <2> QED BY ONLY <2>1, <2>2, <1>3
<1>7. TypeOK'
  <2>1. \A m \in Names : art'[m] \in {None, Torn} \/ art'[m] \in Contents(m)
    BY DEF LibraryIInv, TypeOK
  <2>2. DOMAIN queue = Slots /\ \A j \in Slots : queue[j] # None => queue[j] \in Indexes \cup {Torn}
    BY DEF LibraryIInv, TypeOK
  <2>3. idx \in Indexes /\ (\A l \in Slugs : idx[l] # None => Slug[idx[l].name] = l) /\ upset \subseteq Slugs
    BY DEF LibraryIInv, TypeOK
  <2> QED BY <2>1, <2>2, <2>3, <1>6 DEF TypeOK
<1>8. Queued' /\ Shapes'
  <2>1. Queued'
    BY <1>6 DEF LibraryIInv, Queued
  <2>2. ASSUME NEW j \in Slots, op'[j] # None PROVE Shape(op[j])'
    <3>1. Shape(op'[j])
      <4>1. CASE j = i
        BY <4>1
      <4>2. CASE j # i
        <5>1. op[j] # None
          BY <2>2, <1>4
        <5>2. Shape(op[j]) /\ j \in Slots \ {i}
          BY <4>2, <5>1 DEF LibraryIInv, Shapes
        <5> QED BY ONLY <5>1, <5>2, <1>3
      <4> QED BY <4>1, <4>2
    <3> QED BY <3>1 DEF Shape
  <2> QED BY <2>1, <2>2 DEF Shapes
<1>9. ASSUME NEW l, l # k PROVE Agrees(l)' <=> Agrees(l)
  BY <1>9 DEF Agrees
<1>10. LeftAlone'
  <2> SUFFICES ASSUME NEW l \in Slugs \ upset, Under(l) = {} PROVE Agrees(l)'
    BY <1>5 DEF LeftAlone
  <2>1. i \in Under(k)
    BY DEF Under
  <2>2. l # k
    BY <2>1
  <2> QED BY <2>2, <1>9 DEF LibraryIInv, LeftAlone
<1>11. ASSUME NEW j \in Slots, NEW r \in Operations, r = op'[j], r.lone
       PROVE  Under(Slug[r.name])' = {j} /\ Spellings(r.name)' = {} /\ OnWay(r)'
  <2>0. r # None
    BY LibraryAssumption DEF LibraryAssumption
  <2>1. CASE j = i
    <3>0. r = q /\ op[i] \in Operations /\ op[i].lone
      BY <2>1, <1>11, OpIs DEF LibraryIInv
    <3>1. Under(k) = {i} /\ Spellings(n) = {}
      BY <3>0 DEF LibraryIInv, Lones
    <3>2. Spellings(n)' = {}
      BY <3>1 DEF Spellings
    <3> QED BY <2>1, <3>0, <3>1, <3>2, <1>5, <1>11
  <2>2. CASE j # i
    <3>1. op[j] # None /\ op[j].lone /\ r.name = op[j].name
      BY <2>0, <2>2, <1>3, <1>4, <1>11
    <3>2. Under(Slug[op[j].name]) = {j} /\ Spellings(op[j].name) = {} /\ OnWay(op[j])
      BY <3>1, OpIs DEF LibraryIInv, Lones
    <3>3. Slug[r.name] # k
      BY <2>2, <3>1, <3>2 DEF Under
    <3>4. r = op[j]
      BY <2>2, <3>1, <3>3, <1>11
    <3>5. r.name \in Names
      BY <3>1, OpIs DEF LibraryIInv
    <3>6. \A m \in Names : Slug[m] = Slug[r.name] => art'[m] = art[m]
      BY <3>3
    <3>7. Spellings(r.name)' = {}
      BY <3>2, <3>4, <3>6 DEF Spellings
    <3>8. art'[r.name] = art[r.name] /\ (Agrees(Slug[r.name])' <=> Agrees(Slug[r.name]))
      BY <3>3, <3>5, <3>6, <1>9
    <3>9. OnWay(r)'
      BY <3>2, <3>4, <3>8 DEF OnWay, FileKept
    <3> QED BY <3>2, <3>4, <3>7, <3>9, <1>5
  <2> QED BY <2>1, <2>2
<1>12. Lones'
  BY <1>11 DEF Lones
<1> QED BY <1>7, <1>8, <1>10, <1>12 DEF LibraryIInv

(* An operation on slug k ends, having put in order what it answers for:   *)
(* its own slug; of the others it at most loses entries, and says so.      *)
EndsWell(i, k) ==
  /\ UNCHANGED art /\ op' = [op EXCEPT ![i] = None]
  /\ idx' \in Indexes /\ \A l \in Slugs \ {k} : idx'[l] \in {idx[l], None}
  /\ idx'[k] # None => Slug[idx'[k].name] = k
  /\ upset' \subseteq Slugs
  /\ \A l \in Slugs \ {k} : l \in upset' \/ (l \notin upset /\ idx'[l] = idx[l])
  /\ DOMAIN queue' = Slots
  /\ \A j \in Slots : queue'[j] # None => queue[j] # None /\ j # i /\ queue'[j] = queue[j]
  /\ idx' = idx \/ \A j \in Slots : queue'[j] = None
  /\ k \in upset' \/ (op[i].lone /\ Agrees(k)')

LEMMA Ends ==
  ASSUME LibraryIInv, NEW i \in Slots, NEW k, op[i] # None, k = Slug[op[i].name], EndsWell(i, k)
  PROVE  LibraryIInv'
<1> PICK n : n = op[i].name
  OBVIOUS
<1> USE DEF EndsWell
<1>1. n \in Names /\ k \in Slugs
  BY OpIs DEF LibraryIInv
<1>2. op \in [Slots -> {None} \cup Operations]
  BY DEF LibraryIInv, TypeOK
<1>3. op' \in [Slots -> {None} \cup Operations] /\ op'[i] = None /\ \A j \in Slots \ {i} : op'[j] = op[j]
  BY <1>2
<1>4. ASSUME NEW l PROVE Under(l)' = Under(l) \ {i}
  BY <1>3 DEF Under
<1>5. ASSUME NEW l, l # k PROVE i \notin Under(l)
  BY <1>5 DEF Under
<1>6. ASSUME NEW j \in Slots, queue'[j] # None
      PROVE  /\ op'[j] # None /\ op'[j].at = "index" /\ queue'[j] \in {idx', Torn}
             /\ queue'[j] \in Indexes \cup {Torn}
  <2>1. queue[j] # None /\ j # i /\ queue'[j] = queue[j] /\ idx' = idx
    BY <1>6
  <2>2. op[j] # None /\ op[j].at = "index" /\ queue[j] \in {idx, Torn}
    BY <2>1 DEF LibraryIInv, Queued
  <2> QED BY <2>1, <2>2, <1>3
<1>7. TypeOK'
  <2>1. DOMAIN art = Names /\ \A m \in Names : art[m] \in {None, Torn} \/ art[m] \in Contents(m)
    BY DEF LibraryIInv, TypeOK
  <2>2. \A l \in Slugs : idx'[l] # None => Slug[idx'[l].name] = l
    BY DEF LibraryIInv, TypeOK
  <2> QED BY <2>1, <2>2, <1>3, <1>6 DEF TypeOK
<1>8. Queued'
  BY <1>6 DEF LibraryIInv, Queued
<1>9. Shapes'
  <2>1. ASSUME NEW j \in Slots, op'[j] # None PROVE Shape(op[j])'
    <3>1. Shape(op[j]) /\ op'[j] = op[j]
      BY <2>1, <1>3 DEF LibraryIInv, Shapes
    <3> QED BY <3>1 DEF Shape
  <2> QED BY <2>1 DEF Shapes
<1>10. ASSUME NEW l \in Slugs, l # k, l \notin upset' PROVE Agrees(l)' <=> Agrees(l)
  BY <1>10 DEF Agrees
<1>11. LeftAlone'
  <2> SUFFICES ASSUME NEW l \in Slugs \ upset', Under(l)' = {} PROVE Agrees(l)'
    BY DEF LeftAlone
  <2>1. CASE l = k
    BY <2>1
  <2>2. CASE l # k
    <3>1. l \notin upset /\ Under(l) = {}
      BY <2>2, <1>4, <1>5
    <3> QED BY <3>1, <2>2, <1>10 DEF LibraryIInv, LeftAlone
  <2> QED BY <2>1, <2>2
<1>12. ASSUME NEW j \in Slots, NEW r \in Operations, r = op'[j], r.lone
       PROVE  Under(Slug[r.name])' = {j} /\ Spellings(r.name)' = {} /\ OnWay(r)'
  <2>0. r # None
    BY LibraryAssumption DEF LibraryAssumption
  <2>1. j # i /\ r = op[j]
    BY <2>0, <1>3, <1>12
  <2>2. Under(Slug[r.name]) = {j} /\ Spellings(r.name) = {} /\ OnWay(r)
    BY <2>1, <1>12 DEF LibraryIInv, Lones
  <2>3. Slug[r.name] # k /\ r.name \in Names /\ Slug[r.name] \in Slugs
    BY <2>0, <2>1, <2>2, OpIs DEF LibraryIInv, Under
  <2>4. Under(Slug[r.name])' = {j} /\ Spellings(r.name)' = {}
    BY <2>1, <2>2, <1>4 DEF Spellings
  <2>5. \/ Slug[r.name] \in upset'
        \/ /\ idx'[Slug[r.name]] = idx[Slug[r.name]] /\ Slug[r.name] \notin upset
           /\ Agrees(Slug[r.name])' <=> Agrees(Slug[r.name])
    BY <2>3, <1>10
  <2>6. OnWay(r)'
    BY <2>2, <2>5 DEF OnWay, FileKept
  <2> QED BY <2>4, <2>6
<1>13. Lones'
  BY <1>12 DEF Lones
<1> QED BY <1>7, <1>8, <1>9, <1>11, <1>13 DEF LibraryIInv

(* An operation begins: it is alone on its slug only if nothing else is    *)
(* under way there and no other spelling has a file, and those that were   *)
(* under way are not alone any more.                                       *)
LEMMA Begins ==
  ASSUME LibraryIInv, NEW kind \in Kinds, NEW n \in Names, NEW at \in Stages,
         NEW has \in {None} \cup AnyContents \cup Entries,
         Begin(kind, n, at, has), UNCHANGED <<disk, queue, upset>>,
         at \in {"read", "remove", "write"}, at = "write" => kind = "write" /\ has \in Contents(n),
         kind = "delete" => at = "remove" /\ has = None, at = "remove" => kind = "delete"
  PROVE  LibraryIInv'
<1> PICK i \in Slots :
      /\ op[i] = None
      /\ op' = [j \in Slots |->
           CASE j = i -> [kind |-> kind, name |-> n, at |-> at, has |-> has, linked |-> FALSE,
                          lone |-> Under(Slug[n]) = {} /\ Spellings(n) = {}]
             [] j \in Under(Slug[n]) -> [op[j] EXCEPT !.lone = FALSE]
             [] OTHER -> op[j]]
  BY DEF Begin
<1> DEFINE q == [kind |-> kind, name |-> n, at |-> at, has |-> has, linked |-> FALSE,
                 lone |-> Under(Slug[n]) = {} /\ Spellings(n) = {}]
           k == Slug[n]
<1>1. k \in Slugs /\ i \notin Under(k)
  BY Slugged DEF Under
<1>2. op'[i] = q /\ (\A j \in Under(k) : op'[j] = [op[j] EXCEPT !.lone = FALSE])
      /\ (\A j \in Slots : j # i /\ j \notin Under(k) => op'[j] = op[j])
  BY <1>1 DEF Under
<1>3. q \in Operations /\ q.name = n /\ q.kind = kind /\ q.at = at /\ q.has = has
  BY DEF Operations
<1>0. q.lone => Under(k) = {} /\ Spellings(n) = {}
  BY Zenon
<1> HIDE DEF q
<1>4. None \notin Operations
  BY LibraryAssumption DEF LibraryAssumption
<1>5. ASSUME NEW j \in Under(k)
      PROVE  /\ op'[j] \in Operations /\ op'[j].name = op[j].name /\ ~op'[j].lone
             /\ op'[j].at = op[j].at /\ op'[j].kind = op[j].kind /\ op'[j].has = op[j].has
  <2>1. op[j] \in Operations
    BY OpIs DEF LibraryIInv, Under
  <2>2. op'[j] = [op[j] EXCEPT !.lone = FALSE]
    BY <1>2
  <2> QED BY ONLY <2>1, <2>2 DEF Operations
<1>6. op' \in [Slots -> {None} \cup Operations]
  <2>1. op \in [Slots -> {None} \cup Operations]
    BY DEF LibraryIInv, TypeOK
  <2>2. ASSUME NEW j \in Slots PROVE op'[j] \in {None} \cup Operations
    BY <2>1, <1>2, <1>3, <1>5
  <2>3. op' = [j \in Slots |-> op'[j]]
    OBVIOUS
  <2> QED BY <2>2, <2>3
<1>7. ASSUME NEW l PROVE Under(l)' = IF l = k THEN Under(l) \cup {i} ELSE Under(l)
  <2>1. ASSUME NEW j \in Slots, j # i
        PROVE  (op'[j] # None /\ Slug[op'[j].name] = l) <=> (op[j] # None /\ Slug[op[j].name] = l)
    <3>1. CASE j \in Under(k)
      <4>1. op[j] # None
        BY <3>1 DEF Under
      <4> QED BY <3>1, <4>1, <1>4, <1>5
    <3>2. CASE j \notin Under(k)
      BY <2>1, <3>2, <1>2
    <3> QED BY <3>1, <3>2
  <2>2. op'[i] # None /\ Slug[op'[i].name] = k
    BY <1>2, <1>3, <1>4
  <2> QED BY <2>1, <2>2, <1>1 DEF Under
<1>8. ASSUME NEW j \in Slots, op[j] # None PROVE j # i /\ op'[j] # None /\ op'[j].at = op[j].at
  BY <1>2, <1>4, <1>5, <1>8
<1>9. TypeOK'
  <2>1. DOMAIN queue = Slots /\ \A j \in Slots : queue[j] # None =>
          op[j] # None /\ op[j].at = "index" /\ queue[j] \in Indexes \cup {Torn}
    BY DEF LibraryIInv, TypeOK
  <2>2. DOMAIN art = Names /\ \A m \in Names : art[m] \in {None, Torn} \/ art[m] \in Contents(m)
    BY DEF LibraryIInv, TypeOK
  <2>3. idx \in Indexes /\ (\A l \in Slugs : idx[l] # None => Slug[idx[l].name] = l) /\ upset \subseteq Slugs
    BY DEF LibraryIInv, TypeOK
  <2>4. art' = art /\ idx' = idx /\ queue' = queue /\ upset' = upset
    BY DEF disk
  <2> QED BY <2>1, <2>2, <2>3, <2>4, <1>6, <1>8 DEF TypeOK
<1>10. Queued'
  BY <1>8 DEF LibraryIInv, Queued, disk
<1>11. Shapes'
  <2>1. ASSUME NEW j \in Slots, op'[j] # None PROVE Shape(op[j])'
    <3>1. CASE j = i
      BY <3>1, <1>2, <1>3 DEF Shape
    <3>2. CASE j \in Under(k)
      <4>1. Shape(op[j])
        BY <3>2 DEF LibraryIInv, Shapes, Under
      <4> QED BY <4>1, <3>2, <1>5 DEF Shape
    <3>3. CASE j # i /\ j \notin Under(k)
      <4>1. Shape(op[j]) /\ op'[j] = op[j]
        BY <2>1, <3>3, <1>2 DEF LibraryIInv, Shapes
      <4> QED BY <4>1 DEF Shape
    <3> QED BY <3>1, <3>2, <3>3
  <2> QED BY <2>1 DEF Shapes
<1>12. ASSUME NEW l PROVE (Agrees(l)' <=> Agrees(l)) /\ (Spellings(l)' = Spellings(l))
  BY DEF Agrees, Spellings, disk
<1>13. LeftAlone'
  <2> SUFFICES ASSUME NEW l \in Slugs \ upset, Under(l)' = {} PROVE Agrees(l)'
    BY DEF LeftAlone
  <2>1. Under(l) = {}
    BY <1>7
  <2> QED BY <2>1, <1>12 DEF LibraryIInv, LeftAlone
<1>14. ASSUME NEW j \in Slots, NEW r \in Operations, r = op'[j], r.lone
       PROVE  Under(Slug[r.name])' = {j} /\ Spellings(r.name)' = {} /\ OnWay(r)'
  <2>1. CASE j = i
    <3>1. r = q
      BY <2>1, <1>2, <1>14
    <3>2. r.name = n /\ r.at = at /\ r.kind = kind /\ Under(k) = {} /\ Spellings(n) = {}
      BY <3>1, <1>14, <1>0, <1>3
    <3>3. Under(k)' = {i} /\ Spellings(n)' = {}
      BY <3>2, <1>7, <1>12
    <3>4. k \in upset \/ Agrees(k)'
      BY <3>2, <1>1, <1>12 DEF LibraryIInv, LeftAlone
    <3>5. OnWay(r)'
      BY <3>2, <3>4 DEF OnWay
    <3> QED BY <2>1, <3>2, <3>3, <3>5
  <2>2. CASE j # i
    <3>1. r = op[j] /\ j \notin Under(k)
      BY <2>2, <1>2, <1>5, <1>14
    <3>2. Under(Slug[r.name]) = {j} /\ Spellings(r.name) = {} /\ OnWay(r)
      BY <3>1, <1>14 DEF LibraryIInv, Lones
    <3>3. Slug[r.name] # k
      BY <3>1, <3>2
    <3>4. OnWay(r)'
      BY <3>2, <1>12 DEF OnWay, FileKept, disk
    <3> QED BY <3>2, <3>3, <3>4, <1>7, <1>12
  <2> QED BY <2>1, <2>2
<1>15. Lones'
  BY <1>14 DEF Lones
<1> QED BY <1>9, <1>10, <1>11, <1>13, <1>15 DEF LibraryIInv

-----------------------------------------------------------------------------
(* The steps.                                                              *)
LEMMA CallsKeep == ASSUME LibraryIInv, Calls PROVE LibraryIInv'
<1> PICK n \in Names : \/ Refinalize(n) \/ Annotate(n) \/ Delete(n) \/ Discard(n)
                       \/ \E new \in Contents(n) : Finalize(n, new)
  BY DEF Calls
<1>1. CASE Refinalize(n)
  BY <1>1, Begins DEF Refinalize, Kinds, Stages
<1>2. CASE Annotate(n)
  BY <1>2, Begins DEF Annotate, Kinds, Stages
<1>3. CASE Delete(n) \/ Discard(n)
  BY <1>3, Begins DEF Delete, Discard, Kinds, Stages
<1>4. ASSUME NEW new \in Contents(n), Finalize(n, new) PROVE LibraryIInv'
  <2>1. new \in AnyContents
    BY ContentsAre
  <2> QED BY <1>4, <2>1, Begins DEF Finalize, Kinds, Stages
<1> QED BY <1>1, <1>2, <1>3, <1>4

LEMMA ReadsKeeps == ASSUME LibraryIInv, NEW i \in Slots, Reads(i) PROVE LibraryIInv'
<1>1. PICK n \in Names : n = op[i].name
  BY OpIs DEF LibraryIInv, Reads
<1>2. op[i] # None /\ op[i] \in Operations /\ op[i].at = "read" /\ Slug[n] \in Slugs
      /\ op \in [Slots -> {None} \cup Operations]
  BY <1>1, OpIs DEF LibraryIInv, TypeOK, Reads
<1>3. op[i].lone => Slug[n] \in upset \/ Agrees(Slug[n])
  BY <1>1, <1>2 DEF LibraryIInv, Lones, OnWay
<1>4. art' = art /\ idx' = idx /\ queue' = queue
  BY DEF Reads, disk
<1>5. queue[i] = None
  BY <1>2 DEF LibraryIInv, Queued
<1>6. CASE art[n] \in {None, Torn}
  <2>1. op' = [op EXCEPT ![i] = None] /\ upset' = upset \cup (IF op[i].lone THEN {} ELSE {Slug[n]})
    BY <1>1, <1>6 DEF Reads
  <2>2. idx \in Indexes /\ idx[Slug[n]] # None => Slug[idx[Slug[n]].name] = Slug[n]
    BY <1>2 DEF LibraryIInv, TypeOK
  <2>3. idx \in Indexes /\ DOMAIN queue = Slots /\ upset \subseteq Slugs
    BY DEF LibraryIInv, TypeOK
  <2>4. Agrees(Slug[n]) => Agrees(Slug[n])'
    BY <1>4 DEF Agrees
  <2>5. upset' \subseteq Slugs /\ (\A l \in Slugs \ {Slug[n]} : l \in upset' \/ l \notin upset)
        /\ (Slug[n] \in upset' \/ (op[i].lone /\ Agrees(Slug[n])'))
    BY <2>1, <2>3, <2>4, <1>2, <1>3
  <2>6. EndsWell(i, Slug[n])
    BY <1>1, <1>2, <1>4, <1>5, <2>1, <2>2, <2>3, <2>5 DEF EndsWell
  <2> QED BY <1>1, <1>2, <2>6, Ends
<1>7. CASE art[n] \notin {None, Torn}
  <2>1. PICK m \in Edits[n], t \in Edits[n] :
          /\ op[i].kind = "annotate" => t = art[n].steps
          /\ op' = [op EXCEPT ![i].at = "write", ![i].has = [steps |-> t, meta |-> m]]
    BY <1>1, <1>7 DEF Reads
  <2>2. [steps |-> t, meta |-> m] \in Contents(n) /\ [steps |-> t, meta |-> m] \in AnyContents
    BY <1>1, ContentsAre DEF Contents
  <2> PICK q \in Operations : q = [op[i] EXCEPT !.at = "write", !.has = [steps |-> t, meta |-> m]]
    BY <1>2, <2>2 DEF Operations, Stages
  <2>3. /\ q \in Operations /\ q.name = n /\ q.at = "write" /\ q.kind = op[i].kind
        /\ q.lone = op[i].lone /\ q.has = [steps |-> t, meta |-> m]
    BY <1>1, <1>2, <2>2 DEF Operations, Stages
  <2>4. op' = [op EXCEPT ![i] = q]
    BY <1>2, <2>1
  <2>5. op' \in [Slots -> {None} \cup Operations] /\ op'[i] = q /\ \A j \in Slots \ {i} : op'[j] = op[j]
    BY <1>2, <2>3, <2>4
  <2>6. q.kind # "delete"
    BY <1>2, <2>3 DEF LibraryIInv, Shapes, Shape
  <2>7. Shape(q)
    BY <2>2, <2>3, <2>6 DEF Shape, Operations, Kinds
  <2>8. upset' = upset
    BY <1>1, <1>7 DEF Reads
  <2>9. DOMAIN art = Names /\ art[n] \in {None, Torn} \cup Contents(n)
    BY <1>1 DEF LibraryIInv, TypeOK
  <2>10. ASSUME q.lone PROVE OnWay(q)'
    <3>1. Slug[n] \in upset' \/ Agrees(Slug[n])'
      BY <1>3, <1>4, <2>3, <2>8, <2>10 DEF Agrees
    <3> QED BY <3>1, <2>1, <2>3, <1>4, <1>7 DEF OnWay
  <2> QED BY <1>1, <1>2, <1>4, <1>5, <2>3, <2>5, <2>7, <2>8, <2>9, <2>10, Goes
<1> QED BY <1>6, <1>7

LEMMA OpensKeeps == ASSUME LibraryIInv, NEW i \in Slots, Opens(i) PROVE LibraryIInv'
<1>1. PICK n \in Names : n = op[i].name
  BY OpIs DEF LibraryIInv, Opens
<1>2. op[i] # None /\ op[i] \in Operations /\ op[i].at = "write" /\ op \in [Slots -> {None} \cup Operations]
  BY <1>1, OpIs DEF LibraryIInv, TypeOK, Opens
<1> PICK q \in Operations : q = [op[i] EXCEPT !.at = "written", !.linked = TRUE]
  BY <1>2 DEF Operations, Stages
<1>3. /\ q.name = n /\ q.at = "written" /\ q.kind = op[i].kind
      /\ q.lone = op[i].lone /\ q.has = op[i].has /\ q.linked
  BY <1>1, <1>2 DEF Operations
<1>4. op' = [op EXCEPT ![i] = q]
  BY <1>2 DEF Opens
<1>5. op' \in [Slots -> {None} \cup Operations] /\ op'[i] = q /\ \A j \in Slots \ {i} : op'[j] = op[j]
  BY <1>2, <1>3, <1>4
<1>6. Shape(op[i])
  BY <1>2 DEF LibraryIInv, Shapes
<1>7. Shape(q)
  BY <1>1, <1>2, <1>3, <1>6 DEF Shape
<1>8. art' = [art EXCEPT ![n] = Torn] /\ DOMAIN art = Names
  BY <1>1 DEF Opens, LibraryIInv, TypeOK
<1>11. UNCHANGED <<idx, queue, upset>>
  BY DEF Opens
<1>9. art'[n] = Torn /\ art'[n] \in {None, Torn} \cup Contents(n) /\ DOMAIN art' = Names
      /\ \A m \in Names \ {n} : art'[m] = art[m]
  BY <1>8
<1>10. ASSUME q.lone PROVE OnWay(q)'
  <2>1. OnWay(op[i])
    BY <1>2, <1>3, <1>10 DEF LibraryIInv, Lones
  <2>2. ASSUME q.kind = "annotate", Slug[n] \notin upset
        PROVE  idx[Slug[n]] # None /\ idx[Slug[n]].name = n /\ idx[Slug[n]].steps = q.has.steps
    <3>1. art[n] # None /\ q.has.steps = art[n].steps /\ Agrees(Slug[n])
      BY <1>1, <1>2, <1>3, <2>1, <2>2 DEF OnWay
    <3> QED BY <3>1 DEF Agrees
  <2> QED BY <1>3, <1>9, <1>11, <2>2 DEF OnWay, FileKept
<1> QED BY <1>1, <1>2, <1>3, <1>5, <1>7, <1>9, <1>10, <1>11, Goes, ZenonT(40)

LEMMA WroteKeeps == ASSUME LibraryIInv, NEW i \in Slots, Wrote(i) PROVE LibraryIInv'
<1>1. PICK n \in Names : n = op[i].name
  BY OpIs DEF LibraryIInv, Wrote
<1>2. op[i] # None /\ op[i] \in Operations /\ op[i].at = "written" /\ op \in [Slots -> {None} \cup Operations]
  BY <1>1, OpIs DEF LibraryIInv, TypeOK, Wrote
<1>3. Shape(op[i])
  BY <1>2 DEF LibraryIInv, Shapes
<1>4. PICK c \in Contents(n) : c = op[i].has
  BY <1>1, <1>2, <1>3 DEF Shape
<1>5. op[i].kind \in {"write", "annotate"}
  BY <1>2, <1>3 DEF Shape, Operations, Kinds
<1>6. PICK q \in Operations :
        /\ q = IF op[i].kind = "annotate" THEN [op[i] EXCEPT !.at = "look", !.linked = FALSE]
               ELSE [op[i] EXCEPT !.at = "index", !.linked = FALSE, !.has = Entry(n, c)]
        /\ q.name = n /\ q.kind = op[i].kind /\ q.lone = op[i].lone
        /\ q.kind = "annotate" => q.at = "look" /\ q.has = c
        /\ q.kind # "annotate" => q.at = "index" /\ q.has = Entry(n, c)
  <2>1. CASE op[i].kind = "annotate"
    <3>1. [op[i] EXCEPT !.at = "look", !.linked = FALSE] \in Operations
      BY <1>2 DEF Operations, Stages
    <3> QED BY <1>1, <1>2, <1>4, <2>1, <3>1 DEF Operations
  <2>2. CASE op[i].kind # "annotate"
    <3>1. Entry(n, c) \in Entries
      BY <1>4, ContentsAre
    <3>2. [op[i] EXCEPT !.at = "index", !.linked = FALSE, !.has = Entry(n, c)] \in Operations
      BY <1>2, <3>1 DEF Operations, Stages
    <3> QED BY <1>1, <1>2, <2>2, <3>2 DEF Operations
  <2> QED BY <2>1, <2>2
<1>7. op' = [op EXCEPT ![i] = q]
  <2>1. op' = [op EXCEPT ![i] = IF op[i].kind = "annotate" THEN [op[i] EXCEPT !.at = "look", !.linked = FALSE]
                                ELSE [op[i] EXCEPT !.at = "index", !.linked = FALSE,
                                               !.has = Entry(op[i].name, op[i].has)]]
    BY <1>2 DEF Wrote
  <2>2. q = IF op[i].kind = "annotate" THEN [op[i] EXCEPT !.at = "look", !.linked = FALSE]
            ELSE [op[i] EXCEPT !.at = "index", !.linked = FALSE, !.has = Entry(op[i].name, op[i].has)]
    BY <1>1, <1>4, <1>6
  <2> QED BY ONLY <2>1, <2>2
<1>8. op' \in [Slots -> {None} \cup Operations] /\ op'[i] = q /\ \A j \in Slots \ {i} : op'[j] = op[j]
  BY <1>2, <1>7
<1>9. Entry(n, c) \in Entries /\ Entry(n, c).name = n
      /\ [steps |-> Entry(n, c).steps, meta |-> Entry(n, c).meta] = c
  BY <1>4, ContentsAre
<1>10. Shape(q)
  BY <1>5, <1>6, <1>9 DEF Shape
<1>11. /\ art' = IF op[i].linked THEN [art EXCEPT ![n] = c] ELSE art
       /\ DOMAIN art = Names /\ art[n] \in {None, Torn} \cup Contents(n) /\ UNCHANGED <<idx, queue, upset>>
  BY <1>1, <1>4 DEF Wrote, LibraryIInv, TypeOK
<1>12. /\ art'[n] \in {None, Torn} \cup Contents(n) /\ DOMAIN art' = Names
       /\ \A m \in Names \ {n} : art'[m] = art[m]
       /\ op[i].linked => art'[n] = c
  BY <1>11, <1>4
<1>13. ASSUME q.lone PROVE OnWay(q)'
  <2>1. OnWay(op[i])
    BY <1>2, <1>6, <1>13 DEF LibraryIInv, Lones
  <2>2. op[i].linked /\ FileKept(op[i])
    BY <1>2, <2>1 DEF OnWay
  <2>3. art'[n] = c
    BY <2>2, <1>12
  <2>4. CASE q.kind = "annotate"
    <3>1. Slug[n] \notin upset => idx[Slug[n]] # None /\ idx[Slug[n]].name = n /\ idx[Slug[n]].steps = c.steps
      BY <1>1, <1>4, <1>6, <2>2, <2>4 DEF FileKept
    <3> QED BY <1>6, <1>11, <2>3, <2>4, <3>1 DEF OnWay, FileKept
  <2>5. CASE q.kind # "annotate"
    BY <1>5, <1>6, <1>9, <2>3, <2>5 DEF OnWay
  <2> QED BY <2>4, <2>5
<1> QED BY <1>1, <1>2, <1>6, <1>8, <1>10, <1>11, <1>12, <1>13, Goes

LEMMA LooksKeeps == ASSUME LibraryIInv, NEW i \in Slots, Looks(i) PROVE LibraryIInv'
<1>1. PICK n \in Names : n = op[i].name
  BY OpIs DEF LibraryIInv, Looks
<1>2. op[i] # None /\ op[i] \in Operations /\ op[i].at = "look" /\ Slug[n] \in Slugs
      /\ op \in [Slots -> {None} \cup Operations]
  BY <1>1, OpIs DEF LibraryIInv, TypeOK, Looks
<1>3. Shape(op[i])
  BY <1>2 DEF LibraryIInv, Shapes
<1>4. PICK c \in Contents(n) : c = op[i].has
  BY <1>1, <1>2, <1>3 DEF Shape
<1>5. op[i].kind = "annotate"
  BY <1>2, <1>3 DEF Shape, Operations, Kinds
<1>6. c \in AnyContents /\ Entry(n, c) \in Entries /\ Entry(n, c).name = n
      /\ Entry(n, c).steps = c.steps /\ Entry(n, c).meta = c.meta
      /\ c = [steps |-> c.steps, meta |-> c.meta]
  BY <1>4, ContentsAre
<1>0. PICK e \in {idx[Slug[op[i].name]], None} :
        op' = [op EXCEPT ![i].at = "index", ![i].has = Annotated(e, i)]
  BY DEF Looks
<1>7. e \in {idx[Slug[n]], None} /\ (e = None \/ (e \in Entries /\ Slug[e.name] = Slug[n]))
  BY <1>0, <1>1, <1>2 DEF LibraryIInv, TypeOK, Indexes
<1>8. PICK h \in Entries : /\ h = Annotated(e, i) /\ Slug[h.name] = Slug[n] /\ h.meta = c.meta
                           /\ e = None => h = Entry(n, c)
                           /\ e # None => h.name = e.name /\ h.steps = e.steps
  <2>1. CASE e = None
    BY <1>1, <1>4, <1>6, <2>1 DEF Annotated
  <2>2. CASE e # None
    <3>1. [e EXCEPT !.meta = c.meta] \in Entries
      BY <1>6, <1>7, <2>2 DEF Entries, AnyContents
    <3>2. Annotated(e, i) = [e EXCEPT !.meta = c.meta]
      BY <1>4, <2>2 DEF Annotated
    <3> QED BY <1>7, <2>2, <3>1, <3>2 DEF Entries
  <2> QED BY <2>1, <2>2
<1> PICK q \in Operations : q = [op[i] EXCEPT !.at = "index", !.has = h]
  BY <1>2 DEF Operations, Stages
<1>9. q.name = n /\ q.kind = "annotate" /\ q.lone = op[i].lone /\ q.at = "index" /\ q.has = h
  BY <1>1, <1>2, <1>5 DEF Operations
<1>10. op' = [op EXCEPT ![i] = q]
  BY <1>0, <1>1, <1>2, <1>8
<1>11. op' \in [Slots -> {None} \cup Operations] /\ op'[i] = q /\ \A j \in Slots \ {i} : op'[j] = op[j]
  BY <1>2, <1>10
<1>12. Shape(q)
  BY <1>8, <1>9 DEF Shape
<1>13. UNCHANGED <<art, idx, queue, upset>> /\ DOMAIN art = Names /\ art[n] \in {None, Torn} \cup Contents(n)
  BY DEF Looks, disk, LibraryIInv, TypeOK
<1>14. ASSUME q.lone PROVE OnWay(q)'
  <2>1. OnWay(op[i])
    BY <1>2, <1>9, <1>14 DEF LibraryIInv, Lones
  <2>2. art[n] = c /\ (Slug[n] \notin upset => e = None \/ (e.name = n /\ e.steps = c.steps))
    BY <1>1, <1>2, <1>4, <1>5, <1>7, <2>1 DEF OnWay, FileKept
  <2>3. Slug[n] \notin upset => h.name = n /\ [steps |-> h.steps, meta |-> h.meta] = c
    BY <1>6, <1>8, <2>2
  <2> QED BY <1>9, <1>13, <2>2, <2>3 DEF OnWay
<1> QED BY <1>1, <1>2, <1>9, <1>11, <1>12, <1>13, <1>14, Goes

LEMMA RemovesKeeps == ASSUME LibraryIInv, NEW i \in Slots, Removes(i) PROVE LibraryIInv'
<1>1. PICK n \in Names : n = op[i].name
  BY OpIs DEF LibraryIInv, Removes
<1>2. op[i] # None /\ op[i] \in Operations /\ op[i].at = "remove" /\ op \in [Slots -> {None} \cup Operations]
  BY <1>1, OpIs DEF LibraryIInv, TypeOK, Removes
<1>3. op[i].kind = "delete" /\ op[i].has = None
  BY <1>2 DEF LibraryIInv, Shapes, Shape, Operations, Kinds
<1>4. UNCHANGED <<idx, queue, upset>>
  BY DEF Removes
<1>5. DOMAIN art = Names /\ art[n] \in {None, Torn} \cup Contents(n)
  BY <1>1 DEF LibraryIInv, TypeOK
<1>6. CASE /\ art' = [art EXCEPT ![op[i].name] = None]
           /\ op' = [j \in Slots |->
                IF j = i THEN [op[i] EXCEPT !.at = "index"]
                ELSE IF op[j] # None /\ op[j].name = op[i].name
                THEN [op[j] EXCEPT !.linked = FALSE] ELSE op[j]]
  <2> PICK q \in Operations : q = [op[i] EXCEPT !.at = "index"]
    BY <1>2 DEF Operations, Stages
  <2>1. q.name = n /\ q.kind = "delete" /\ q.has = None /\ q.at = "index" /\ q.lone = op[i].lone
    BY <1>1, <1>2, <1>3 DEF Operations
  <2>2. ASSUME NEW j \in Slots, op[j] # None PROVE [op[j] EXCEPT !.linked = FALSE] \in Operations
    <3>1. op[j] \in Operations
      BY <1>2, <2>2
    <3> QED BY ONLY <3>1 DEF Operations
  <2>3. op' \in [Slots -> {None} \cup Operations] /\ op'[i] = q
    BY <1>2, <1>6, <2>2
  <2>4. ASSUME NEW j \in Slots \ {i}
        PROVE  \/ op'[j] = op[j]
               \/ /\ op[j] # None /\ op[j].name = op[i].name
                  /\ op'[j] = [op[j] EXCEPT !.linked = FALSE]
    BY <1>6, <2>4
  <2>5. /\ art'[n] = None /\ art'[n] \in {None, Torn} \cup Contents(n)
        /\ DOMAIN art' = Names /\ \A m \in Names \ {n} : art'[m] = art[m]
    BY <1>1, <1>5, <1>6
  <2>6. Shape(q)
    BY <2>1 DEF Shape
  <2>7. ASSUME q.lone PROVE OnWay(q)'
    BY <2>1, <2>5 DEF OnWay
  <2> QED BY <1>1, <1>2, <1>4, <2>1, <2>3, <2>4, <2>5, <2>6, <2>7, Goes
<1>7. CASE op' = [op EXCEPT ![i].at = "index", ![i].lone = FALSE] /\ UNCHANGED art
  <2> PICK q \in Operations : q = [op[i] EXCEPT !.at = "index", !.lone = FALSE]
    BY <1>2 DEF Operations, Stages
  <2>1. q.name = n /\ q.kind = "delete" /\ q.has = None /\ q.at = "index" /\ ~q.lone
    BY <1>1, <1>2, <1>3 DEF Operations
  <2>2. op' = [op EXCEPT ![i] = q]
    BY <1>2, <1>7
  <2>3. op' \in [Slots -> {None} \cup Operations] /\ op'[i] = q /\ \A j \in Slots \ {i} : op'[j] = op[j]
    BY <1>2, <2>2
  <2>4. Shape(q)
    BY <2>1 DEF Shape
  <2>5. art' = art
    BY <1>7
  <2> QED BY <1>1, <1>2, <1>4, <1>5, <2>1, <2>3, <2>4, <2>5, Goes
<1> QED BY <1>6, <1>7 DEF Removes

LEMMA ReadsIndexKeeps == ASSUME LibraryIInv, NEW i \in Slots, ReadsIndex(i) PROVE LibraryIInv'
<1>1. PICK read \in {idx, Torn} :
        /\ op[i] # None /\ op[i].at = "index" /\ queue' = [queue EXCEPT ![i] = read]
        /\ \A j \in Slots : queue[j] = None
  BY DEF ReadsIndex, Free
<1>2. art' = art /\ idx' = idx /\ op' = op /\ upset' = upset
  BY DEF ReadsIndex, disk
<1>3. idx \in Indexes /\ DOMAIN queue = Slots
  BY DEF LibraryIInv, TypeOK
<1>4. \A j \in Slots : queue'[j] = IF j = i THEN read ELSE None
  BY <1>1, <1>3
<1>5. TypeOK'
  BY <1>1, <1>2, <1>3, <1>4 DEF LibraryIInv, TypeOK
<1>6. Queued'
  BY <1>1, <1>2, <1>4 DEF LibraryIInv, Queued
<1>7. Shapes' /\ Lones' /\ LeftAlone'
  BY <1>2 DEF LibraryIInv, Shapes, Shape, Lones, OnWay, FileKept, LeftAlone, Agrees, Under, Spellings
<1> QED BY <1>5, <1>6, <1>7 DEF LibraryIInv

(* The write of an entry: what it puts there agrees with the file when     *)
(* nothing else was under way.                                             *)
LEMMA WritesIndexKeeps == ASSUME LibraryIInv, NEW i \in Slots, WritesIndex(i) PROVE LibraryIInv'
<1>1. queue[i] # None /\ op[i] # None /\ op[i].at = "index" /\ queue[i] \in {idx, Torn}
  BY DEF LibraryIInv, Queued, WritesIndex
<1>2. PICK n \in Names, k \in Slugs : n = op[i].name /\ k = Slug[n]
  BY <1>1, OpIs DEF LibraryIInv
<1>3. op[i] \in Operations /\ idx \in Indexes /\ DOMAIN queue = Slots /\ upset \subseteq Slugs
  BY <1>1, OpIs DEF LibraryIInv, TypeOK
<1>4. op' = [op EXCEPT ![i] = None] /\ art' = art
      /\ queue' = [queue EXCEPT ![i] = None]
      /\ idx' = IF Finds(i) THEN [IndexRead(i) EXCEPT ![k] = op[i].has] ELSE idx
  BY <1>1, <1>2 DEF WritesIndex, End
<1>5. upset' = (IF ~op[i].lone \/ (op[i].kind = "delete" /\ queue[i] = Torn) THEN upset \cup {k}
                ELSE IF op[i].kind = "annotate" THEN upset ELSE upset \ {k}) \cup Dropped(i)
  BY <1>2 DEF WritesIndex, End, Settle
<1>6. (op[i].has = None /\ op[i].kind = "delete") \/ (op[i].kind # "delete" /\ op[i].has \in Entries /\ Slug[op[i].has.name] = k)
  BY <1>1, <1>2 DEF LibraryIInv, Shapes, Shape
<1>7. /\ idx' \in Indexes /\ \A l \in Slugs \ {k} : idx'[l] = idx[l] \/ (idx'[l] = None /\ l \in Dropped(i))
      /\ idx'[k] = op[i].has \/ (op[i].kind = "delete" /\ queue[i] = Torn /\ idx' = idx)
  <2>1. EmptyIndex \in Indexes /\ \A l \in Slugs : EmptyIndex[l] = None
    BY DEF EmptyIndex, Indexes
  <2>2. CASE Finds(i) /\ queue[i] = Torn
    <3>1. idx' = [EmptyIndex EXCEPT ![k] = op[i].has]
      BY <1>4, <2>2 DEF IndexRead
    <3>2. idx' \in Indexes /\ idx'[k] = op[i].has /\ \A l \in Slugs \ {k} : idx'[l] = None
      BY <1>2, <1>6, <2>1, <3>1 DEF Indexes
    <3>3. Dropped(i) = {l \in Slugs \ {k} : idx[l] # None}
      BY <1>2, <2>2 DEF Dropped
    <3> QED BY <3>2, <3>3
  <2>3. CASE Finds(i) /\ queue[i] # Torn
    <3>1. idx' = [idx EXCEPT ![k] = op[i].has]
      BY <1>1, <1>4, <2>3 DEF IndexRead
    <3> QED BY <1>2, <1>3, <1>6, <3>1 DEF Indexes
  <2>4. CASE ~Finds(i)
    <3>1. idx' = idx /\ op[i].kind = "delete" /\ IndexRead(i)[k] = None
      BY <1>2, <1>4, <2>4 DEF Finds
    <3>2. queue[i] = Torn \/ idx[k] = None
      BY <1>1, <3>1 DEF IndexRead
    <3> QED BY <1>3, <1>6, <3>1, <3>2
  <2> QED BY <2>2, <2>3, <2>4
<1>8. \A j \in Slots : queue'[j] = None
  BY <1>1, <1>3, <1>4 DEF LibraryIInv, Queued
<1>9. DOMAIN queue' = Slots
  BY <1>3, <1>4
<1>10. upset' \subseteq Slugs /\ \A l \in Slugs \ {k} : l \in upset' \/ (l \notin upset /\ idx'[l] = idx[l])
  <2>1. Dropped(i) \subseteq Slugs
    BY DEF Dropped
  <2> QED BY <1>2, <1>3, <1>5, <1>7, <2>1
<1>11. idx'[k] # None => Slug[idx'[k].name] = k
  BY <1>2, <1>6, <1>7 DEF LibraryIInv, TypeOK
<1>12. ASSUME k \notin upset' PROVE op[i].lone /\ Agrees(k)'
  <2>1. /\ op[i].lone /\ (op[i].kind = "annotate" => k \notin upset)
        /\ op[i].kind = "delete" => queue[i] # Torn
    BY <1>5, <1>12
  <2>6. idx'[k] = op[i].has
    BY <1>7, <2>1
  <2>2. Spellings(n) = {} /\ OnWay(op[i])
    BY <1>2, <1>3, <2>1 DEF LibraryIInv, Lones
  <2>3. ASSUME NEW m \in Names, Slug[m] = k, m # n PROVE art'[m] = None
    BY <1>2, <1>4, <2>2, <2>3 DEF Spellings
  <2>4. CASE op[i].kind = "delete"
    <3>1. art'[n] = None /\ idx'[k] = None
      BY <1>1, <1>2, <1>4, <1>6, <2>6, <2>2, <2>4 DEF OnWay
    <3> QED BY <2>1, <2>3, <3>1 DEF Agrees
  <2>5. CASE op[i].kind # "delete"
    <3>1. idx'[k].name = n /\ art'[n] = [steps |-> idx'[k].steps, meta |-> idx'[k].meta]
      BY <1>1, <1>2, <1>4, <2>6, <2>1, <2>2, <2>5 DEF OnWay
    <3>2. idx'[k] # None
      BY <1>6, <2>6, <2>5, LibraryAssumption DEF LibraryAssumption
    <3> QED BY <2>1, <2>3, <3>1, <3>2 DEF Agrees
  <2> QED BY <2>4, <2>5
<1>13. k \in upset' \/ (op[i].lone /\ Agrees(k)')
  BY <1>12
<1>14. EndsWell(i, k)
  <2>1. art' = art /\ op' = [op EXCEPT ![i] = None] /\ \A l \in Slugs \ {k} : idx'[l] \in {idx[l], None}
    BY <1>4, <1>7
  <2> QED BY <1>7, <1>8, <1>9, <1>10, <1>11, <1>13, <2>1 DEF EndsWell
<1> QED BY <1>1, <1>2, <1>14, Ends

LEMMA FailsKeeps == ASSUME LibraryIInv, NEW i \in Slots, Fails(i) PROVE LibraryIInv'
<1>1. PICK n \in Names, k \in Slugs : n = op[i].name /\ k = Slug[n]
  BY OpIs DEF LibraryIInv, Fails
<1>2. op' = [op EXCEPT ![i] = None] /\ art' = art /\ idx' = idx /\ op[i] # None
      /\ queue' = [queue EXCEPT ![i] = None] /\ upset' = upset \cup {k}
  BY <1>1 DEF Fails, Spoil, disk
<1>3. idx \in Indexes /\ DOMAIN queue = Slots /\ upset \subseteq Slugs
      /\ idx[k] # None => Slug[idx[k].name] = k
  BY DEF LibraryIInv, TypeOK
<1>4. idx' \in Indexes /\ (\A l \in Slugs \ {k} : idx'[l] \in {idx[l], None}) /\ (idx'[k] # None => Slug[idx'[k].name] = k)
  BY <1>2, <1>3 DEF LibraryIInv, TypeOK
<1>5. upset' \subseteq Slugs /\ k \in upset' /\ (\A l \in Slugs \ {k} : l \in upset' \/ (l \notin upset /\ idx'[l] = idx[l]))
  BY <1>2, <1>3 DEF LibraryIInv, TypeOK
<1>6. DOMAIN queue' = Slots /\ \A j \in Slots : queue'[j] # None => queue[j] # None /\ j # i /\ queue'[j] = queue[j]
  BY <1>2 DEF LibraryIInv, TypeOK
<1>7. EndsWell(i, k)
  BY <1>2, <1>4, <1>5, <1>6 DEF EndsWell
<1> QED BY <1>1, <1>2, <1>7, Ends

LEMMA RestartsKeeps == ASSUME LibraryIInv, Restarts PROVE LibraryIInv'
<1>1. op' = [i \in Slots |-> None] /\ queue' = [i \in Slots |-> None] /\ art' = art /\ idx' = idx
      /\ upset' = upset \cup {Slug[op[i].name] : i \in {j \in Slots : op[j] # None}}
  BY DEF Restarts, disk
<1>2. \A i \in Slots : op[i] # None => Slug[op[i].name] \in Slugs
  BY OpIs DEF LibraryIInv
<1>3. TypeOK'
  <2>1. upset' \subseteq Slugs
    BY <1>1, <1>2 DEF LibraryIInv, TypeOK
  <2>2. op' \in [Slots -> {None} \cup Operations] /\ DOMAIN queue' = Slots /\ \A i \in Slots : queue'[i] = None
    BY <1>1
  <2> QED BY <1>1, <2>1, <2>2 DEF LibraryIInv, TypeOK
<1>4. Queued' /\ Shapes'
  BY <1>1 DEF Queued, Shapes
<1>5. Lones'
  BY <1>1, LibraryAssumption DEF LibraryAssumption, Lones
<1>6. LeftAlone'
  <2> SUFFICES ASSUME NEW k \in Slugs \ upset' PROVE Agrees(k)'
    BY DEF LeftAlone
  <2>1. k \notin upset /\ Under(k) = {}
    BY <1>1 DEF Under
  <2>2. Agrees(k)
    BY <2>1 DEF LibraryIInv, LeftAlone
  <2> QED BY <2>2, <1>1 DEF Agrees
<1> QED BY <1>3, <1>4, <1>5, <1>6 DEF LibraryIInv

-----------------------------------------------------------------------------
LEMMA Inductive == /\ Init => LibraryIInv
                   /\ LibraryIInv /\ [Next]_vars => LibraryIInv'
<1>1. ASSUME Init PROVE LibraryIInv
  <2>1. TypeOK
    BY <1>1 DEF Init, TypeOK, Indexes
  <2>2. Queued /\ Shapes
    BY <1>1 DEF Init, Queued, Shapes
  <2>3. Lones
    BY <1>1, LibraryAssumption DEF LibraryAssumption, Init, Lones
  <2>4. LeftAlone
    BY <1>1, Slugged DEF Init, LeftAlone, Agrees
  <2> QED BY <2>1, <2>2, <2>3, <2>4 DEF LibraryIInv
<1>2. ASSUME LibraryIInv, UNCHANGED vars PROVE LibraryIInv'
  BY <1>2 DEF vars, disk, LibraryIInv, TypeOK, Queued, Shapes, Shape, Lones, OnWay, FileKept,
              LeftAlone, Agrees, Under, Spellings
<1>3. ASSUME LibraryIInv, Next PROVE LibraryIInv'
  <2>1. CASE Calls
    BY <1>3, <2>1, CallsKeep
  <2>2. ASSUME NEW i \in Slots, Step(i) PROVE LibraryIInv'
    BY <1>3, <2>2, ReadsKeeps, OpensKeeps, WroteKeeps, LooksKeeps, RemovesKeeps, ReadsIndexKeeps,
       WritesIndexKeeps, FailsKeeps DEF Step
  <2>3. CASE Restarts
    BY <1>3, <2>3, RestartsKeeps
  <2> QED BY <1>3, <2>1, <2>2, <2>3 DEF Next
<1> QED BY <1>1, <1>2, <1>3

LEMMA LibraryIs == Spec => []LibraryIInv
<1>1. Init => LibraryIInv
  BY Inductive
<1>2. LibraryIInv /\ [Next]_vars => LibraryIInv'
  BY Inductive
<1> QED BY <1>1, <1>2, PTL DEF Spec

(* Index and files agree about every recording that is left alone, unless  *)
(* operations on it overlapped, failed or were cut short since the last    *)
(* lone one that wrote both, it is in use in two spellings, or an          *)
(* operation on another one wrote over an index it could not read.         *)
THEOREM LibraryCorrect == Spec => []LibraryInv
<1>1. LibraryIInv => LibraryInv
  BY DEF LibraryIInv, LibraryInv, LibraryAgrees, LeftAlone, Agrees
<1> QED BY <1>1, LibraryIs, PTL

(* withSerializedWrite does what its queue is for: a write of the index    *)
(* puts back every entry but its own as it is at that moment, or none if   *)
(* its read of the index failed.                                           *)
THEOREM EntriesAreKept == Spec => OthersKeepTheirEntry
<1>1. ASSUME LibraryIInv, [Next]_vars
      PROVE  [\A k \in Slugs : idx'[k] # idx[k] =>
                \E i \in Slots :
                  /\ op[i] # None /\ op'[i] = None
                  /\ \/ Slug[op[i].name] = k
                     \/ queue[i] = Torn /\ idx'[k] = None /\ op[i].kind # "delete"]_vars
  <2> SUFFICES ASSUME Next, NEW k \in Slugs, idx'[k] # idx[k]
               PROVE  \E i \in Slots :
                        /\ op[i] # None /\ op'[i] = None
                        /\ \/ Slug[op[i].name] = k
                           \/ queue[i] = Torn /\ idx'[k] = None /\ op[i].kind # "delete"
    BY <1>1
  <2>1. ASSUME NEW n \in Names PROVE ~Refinalize(n) /\ ~Annotate(n) /\ ~Delete(n) /\ ~Discard(n)
                                     /\ \A new \in Contents(n) : ~Finalize(n, new)
    BY DEF Refinalize, Annotate, Delete, Discard, Finalize, disk
  <2>2. ~Restarts
    BY DEF Restarts, disk
  <2>3. PICK i \in Slots : Step(i)
    BY <2>1, <2>2 DEF Next, Calls
  <2>4. WritesIndex(i)
    BY <2>3 DEF Step, Reads, Opens, Wrote, Looks, Removes, ReadsIndex, Fails, disk
  <2>5. queue[i] \in {idx, Torn} /\ op[i] # None
    BY <1>1, <2>4 DEF WritesIndex, LibraryIInv, Queued
  <2>6. idx \in Indexes /\ op \in [Slots -> {None} \cup Operations]
    BY <1>1 DEF LibraryIInv, TypeOK
  <2>7. /\ Finds(i) /\ idx' = [IndexRead(i) EXCEPT ![Slug[op[i].name]] = op[i].has]
        /\ op' = [op EXCEPT ![i] = None]
    BY <2>4, <2>5 DEF WritesIndex, End
  <2>8. CASE queue[i] = Torn
    <3>1. idx' = [EmptyIndex EXCEPT ![Slug[op[i].name]] = op[i].has] /\ op[i].kind # "delete"
      BY <2>7, <2>8, OpIs, <1>1, <2>5 DEF IndexRead, Finds, EmptyIndex, LibraryIInv
    <3>2. Slug[op[i].name] = k \/ idx'[k] = None
      BY <3>1 DEF EmptyIndex
    <3> QED BY <2>5, <2>6, <2>7, <2>8, <3>1, <3>2
  <2>9. CASE queue[i] # Torn
    <3>1. idx' = [idx EXCEPT ![Slug[op[i].name]] = op[i].has]
      BY <2>5, <2>7, <2>9 DEF IndexRead
    <3>2. Slug[op[i].name] = k
      BY <2>6, <3>1 DEF Indexes
    <3> QED BY <2>5, <2>6, <2>7, <3>2
  <2> QED BY <2>8, <2>9
<1> QED BY <1>1, LibraryIs, PTL DEF Spec, OthersKeepTheirEntry

-----------------------------------------------------------------------------
(* RecordingView.                                                          *)
-----------------------------------------------------------------------------
(* Numbers.                                                                *)

(* A set of numbers has a least one, and one with a bound a largest. *)
LEMMA LeastNumber ==
  ASSUME NEW S \in SUBSET Nat, S # {}
  PROVE  \E x \in S : \A y \in S : x <= y
<1> DEFINE Less == {p \in Nat \X Nat : p[1] < p[2]}
<1>1. IsWellFoundedOn(Less, Nat)
  BY NatLessThanWellFounded DEF OpToRel
<1>2. \E x \in S : \A y \in S : ~(<<y, x>> \in Less)
  BY <1>1, WFMin, Zenon
<1>3. PICK x \in S : \A y \in S : ~(<<y, x>> \in Less)
  BY <1>2
<1>4. ASSUME NEW y \in S PROVE x <= y
  <2>1. x \in Nat /\ y \in Nat
    OBVIOUS
  <2>2. ~(y < x)
    BY <1>3, <2>1
  <2>3. QED
    BY <2>1, <2>2
<1>5. QED
  BY <1>4

LEMMA LargestNumber ==
  ASSUME NEW m \in Nat, NEW S \in SUBSET (1 .. m), S # {}
  PROVE  \E x \in S : \A y \in S : y <= x
<1> DEFINE Down == {m - x : x \in S}
<1>0. \A x \in S : m - x \in Nat OBVIOUS
<1>1. Down \in SUBSET Nat /\ Down # {} BY <1>0, Zenon
<1>2. PICK d \in Down : \A e \in Down : d <= e BY <1>1, LeastNumber
<1>3. PICK x \in S : d = m - x BY <1>2
<1>4. \A y \in S : m - y \in Down OBVIOUS
<1>5. \A y \in S : m - x <= m - y BY <1>2, <1>3, <1>4
<1>6. QED BY <1>5

(* The n-th of a set of numbers is one of them, and each is one of these:  *)
(* counting those up to x gives each x a number of its own.                *)
LEMMA NthIsOne ==
  ASSUME NEW m \in Nat, NEW set \in SUBSET (1 .. m)
  PROVE  /\ IsFiniteSet(set) /\ Cardinality(set) \in 0 .. m
         /\ \A n \in 1 .. Cardinality(set) : Nth(set, n) \in set
         /\ \A x \in set : \E n \in 1 .. Cardinality(set) : Nth(set, n) = x
<1> DEFINE Upto(x) == {y \in set : y <= x}
           Count == [x \in set |-> Cardinality(Upto(x))]
           C == Cardinality(set)
<1>1. IsFiniteSet(1 .. m) /\ Cardinality(1 .. m) = m
  <2>1. 1 \in Int /\ m \in Int OBVIOUS
  <2>2. QED BY <2>1, FS_Interval
<1>2. IsFiniteSet(set) /\ C \in Nat /\ C <= m
  BY <1>1, FS_Subset, FS_CardinalityType
<1>3. \A x \in set : /\ IsFiniteSet(Upto(x)) /\ Count[x] = Cardinality(Upto(x))
                     /\ Count[x] \in Nat /\ Count[x] <= C /\ Upto(x) # {}
  <2> TAKE x \in set
  <2>1. Upto(x) \in SUBSET set OBVIOUS
  <2>2. IsFiniteSet(Upto(x)) /\ Cardinality(Upto(x)) <= C BY <2>1, <1>2, FS_Subset
  <2>3. x \in Upto(x) OBVIOUS
  <2>4. QED BY <2>2, <2>3, FS_CardinalityType
<1>4. Count \in [set -> 1 .. C]
  <2>1. \A x \in set : Count[x] # 0 BY <1>3, FS_EmptySet
  <2>2. \A x \in set : Count[x] \in 1 .. C BY <2>1, <1>3, <1>2
  <2>3. QED BY <2>2
<1>5. \A x, y \in set : x < y => Count[x] # Count[y]
  <2> TAKE x, y \in set
  <2> HAVE x < y
  <2>0. \A z \in set : z <= x => z <= y OBVIOUS
  <2>1. Upto(x) \in SUBSET Upto(y) BY <2>0, Zenon
  <2>2. y \in Upto(y) /\ y \notin Upto(x) OBVIOUS
  <2>3. IsFiniteSet(Upto(y)) BY <1>3
  <2>4. Cardinality(Upto(x)) # Cardinality(Upto(y)) BY <2>1, <2>2, <2>3, FS_Subset
  <2>5. QED BY <2>4, <1>3
<1>6. \A x, y \in set : Count[x] = Count[y] => x = y
  <2>1. \A x, y \in set : x < y \/ y < x \/ x = y OBVIOUS
  <2>2. QED BY <2>1, <1>5
<1> HIDE DEF Count
<1>7. Count \in Injection(set, 1 .. C) BY <1>4, <1>6, Zenon DEF Injection, IsInjective
<1>8. IsFiniteSet(1 .. C) /\ Cardinality(1 .. C) = C
  <2>1. 1 \in Int /\ C \in Int BY <1>2
  <2>2. QED BY <2>1, <1>2, FS_Interval
<1>9. Count \in Surjection(set, 1 .. C) BY <1>7, <1>8, FS_Injection
<1>10. \A n \in 1 .. C : \E x \in set : Count[x] = n BY <1>9 DEF Surjection
<1>11. \A n \in 1 .. C : Nth(set, n) \in set /\ Count[Nth(set, n)] = n
  <2> TAKE n \in 1 .. C
  <2>1. PICK x \in set : Count[x] = n BY <1>10
  <2>2. Cardinality({y \in set : y <= x}) = n BY <2>1, <1>3
  <2>3. Nth(set, n) \in set /\ Cardinality({y \in set : y <= Nth(set, n)}) = n BY <2>2 DEF Nth
  <2>4. QED BY <2>3, <1>3
<1>12. ASSUME NEW x \in set PROVE \E n \in 1 .. C : Nth(set, n) = x
  <2>1. Count[x] \in 1 .. C BY <1>4
  <2>2. Nth(set, Count[x]) = x BY <2>1, <1>11, <1>6
  <2>3. QED BY <2>1, <2>2
<1>13. QED BY <1>2, <1>11, <1>12

(* Numbers without a gap are each their own. *)
LEMMA NthOfAll ==
  ASSUME NEW m \in Nat
  PROVE  Cardinality(1 .. m) = m /\ \A n \in 1 .. m : Nth(1 .. m, n) = n
<1>1. \A x \in 1 .. m : {y \in 1 .. m : y <= x} = 1 .. x OBVIOUS
<1>2. \A x \in 0 .. m : Cardinality(1 .. x) = x
  <2> TAKE x \in 0 .. m
  <2>1. 1 \in Int /\ x \in Int /\ ~(1 > x /\ x # 0) OBVIOUS
  <2>2. Cardinality(1 .. x) = IF 1 > x THEN 0 ELSE x - 1 + 1 BY <2>1, FS_Interval
  <2>3. QED BY <2>2
<1>3. \A x \in 1 .. m : Cardinality({y \in 1 .. m : y <= x}) = x
  <2> TAKE x \in 1 .. m
  <2>1. x \in 0 .. m OBVIOUS
  <2>2. QED BY <2>1, <1>1, <1>2, Zenon
<1>4. \A n \in 1 .. m : \A x \in 1 .. m : Cardinality({y \in 1 .. m : y <= x}) = n <=> x = n
  BY <1>3
<1>5. QED BY <1>4, <1>2 DEF Nth

-----------------------------------------------------------------------------
(* What the parts of the state are.                                        *)
LEMMA Bounds == MaxMade \in Nat /\ MaxEvents \in Nat /\ MaxMade # 0
BY ViewAssumption DEF ViewAssumption

LEMMA TableIs ==
  ASSUME NEW s PROVE s \in Tables <=> DOMAIN s \subseteq Seqs /\ s \in [DOMAIN s -> Steps]
<1>1. ASSUME s \in Tables PROVE DOMAIN s \subseteq Seqs /\ s \in [DOMAIN s -> Steps]
  <2>1. PICK seqs \in SUBSET Seqs : s \in [seqs -> Steps] BY <1>1 DEF Tables
  <2>2. QED BY <2>1
<1>2. QED BY <1>1, Zenon DEF Tables

LEMMA ListIs ==
  ASSUME NEW s \in Lists
  PROVE  /\ s \in Seq(Steps) /\ Len(s) \in 0 .. MaxMade /\ DOMAIN s = 1 .. Len(s)
         /\ \A n \in DOMAIN s : s[n] \in Steps
         /\ s \in Tables
<1>1. s \in Seq(Steps) /\ Len(s) \in 0 .. MaxMade BY Bounds DEF Lists
<1>2. DOMAIN s = 1 .. Len(s) /\ s \in [1 .. Len(s) -> Steps] BY <1>1
<1>3. DOMAIN s \subseteq Seqs BY <1>1, <1>2, Bounds DEF Seqs
<1>4. QED BY <1>1, <1>2, <1>3, TableIs

LEMMA ListFrom ==
  ASSUME NEW m \in 0 .. MaxMade, NEW s \in [1 .. m -> Steps]
  PROVE  s \in Lists /\ Len(s) = m
BY Bounds DEF Lists

LEMMA Empty == <<>> \in Lists /\ <<>> \in Tables /\ DOMAIN <<>> = {}
<1>1. <<>> \in Lists BY Bounds DEF Lists
<1>2. QED BY <1>1, ListIs

LEMMA ShowsFits ==
  ASSUME NEW mode \in Kept \cup {"closed", "dashboard"}
  PROVE  /\ Shows(mode) \in Views /\ Shows(mode).mode = mode /\ Shows(mode).steps = <<>>
         /\ Shows(mode).removed = {} /\ ~Shows(mode).loading /\ ~Shows(mode).stopping
         /\ ~Shows(mode).finalizing
BY Empty DEF Shows, Views

LEMMA GoneFits == Gone \in Recordings /\ Gone.status = "gone"
BY Empty DEF Gone, Recordings

LEMMA JobsFit == Asks("load") \in Jobs /\ Asks("read") \in Jobs /\ Asks("discard") \in Jobs /\ Asks("stop") \in Jobs /\ Waiting \in Jobs
BY DEF Asks, Waiting, Jobs

LEMMA JobIs ==
  ASSUME NEW j \in Jobs
  PROVE  /\ j.kind \in {"load", "read", "finalize", "again", "discard", "stop"} \cup Savings
         /\ j.kind \in {"load", "read"} => j.got \in Answers \cup {Nothing}
         /\ j.kind \in {"finalize", "again"} \cup Savings => j.got \in Lists
         /\ Answered(j) => j.got \in Answers /\ j.got.status \in Kept /\ j.got.steps \in Lists
BY DEF Jobs, Answered, Answers, Savings

LEMMA ListJobsFit ==
  ASSUME NEW steps \in Lists
  PROVE  \A kind \in {"finalize", "again"} \cup Savings : [kind |-> kind, got |-> steps] \in Jobs
BY DEF Jobs, Savings

LEMMA KindFits ==
  ASSUME NEW j \in Jobs, j.kind \in Savings \cup {"finalize"}
  PROVE  /\ [j EXCEPT !.kind = "again"] = [kind |-> "again", got |-> j.got]
         /\ [j EXCEPT !.kind = "again"] \in Jobs
<1>1. \E kinds : j \in [kind : kinds, got : Lists] BY DEF Jobs, Savings
<1>2. j.got \in Lists /\ [j EXCEPT !.kind = "again"] = [kind |-> "again", got |-> j.got] BY <1>1
<1>3. QED BY <1>2, ListJobsFit

(* A buffered step takes its place; one that comes without a picture       *)
(* leaves the picture there.                                               *)
LEMMA PutAt ==
  ASSUME buf \in Seq(Updates), NEW steps \in Tables
  PROVE  /\ Put(steps) \in Tables
         /\ DOMAIN Put(steps) = DOMAIN steps \cup {buf[i].seq : i \in DOMAIN buf}
         /\ \A n \in DOMAIN Put(steps) :
              \/ n \in DOMAIN steps /\ Put(steps)[n] = steps[n] /\ Of(n) = {}
              \/ \E i \in Of(n) :
                   /\ Put(steps)[n].id = buf[i].step.id
                   /\ \/ Put(steps)[n].pic = 0
                      \/ n \in DOMAIN steps /\ Put(steps)[n].pic = steps[n].pic
                      \/ \E k \in Of(n) : Put(steps)[n].pic = buf[k].step.pic
<1>1. /\ DOMAIN buf = 1 .. Len(buf) /\ Len(buf) \in Nat
      /\ \A i \in DOMAIN buf : buf[i].seq \in Seqs /\ buf[i].step \in Steps
  <2>1. DOMAIN buf = 1 .. Len(buf) /\ Len(buf) \in Nat /\ \A i \in DOMAIN buf : buf[i] \in Updates OBVIOUS
  <2>2. QED BY <2>1 DEF Updates
<1>2. \A is \in SUBSET DOMAIN buf : is # {} => \E i \in is : Latest(is) = buf[i].step
  <2> TAKE is \in SUBSET DOMAIN buf
  <2> HAVE is # {}
  <2>1. \E i \in is : \A j \in is : j <= i BY <1>1, LargestNumber
  <2>2. (CHOOSE i \in is : \A j \in is : j <= i) \in is BY <2>1
  <2>3. QED BY <2>2 DEF Latest
<1>3. DOMAIN steps \subseteq Seqs /\ steps \in [DOMAIN steps -> Steps] BY TableIs
<1>4. \A n : Of(n) \in SUBSET DOMAIN buf BY DEF Of
<1> DEFINE D == DOMAIN steps \cup {buf[i].seq : i \in DOMAIN buf}
<1>5. D \subseteq Seqs BY <1>1, <1>3
<1>6. \A n \in D : n \notin DOMAIN steps => Of(n) # {} BY DEF Of
<1>7. ASSUME NEW n \in D, Of(n) # {}
      PROVE  \/ Picture(n, steps) = 0
             \/ n \in DOMAIN steps /\ Picture(n, steps) = steps[n].pic
             \/ \E k \in Of(n) : Picture(n, steps) = buf[k].step.pic
  <2> DEFINE seen == {i \in Of(n) : buf[i].step.pic # 0}
  <2>1. CASE seen # {}
    <3>1. seen \in SUBSET DOMAIN buf BY <1>4
    <3>2. PICK k \in seen : Latest(seen) = buf[k].step BY <3>1, <2>1, <1>2
    <3>3. QED BY <3>2, <2>1 DEF Picture
  <2>2. CASE seen = {}
    BY <2>2 DEF Picture
  <2>3. QED BY <2>1, <2>2
<1>8. ASSUME NEW n \in D, Of(n) # {}
      PROVE  Picture(n, steps) \in 0 .. MaxMade
  <2>1. \A k \in Of(n) : buf[k].step.pic \in 0 .. MaxMade BY <1>1, <1>4 DEF Steps
  <2>2. n \in DOMAIN steps => steps[n].pic \in 0 .. MaxMade BY <1>3 DEF Steps
  <2>3. QED BY <1>7, <1>8, <2>1, <2>2, Bounds
<1>9. /\ DOMAIN Put(steps) = D
      /\ \A n \in D : /\ Of(n) = {} => Put(steps)[n] = steps[n]
                      /\ Of(n) # {} => Put(steps)[n] = [Latest(Of(n)) EXCEPT !.pic = Picture(n, steps)]
  BY DEF Put
<1>10. ASSUME NEW n \in D, Of(n) # {}
       PROVE  /\ Put(steps)[n] \in Steps /\ Put(steps)[n].pic = Picture(n, steps)
              /\ \E i \in Of(n) : Put(steps)[n].id = buf[i].step.id
  <2>1. PICK i \in Of(n) : Latest(Of(n)) = buf[i].step BY <1>2, <1>4, <1>10
  <2>2. buf[i].step \in Steps BY <1>1, <1>4
  <2>3. Put(steps)[n] = [buf[i].step EXCEPT !.pic = Picture(n, steps)] BY <1>9, <1>10, <2>1
  <2>4. QED BY <2>2, <2>3, <1>8, <1>10 DEF Steps
<1>11. \A n \in D : Put(steps)[n] \in Steps BY <1>9, <1>10, <1>6, <1>3
<1>12. Put(steps) \in [D -> Steps]
  <2>1. Put(steps) = [n \in D |-> Put(steps)[n]] BY DEF Put
  <2>2. QED BY <2>1, <1>11
<1>13. Put(steps) \in Tables BY <1>12, <1>9, <1>5, TableIs
<1>14. ASSUME NEW n \in DOMAIN Put(steps)
       PROVE  \/ n \in DOMAIN steps /\ Put(steps)[n] = steps[n] /\ Of(n) = {}
              \/ \E i \in Of(n) :
                   /\ Put(steps)[n].id = buf[i].step.id
                   /\ \/ Put(steps)[n].pic = 0
                      \/ n \in DOMAIN steps /\ Put(steps)[n].pic = steps[n].pic
                      \/ \E k \in Of(n) : Put(steps)[n].pic = buf[k].step.pic
  <2>1. n \in D BY <1>9
  <2>2. CASE Of(n) = {} BY <2>1, <2>2, <1>6, <1>9
  <2>3. CASE Of(n) # {}
    <3>1. PICK i \in Of(n) : Put(steps)[n].id = buf[i].step.id BY <2>1, <2>3, <1>10
    <3>2. Put(steps)[n].pic = Picture(n, steps) BY <2>1, <2>3, <1>10
    <3>3. QED BY <3>1, <3>2, <2>1, <2>3, <1>7
  <2>4. QED BY <2>2, <2>3
<1>15. QED BY <1>13, <1>9, <1>14

(* Finalizing numbers what is left anew. *)
LEMMA EditedIs ==
  ASSUME view \in Views, NEW left \in SUBSET Visible
  PROVE  /\ Edited(left) \in Lists
         /\ \A i \in DOMAIN Edited(left) : \E n \in left : Edited(left)[i] = view.steps[n]
         /\ \A n \in left : \E i \in DOMAIN Edited(left) : Edited(left)[i] = view.steps[n]
         /\ \A m \in Nat : left = 1 .. m => \A i \in DOMAIN Edited(left) : i \in 1 .. m /\ Edited(left)[i] = view.steps[i]
<1>1. DOMAIN view.steps \subseteq Seqs /\ view.steps \in [DOMAIN view.steps -> Steps]
  BY TableIs DEF Views
<1>2. left \in SUBSET (1 .. MaxMade) BY <1>1 DEF Visible, Seqs
<1> DEFINE C == Cardinality(left)
<1>3. /\ C \in 0 .. MaxMade
      /\ \A n \in 1 .. C : Nth(left, n) \in left
      /\ \A x \in left : \E n \in 1 .. C : Nth(left, n) = x
  BY <1>2, Bounds, NthIsOne
<1>4. \A n \in left : n \in DOMAIN view.steps /\ view.steps[n] \in Steps BY <1>1 DEF Visible
<1>5. DOMAIN Edited(left) = 1 .. C /\ \A i \in 1 .. C : Edited(left)[i] = view.steps[Nth(left, i)]
  BY DEF Edited
<1>6. Edited(left) \in [1 .. C -> Steps]
  <2>1. \A i \in 1 .. C : view.steps[Nth(left, i)] \in Steps BY <1>3, <1>4
  <2>2. QED BY <2>1 DEF Edited
<1>7. Edited(left) \in Lists BY <1>6, <1>3, ListFrom
<1>8. ASSUME NEW m \in Nat, left = 1 .. m
      PROVE  \A i \in DOMAIN Edited(left) : i \in 1 .. m /\ Edited(left)[i] = view.steps[i]
  <2>1. C = m /\ \A i \in 1 .. m : Nth(left, i) = i BY <1>8, NthOfAll
  <2>2. QED BY <2>1, <1>5
<1>9. QED BY <1>3, <1>5, <1>7, <1>8

(* The user's click sends the list that is left, and notes what it leaves  *)
(* out.                                                                    *)
Clicked(left) ==
  /\ left \subseteq Visible
  /\ view' = [view EXCEPT !.steps = Edited(left), !.finalizing = TRUE]
  /\ jobs' = jobs \cup {[kind |-> "finalize", got |-> Edited(left)]}
  /\ cut' = cut \cup {view.steps[n].id : n \in Visible \ left}
LEMMA ClicksFinalizeIs ==
  ASSUME ClicksFinalize
  PROVE  Editing /\ \E left : Clicked(left)
BY DEF ClicksFinalize, Clicked, Posts

LEMMA MergedIs ==
  ASSUME NEW old \in Lists, NEW edited \in Lists
  PROVE  /\ Merged(old, edited) \in Lists
         /\ edited = <<>> => Merged(old, edited) = old
         /\ edited # <<>> =>
              /\ DOMAIN Merged(old, edited) = DOMAIN edited
              /\ \A i \in DOMAIN edited :
                   /\ Merged(old, edited)[i].id = edited[i].id
                   /\ \/ Merged(old, edited)[i].pic = edited[i].pic
                      \/ i \in DOMAIN old /\ Merged(old, edited)[i].pic = old[i].pic
<1>1. CASE edited = <<>>
  BY <1>1 DEF Merged
<1>2. CASE edited # <<>>
  <2>1. DOMAIN edited = 1 .. Len(edited) /\ Len(edited) \in 0 .. MaxMade
        /\ (\A i \in DOMAIN edited : edited[i] \in Steps) /\ \A i \in DOMAIN old : old[i] \in Steps
    BY ListIs
  <2>2. /\ DOMAIN Merged(old, edited) = DOMAIN edited
        /\ \A i \in DOMAIN edited :
             Merged(old, edited)[i] = IF edited[i].pic = 0 /\ i \in DOMAIN old THEN [edited[i] EXCEPT !.pic = old[i].pic]
                                      ELSE edited[i]
    BY <1>2 DEF Merged
  <2>3. ASSUME NEW i \in DOMAIN edited
        PROVE  /\ Merged(old, edited)[i] \in Steps
               /\ Merged(old, edited)[i].id = edited[i].id
               /\ \/ Merged(old, edited)[i].pic = edited[i].pic
                  \/ i \in DOMAIN old /\ Merged(old, edited)[i].pic = old[i].pic
    BY <2>1, <2>2 DEF Steps
  <2>4. Merged(old, edited) \in [1 .. Len(edited) -> Steps]
    <3>1. Merged(old, edited) = [i \in DOMAIN edited |-> Merged(old, edited)[i]] BY <1>2 DEF Merged
    <3>2. QED BY <3>1, <2>3, <2>1
  <2>5. QED BY <2>1, <2>2, <2>3, <2>4, <1>2, ListFrom
<1>3. QED BY <1>1, <1>2

-----------------------------------------------------------------------------
(* Events come and go, and the buffer is flushed.                          *)
LEMMA SendsIs ==
  ASSUME ViewTypeOK, NEW kind \in EventKinds, NEW seq \in 0 .. MaxMade, Sends(kind, seq),
         seq = 0 \/ rec'.steps[seq] \in Steps
  PROVE  /\ events' \in Seq(Events) /\ Len(events') <= MaxEvents
         /\ Len(events') = Len(events) + 1 /\ Len(events) \in Nat
         /\ DOMAIN events' = 1 .. Len(events) + 1 /\ DOMAIN events = 1 .. Len(events)
         /\ \A i \in DOMAIN events : events'[i] = events[i]
         /\ events'[Len(events) + 1].kind = kind /\ events'[Len(events) + 1].seq = seq
         /\ seq # 0 => events'[Len(events) + 1].step = rec'.steps[seq]
<1> DEFINE e == [kind |-> kind, seq |-> seq, step |-> IF seq = 0 THEN Nothing ELSE rec'.steps[seq]]
<1>1. e \in Events BY DEF Events
<1>2. events \in Seq(Events) /\ events' = Append(events, e) /\ Len(events) < MaxEvents
  BY DEF ViewTypeOK, Sends
<1>3. e.kind = kind /\ e.seq = seq /\ (seq # 0 => e.step = rec'.steps[seq]) OBVIOUS
<1> HIDE DEF e
<1>4. /\ events' \in Seq(Events) /\ Len(events') = Len(events) + 1 /\ Len(events) \in Nat
      /\ DOMAIN events' = 1 .. Len(events) + 1 /\ DOMAIN events = 1 .. Len(events)
      /\ \A i \in DOMAIN events : events'[i] = events[i]
      /\ events'[Len(events) + 1] = e
  BY <1>1, <1>2
<1>5. QED BY <1>2, <1>3, <1>4, Bounds

(* A note without a step, and a step. *)
LEMMA NoteIs ==
  ASSUME ViewTypeOK, NEW kind \in EventKinds, Sends(kind, 0)
  PROVE  /\ events' \in Seq(Events) /\ Len(events') <= MaxEvents
         /\ Len(events') = Len(events) + 1 /\ Len(events) \in Nat
         /\ DOMAIN events' = 1 .. Len(events) + 1 /\ DOMAIN events = 1 .. Len(events)
         /\ \A i \in DOMAIN events : events'[i] = events[i]
         /\ events'[Len(events) + 1].kind = kind /\ events'[Len(events) + 1].seq = 0
<1>1. 0 \in 0 .. MaxMade BY Bounds
<1>2. QED BY <1>1, SendsIs

LEMMA StepIs ==
  ASSUME ViewTypeOK, NEW seq \in Seqs, Sends("step", seq), rec'.steps[seq] \in Steps
  PROVE  /\ events' \in Seq(Events) /\ Len(events') <= MaxEvents
         /\ Len(events') = Len(events) + 1 /\ Len(events) \in Nat
         /\ DOMAIN events' = 1 .. Len(events) + 1 /\ DOMAIN events = 1 .. Len(events)
         /\ \A i \in DOMAIN events : events'[i] = events[i]
         /\ events'[Len(events) + 1].kind = "step" /\ events'[Len(events) + 1].seq = seq
         /\ events'[Len(events) + 1].step = rec'.steps[seq]
<1>1. seq \in 0 .. MaxMade /\ seq # 0 /\ "step" \in EventKinds BY Bounds DEF Seqs, EventKinds
<1>2. QED BY <1>1, SendsIs

(* What a recording becomes when a step is made and when one has its picture. *)
LEMMA RecordsIs ==
  ASSUME ViewInv, Records
  PROVE  /\ made' = made + 1 /\ made' \in Seqs /\ made \in Nat
         /\ rec' \in Recordings /\ rec'.status = "recording" /\ rec.status = "recording"
         /\ rec'.steps \in Lists /\ Len(rec'.steps) = made' /\ Len(rec.steps) = made
         /\ \A n \in 1 .. made : rec'.steps[n] = rec.steps[n]
         /\ rec'.steps[made'] = [id |-> made', pic |-> 0] /\ rec'.steps[made'] \in Steps
<1> DEFINE s == [id |-> made', pic |-> 0]
<1>1. rec.status = "recording" /\ made < MaxMade /\ made' = made + 1
      /\ rec' = [rec EXCEPT !.steps = Append(rec.steps, s)]
  BY DEF Records
<1>2. rec \in Recordings /\ made \in 0 .. MaxMade BY DEF ViewInv, ViewTypeOK
<1>3. rec.steps \in Lists /\ Len(rec.steps) = made /\ rec.steps \in Seq(Steps)
  BY <1>1, <1>2, ListIs DEF ViewInv, Numbered, Recordings
<1>4. made' \in Seqs /\ made \in Nat /\ s \in Steps BY <1>1, <1>2, Bounds DEF Steps, Ids, Seqs
<1> HIDE DEF s
<1>5. /\ Append(rec.steps, s) \in Seq(Steps) /\ Len(Append(rec.steps, s)) = made'
      /\ Append(rec.steps, s)[made'] = s
      /\ \A n \in 1 .. made : Append(rec.steps, s)[n] = rec.steps[n]
  BY <1>1, <1>3, <1>4
<1>6. Append(rec.steps, s) \in Lists BY <1>4, <1>5, Bounds DEF Lists, Seqs
<1>7. rec' \in Recordings /\ rec'.steps = Append(rec.steps, s) /\ rec'.status = rec.status
  BY <1>6, <1>1, <1>2 DEF Recordings
<1>8. QED BY <1>1, <1>3, <1>4, <1>5, <1>6, <1>7 DEF s

LEMMA PicturedIs ==
  ASSUME ViewTypeOK, NEW n \in Seqs, Pictured(n)
  PROVE  /\ rec.status \in Kept /\ rec'.status = rec.status
         /\ rec' \in Recordings /\ rec'.steps \in Lists /\ Len(rec'.steps) = Len(rec.steps)
         /\ n \in DOMAIN rec.steps /\ DOMAIN rec.steps = 1 .. Len(rec.steps) /\ DOMAIN rec'.steps = DOMAIN rec.steps
         /\ \A k \in DOMAIN rec.steps : k # n => rec'.steps[k] = rec.steps[k]
         /\ rec'.steps[n].id = rec.steps[n].id /\ rec'.steps[n].pic \in {n, rec.steps[n].pic}
         /\ rec'.steps[n] \in Steps /\ n \in shots
<1>1. rec \in Recordings /\ rec.steps \in Lists BY DEF ViewTypeOK, Recordings
<1>2. /\ DOMAIN rec.steps = 1 .. Len(rec.steps) /\ Len(rec.steps) \in 0 .. MaxMade
      /\ \A k \in DOMAIN rec.steps : rec.steps[k] \in Steps
      /\ rec.steps \in [1 .. Len(rec.steps) -> Steps]
  BY <1>1, ListIs
<1>3. n \in DOMAIN rec.steps /\ rec.status \in Kept /\ n \in shots BY DEF Pictured
<1>a. CASE rec' = rec
  BY <1>a, <1>1, <1>2, <1>3
<1>b. CASE rec' = [rec EXCEPT !.steps[n].pic = n]
  <2> DEFINE p == [rec.steps[n] EXCEPT !.pic = n]
             s == [rec.steps EXCEPT ![n] = p]
  <2>4. p \in Steps /\ p.id = rec.steps[n].id /\ p.pic = n
    <3>1. rec.steps[n] \in Steps BY <1>2, <1>3
    <3>2. n \in 0 .. MaxMade BY Bounds DEF Seqs
    <3>3. QED BY <3>1, <3>2 DEF Steps
  <2>5. rec' = [rec EXCEPT !.steps = s] BY <1>b
  <2> HIDE DEF p
  <2>6. s \in [1 .. Len(rec.steps) -> Steps] /\ s[n] = p
        /\ \A k \in DOMAIN rec.steps : k # n => s[k] = rec.steps[k]
    BY <1>2, <1>3, <2>4
  <2> HIDE DEF s
  <2>7. s \in Lists /\ Len(s) = Len(rec.steps) /\ DOMAIN s = 1 .. Len(rec.steps) BY <2>6, <1>2, ListFrom
  <2>8. rec' \in Recordings /\ rec'.steps = s /\ rec'.status = rec.status
    BY <1>1, <2>5, <2>7 DEF Recordings
  <2>9. QED BY <1>2, <1>3, <2>4, <2>6, <2>7, <2>8
<1>c. QED BY <1>a, <1>b DEF Pictured

LEMMA GetsIs ==
  ASSUME ViewTypeOK, NEW kind, Gets(kind)
  PROVE  /\ events' \in Seq(Events) /\ Len(events') <= MaxEvents
         /\ Len(events) \in Nat /\ Len(events) # 0
         /\ DOMAIN events = 1 .. Len(events) /\ DOMAIN events' = 1 .. Len(events) - 1
         /\ \A i \in DOMAIN events' : events'[i] = events[i + 1] /\ i + 1 \in DOMAIN events
         /\ 1 \in DOMAIN events /\ events[1] = Head(events) /\ events[1].kind = kind
         /\ events # <<>>
<1>1. events \in Seq(Events) /\ events # <<>> /\ events' = Tail(events) /\ Head(events).kind = kind
      /\ Len(events) <= MaxEvents
  BY DEF ViewTypeOK, Gets
<1>2. Len(events) \in Nat /\ Len(events) # 0 /\ DOMAIN events = 1 .. Len(events) /\ Head(events) = events[1]
  BY <1>1
<1>3. /\ events' \in Seq(Events) /\ Len(events') = Len(events) - 1
      /\ DOMAIN events' = 1 .. Len(events) - 1
      /\ \A i \in DOMAIN events' : events'[i] = events[i + 1]
  BY <1>1, <1>2
<1>4. QED BY <1>1, <1>2, <1>3, Bounds

LEMMA FlushIs ==
  ASSUME ViewTypeOK, Flush
  PROVE  /\ buf' = <<>> /\ view' \in Views
         /\ InEditor => view' = [view EXCEPT !.steps = Put(view.steps)]
         /\ ~InEditor => view' = view
         /\ flaws' \subseteq Flaws /\ flaws \subseteq flaws'
<1>1. buf \in Seq(Updates) /\ view \in Views /\ flaws \subseteq Flaws BY DEF ViewTypeOK
<1>2. Put(view.steps) \in Tables BY <1>1, PutAt DEF Views
<1>3. /\ InEditor => view' = [view EXCEPT !.steps = Put(view.steps)]
      /\ ~InEditor => view' = view
  BY DEF Flush
<1>4. view' \in Views BY <1>1, <1>2, <1>3 DEF Views
<1>5. buf' = <<>> /\ flaws' \subseteq Flaws /\ flaws \subseteq flaws'
  BY <1>1 DEF Flush, Overtaken, Misplaced, Flaws
<1>6. QED BY <1>3, <1>4, <1>5

LEMMA TypeKeeps == ViewInv /\ ViewNext => ViewTypeOK'
<1> SUFFICES ASSUME ViewInv, ViewNext PROVE ViewTypeOK' OBVIOUS
<1>0. /\ up \in BOOLEAN /\ open \in BOOLEAN /\ ending \in BOOLEAN /\ told \subseteq {"asks", "shows"}
      /\ rec \in Recordings /\ file \in Lists \cup {Nothing} /\ made \in 0 .. MaxMade
      /\ shots \subseteq Ids
      /\ events \in Seq(Events) /\ Len(events) <= MaxEvents /\ buf \in Seq(Updates)
      /\ saved \in Kept \cup {"none"} /\ cut \subseteq Ids /\ flaws \subseteq Flaws
      /\ jobs \subseteq Jobs /\ view \in Views /\ ViewTypeOK
  BY DEF ViewInv, ViewTypeOK
<1>e. <<>> \in Seq(Updates) OBVIOUS
<1>v. /\ view.mode \in Kept \cup {"closed", "dashboard"} /\ view.steps \in Tables
      /\ view.removed \subseteq Seqs
      /\ \A b \in BOOLEAN : /\ [view EXCEPT !.stopping = b] \in Views /\ [view EXCEPT !.finalizing = b] \in Views
      /\ LoadFailed(view) \in Views /\ Stopped(view) \in Views /\ Finalized(view) \in Views
  BY <1>0 DEF Views, LoadFailed, Stopped, Finalized, Kept
<1> DEFINE Same(v) == v' = v
<1>1. CASE Starts
  <2>1. rec' \in Recordings BY <1>1, <1>0 DEF Starts, Recordings, Kept
  <2>2. events' \in Seq(Events) /\ Len(events') <= MaxEvents
    BY <1>1, <1>0, NoteIs DEF Starts, EventKinds
  <2>3. QED BY <1>1, <1>0, <2>1, <2>2 DEF Starts, ext, ViewTypeOK
<1>2. CASE Records
  <2>1. Sends("step", made') BY <1>2 DEF Records
  <2>2. events' \in Seq(Events) /\ Len(events') <= MaxEvents BY <2>1, <1>2, <1>0, RecordsIs, StepIs
  <2>3. made' \in 0 .. MaxMade BY <1>2, RecordsIs, Bounds DEF Seqs
  <2>4. rec' \in Recordings BY <1>2, RecordsIs
  <2>5. shots' \subseteq Ids BY <1>2, <1>0, RecordsIs DEF Records, Ids, Seqs
  <2>6. QED BY <1>2, <1>0, <2>2, <2>3, <2>4, <2>5 DEF Records, ext, ViewTypeOK
<1>3. ASSUME NEW n \in Seqs, Pictured(n) PROVE ViewTypeOK'
  <2>1. rec' \in Recordings /\ rec'.steps[n] \in Steps BY <1>3, <1>0, PicturedIs
  <2>2. Sends("step", n) BY <1>3 DEF Pictured
  <2>3. events' \in Seq(Events) /\ Len(events') <= MaxEvents BY <2>1, <2>2, <1>0, StepIs
  <2>4. flaws' \subseteq Flaws BY <1>3, <1>0 DEF Pictured, Flaws
  <2>5. QED BY <1>3, <1>0, <2>1, <2>3, <2>4 DEF Pictured, ext, ViewTypeOK
<1>4. CASE PageStops
  <2>1. rec' \in Recordings /\ ending' = TRUE BY <1>4, <1>0 DEF PageStops, Reviews, Recordings, Kept
  <2>2. QED BY <1>4, <1>0, <2>1 DEF PageStops, ext, ViewTypeOK
<1>5. CASE TellsStopped
  <2>1. events' \in Seq(Events) /\ Len(events') <= MaxEvents
    BY <1>5, <1>0, NoteIs DEF TellsStopped, EventKinds
  <2>2. QED BY <1>5, <1>0, <2>1 DEF TellsStopped, ext, ViewTypeOK
<1>6. CASE StopThrows
  <2>1. view' \in Views BY <1>6, <1>v, <1>0 DEF StopThrows
  <2>2. flaws' \subseteq Flaws BY <1>6, <1>0 DEF StopThrows, Flaws
  <2>3. QED BY <1>6, <1>0, <2>1, <2>2 DEF StopThrows, ext, ViewTypeOK
<1>7. CASE Dies
  <2>1. flaws' \subseteq Flaws BY <1>7, <1>0 DEF Dies, Suffers, Flaws
  <2>2. jobs' \subseteq Jobs
    <3>1. \A j \in jobs : j.kind = "saves" => [j EXCEPT !.kind = "again"] \in Jobs BY <1>0, KindFits DEF Savings
    <3>2. \A j \in jobs' : j \in jobs \/ \E i \in jobs : i.kind = "saves" /\ j = [i EXCEPT !.kind = "again"]
      BY <1>7 DEF Dies
    <3>3. QED BY <3>1, <3>2, <1>0
  <2>3. told' \subseteq {"asks", "shows"} BY <1>7, <1>0 DEF Dies
  <2>4. rec' \in Recordings /\ up' = FALSE /\ open' = FALSE /\ ending' = FALSE /\ shots' = {} BY <1>7, GoneFits DEF Dies
  <2>5. QED BY <1>7, <1>0, <2>1, <2>2, <2>3, <2>4 DEF Dies, ViewTypeOK
<1>8. CASE Returns
  BY <1>8, <1>0 DEF Returns, ext, ViewTypeOK
<1>9. CASE HandlesStarted
  <2>1. events' \in Seq(Events) /\ Len(events') <= MaxEvents BY <1>9, <1>0, GetsIs DEF HandlesStarted
  <2>2. view' \in Views /\ saved' \in Kept BY <1>9, ShowsFits DEF HandlesStarted, Kept
  <2>3. QED BY <1>9, <1>0, <2>1, <2>2 DEF HandlesStarted, worker, ViewTypeOK
<1>10. CASE HandlesStep
  <2>1. events' \in Seq(Events) /\ Len(events') <= MaxEvents /\ 1 \in DOMAIN events /\ events[1] = Head(events)
        /\ events[1].kind = "step"
    BY <1>10, <1>0, GetsIs DEF HandlesStep
  <2>2. saved' \in Kept \cup {"none"} BY <1>10, <1>0 DEF HandlesStep, Saves, Kept
  <2>3. Head(events).seq \in Seqs /\ Head(events).step \in Steps
    <3>1. events[1] \in Events /\ events[1].seq \in 1 .. made
      BY <2>1, <1>0 DEF ViewInv, Numbered
    <3>2. events[1].seq \in Seqs BY <3>1, <1>0, Bounds DEF Seqs
    <3>3. events[1].step # Nothing BY <2>1 DEF ViewInv, Numbered
    <3>4. events[1].step \in Steps BY <3>1, <3>3 DEF Events
    <3>5. QED BY <2>1, <3>2, <3>4
  <2>4. buf' \in Seq(Updates) BY <1>10, <1>0, <2>3 DEF HandlesStep, Updates
  <2>5. flaws' \subseteq Flaws BY <1>10, <1>0 DEF HandlesStep, Flaws
  <2>6. QED BY <1>10, <1>0, <2>1, <2>2, <2>4, <2>5 DEF HandlesStep, worker, ViewTypeOK
<1>11. CASE FlushTimer
  BY <1>11, <1>0, <1>e, FlushIs DEF FlushTimer, worker, ViewTypeOK
<1>12. CASE HandlesStopped
  <2>1. events' \in Seq(Events) /\ Len(events') <= MaxEvents BY <1>12, <1>0, GetsIs DEF HandlesStopped
  <2>2. view' \in Views /\ flaws' \subseteq Flaws
    BY <1>12, <1>0, FlushIs DEF HandlesStopped, Overtaken, Flaws
  <2>3. told' \subseteq {"asks", "shows"} BY <1>12, <1>0 DEF HandlesStopped
  <2>4. QED BY <1>12, <1>0, <1>e, <2>1, <2>2, <2>3 DEF HandlesStopped, worker, ViewTypeOK
<1>13. CASE ShowsStopped
  <2>1. view' \in Views /\ saved' \in Kept \cup {"none"} /\ flaws' \subseteq Flaws
    BY <1>13, <1>0, <1>v DEF ShowsStopped, Saves, Overtaken, Flaws, Kept
  <2>2. told' \subseteq {"asks", "shows"} BY <1>13, <1>0 DEF ShowsStopped
  <2>3. QED BY <1>13, <1>0, <2>1, <2>2 DEF ShowsStopped, worker, ViewTypeOK
<1>14. CASE HandlesFinalized
  <2>1. events' \in Seq(Events) /\ Len(events') <= MaxEvents BY <1>14, <1>0, GetsIs DEF HandlesFinalized
  <2>2. view' \in Views /\ saved' \in Kept \cup {"none"} /\ flaws' \subseteq Flaws
    BY <1>14, <1>0, <1>v DEF HandlesFinalized, Saves, Cuts, Flaws, Kept
  <2>3. QED BY <1>14, <1>0, <2>1, <2>2 DEF HandlesFinalized, worker, ViewTypeOK
<1>15. CASE HandlesDiscarded
  <2>1. events' \in Seq(Events) /\ Len(events') <= MaxEvents BY <1>15, <1>0, GetsIs DEF HandlesDiscarded
  <2>2. view' \in Views BY <1>15, <1>0, ShowsFits DEF HandlesDiscarded
  <2>3. QED BY <1>15, <1>0, <2>1, <2>2 DEF HandlesDiscarded, worker, ViewTypeOK
<1>16. CASE OpensDashboard
  <2>1. view' \in Views BY <1>16, ShowsFits DEF OpensDashboard
  <2>2. QED BY <1>16, <1>0, <2>1 DEF OpensDashboard, worker, ext, ViewTypeOK
<1>17. CASE Closes
  <2>1. view' \in Views BY <1>17, ShowsFits DEF Closes
  <2>2. QED BY <1>17, <1>0, <2>1 DEF Closes, worker, ext, ViewTypeOK
<1>18. ASSUME NEW status \in Kept, OpensOne(status) PROVE ViewTypeOK'
  <2>1. Shows(status) \in Views BY ShowsFits
  <2>2. view' \in Views BY <1>18, <2>1 DEF OpensOne, Views
  <2>3. jobs' \subseteq Jobs BY <1>18, <1>0, JobsFit DEF OpensOne, Posts
  <2>4. QED BY <1>18, <1>0, <2>2, <2>3 DEF OpensOne, worker, ext, ViewTypeOK
<1>19. CASE BackToReview
  <2>1. view' \in Views BY <1>19, <1>0 DEF BackToReview, Views, Kept
  <2>2. QED BY <1>19, <1>0, <2>1 DEF BackToReview, worker, ext, ViewTypeOK
<1>20. ASSUME NEW n \in Seqs, RemovesStep(n) PROVE ViewTypeOK'
  <2>1. view' \in Views BY <1>20, <1>0 DEF RemovesStep, Views
  <2>2. view.steps[n] \in Steps BY <1>20, <1>v, TableIs DEF RemovesStep
  <2>3. cut' \subseteq Ids BY <1>20, <1>0, <2>2 DEF RemovesStep, Steps
  <2>4. QED BY <1>20, <1>0, <2>1, <2>3 DEF RemovesStep, worker, ext, ViewTypeOK
<1>21. CASE ClicksFinalize
  <2>0. PICK left : Clicked(left) BY <1>21, ClicksFinalizeIs
  <2>1. Edited(left) \in Lists /\ Edited(left) \in Tables BY <2>0, <1>0, EditedIs, ListIs DEF Clicked
  <2>2. view' \in Views
    <3>1. view' = [view EXCEPT !.steps = Edited(left), !.finalizing = TRUE] BY <2>0 DEF Clicked
    <3>2. QED BY <3>1, <1>0, <2>1 DEF Views
  <2>3. [kind |-> "finalize", got |-> Edited(left)] \in Jobs BY <2>1, ListJobsFit
  <2>4. jobs' \subseteq Jobs BY <2>0, <1>0, <2>3 DEF Clicked
  <2>5. flaws' \subseteq Flaws BY <1>21, <1>0 DEF ClicksFinalize, Flaws
  <2>6. cut' \subseteq Ids
    <3>1. \A n \in Visible : view.steps[n] \in Steps BY <1>v, TableIs DEF Visible
    <3>2. \A n \in Visible : view.steps[n].id \in Ids BY <3>1 DEF Steps
    <3>3. cut' = cut \cup {view.steps[n].id : n \in Visible \ left} BY <2>0 DEF Clicked
    <3>4. QED BY <3>2, <3>3, <1>0
  <2>7. QED BY <1>21, <1>0, <2>2, <2>4, <2>5, <2>6 DEF ClicksFinalize, worker, ext, ViewTypeOK
<1>22. CASE ClicksDiscard
  <2>1. jobs' \subseteq Jobs BY <1>22, <1>0, JobsFit DEF ClicksDiscard, Posts
  <2>2. QED BY <1>22, <1>0, <2>1 DEF ClicksDiscard, worker, ext, ViewTypeOK
<1>23. CASE ClicksStop
  <2>1. jobs' \subseteq Jobs BY <1>23, <1>0, JobsFit DEF ClicksStop, Posts
  <2>2. view' \in Views BY <1>23, <1>v DEF ClicksStop
  <2>3. QED BY <1>23, <1>0, <2>1, <2>2 DEF ClicksStop, worker, ext, ViewTypeOK
<1>24. ASSUME NEW j \in jobs, LoadAnswered(j) PROVE ViewTypeOK'
  <2> DEFINE known == IF j.kind = "load" THEN rec.status \in Kept ELSE file # Nothing
             answer == IF j.kind = "load" THEN rec ELSE FromFile
  <2>1. j \in {Asks("load"), Asks("read")} BY <1>24, <1>0 DEF LoadAnswered, Jobs, Asks
  <2>2. known => [j EXCEPT !.got = answer] \in Jobs
    <3>1. j.kind = "load" /\ known => answer \in Answers BY <1>0 DEF Recordings, Answers
    <3>2. j.kind = "read" /\ known => answer \in Answers BY <1>0 DEF FromFile, Answers, Kept
    <3>3. answer \in Answers => [j EXCEPT !.got = answer] \in Jobs BY <2>1 DEF Asks, Jobs
    <3>4. QED BY <3>1, <3>2, <3>3, <2>1 DEF Asks
  <2>3. /\ \/ jobs' = jobs \ {j}
           \/ known /\ jobs' = (jobs \ {j}) \cup {[j EXCEPT !.got = answer]}
        /\ view' \in {view, LoadFailed(view)} /\ flaws' \in {flaws, flaws \cup {"missed"}}
    BY <1>24 DEF LoadAnswered, Suffers
  <2>4. jobs' \subseteq Jobs BY <2>2, <2>3, <1>0
  <2>5. view' \in Views BY <2>3, <1>0, <1>v
  <2>6. flaws' \subseteq Flaws BY <2>3, <1>0 DEF Flaws
  <2>7. QED BY <1>24, <1>0, <2>4, <2>5, <2>6 DEF LoadAnswered, worker, ext, ViewTypeOK
<1>25. ASSUME NEW j \in jobs, LoadShown(j) PROVE ViewTypeOK'
  <2>1. j.got.steps \in Tables BY <1>25, <1>0, JobIs, ListIs DEF LoadShown
  <2> DEFINE mode == IF j.got.status = "recording" THEN "recording"
                     ELSE IF j.kind = "read" THEN "finalized" ELSE "review"
  <2>2. Shows(mode) \in Views BY ShowsFits DEF Kept
  <2>3. [Shows(mode) EXCEPT !.steps = j.got.steps] \in Views BY <2>1, <2>2 DEF Views
  <2>4. view' \in Views BY <1>25, <1>0, <2>3 DEF LoadShown
  <2>5. QED BY <1>25, <1>0, <2>4 DEF LoadShown, worker, ext, ViewTypeOK
<1>26. ASSUME NEW j \in jobs, Finalizes(j) PROVE ViewTypeOK'
  <2>0. j \in Jobs /\ j.kind = "finalize" /\ j.got \in Lists BY <1>26, <1>0, JobIs DEF Finalizes
  <2>1. CASE /\ rec' = [status |-> "finalized", steps |-> Merged(rec.steps, j.got)]
             /\ jobs' = (jobs \ {j}) \cup {[kind |-> "saves", got |-> rec'.steps]}
    <3>1. rec.steps \in Lists BY <1>0 DEF Recordings
    <3>2. rec'.steps \in Lists BY <2>0, <2>1, <3>1, MergedIs
    <3>3. rec' \in Recordings BY <2>1, <3>2 DEF Recordings, Kept
    <3>4. [kind |-> "saves", got |-> rec'.steps] \in Jobs BY <3>2, ListJobsFit DEF Savings
    <3>5. jobs' \subseteq Jobs BY <2>1, <3>4, <1>0
    <3>6. QED BY <1>26, <1>0, <3>3, <3>5 DEF Finalizes, ext, ViewTypeOK
  <2>2. CASE rec' = rec /\ jobs' = (jobs \ {j}) \cup {[j EXCEPT !.kind = "again"]}
    <3>1. jobs' \subseteq Jobs BY <2>0, <2>2, <1>0, KindFits
    <3>2. QED BY <1>26, <1>0, <2>2, <3>1 DEF Finalizes, ext, ViewTypeOK
  <2>3. QED BY <1>26, <2>1, <2>2 DEF Finalizes
<1>27. ASSUME NEW j \in jobs, Discards(j) PROVE ViewTypeOK'
  <2>1. CASE up /\ open /\ rec.status \in Kept
    <3>1. rec' \in Recordings /\ file' = Nothing /\ open' \in BOOLEAN /\ Sends("discarded", 0)
      BY <1>27, <2>1, <1>0, GoneFits DEF Discards, Forgets
    <3>2. events' \in Seq(Events) /\ Len(events') <= MaxEvents BY <3>1, <1>0, NoteIs DEF EventKinds
    <3>3. QED BY <1>27, <1>0, <3>1, <3>2 DEF Discards, ext, ViewTypeOK
  <2>2. CASE ~(up /\ open /\ rec.status \in Kept)
    BY <1>27, <1>0, <2>2 DEF Discards, ext, ViewTypeOK
  <2>3. QED BY <2>1, <2>2
<1>28. ASSUME NEW j \in jobs, AsksStop(j) PROVE ViewTypeOK'
  <2>1. jobs' \subseteq Jobs BY <1>28, <1>0, JobsFit DEF AsksStop
  <2>2. rec' \in Recordings /\ ending' \in BOOLEAN BY <1>28, <1>0 DEF AsksStop, Reviews, Recordings, Kept
  <2>3. flaws' \subseteq Flaws BY <1>28, <1>0 DEF AsksStop, Suffers, Flaws
  <2>4. told' \subseteq {"asks", "shows"} BY <1>28, <1>0 DEF AsksStop
  <2>5. QED BY <1>28, <1>0, <2>1, <2>2, <2>3, <2>4 DEF AsksStop, ViewTypeOK
<1>29. CASE AgentFinalizes
  <2>1. rec' \in Recordings BY <1>29, <1>0 DEF AgentFinalizes, Recordings, Kept
  <2>2. rec.steps \in Lists BY <1>0 DEF Recordings
  <2>3. [kind |-> "agent saves", got |-> rec.steps] \in Jobs BY <2>2, ListJobsFit DEF Savings
  <2>4. jobs' \subseteq Jobs BY <1>29, <2>3, <1>0 DEF AgentFinalizes
  <2>5. QED BY <1>29, <1>0, <2>1, <2>4 DEF AgentFinalizes, ext, ViewTypeOK
<1>30. ASSUME Forgets PROVE rec' \in Recordings /\ file' = Nothing /\ events' \in Seq(Events) /\ Len(events') <= MaxEvents
  BY <1>30, <1>0, GoneFits, NoteIs DEF Forgets, EventKinds
<1>31. CASE AgentDiscards
  BY <1>31, <1>30, <1>0 DEF AgentDiscards, ext, ViewTypeOK
<1>32. CASE AgentCloses
  <2>1. CASE rec.status = "recording" BY <1>32, <2>1, <1>30, <1>0 DEF AgentCloses, ext, ViewTypeOK
  <2>2. CASE rec.status # "recording" BY <1>32, <2>2, <1>0 DEF AgentCloses, ext, ViewTypeOK
  <2>3. QED BY <2>1, <2>2
<1>33. CASE HearsState
  <2>1. told' \subseteq {"asks", "shows"} BY <1>33, <1>0 DEF HearsState
  <2>2. QED BY <1>33, <1>0, <2>1 DEF HearsState, worker, ViewTypeOK
<1>34. CASE RestoresSteps
  <2>1. view' \in Views BY <1>34, <1>0 DEF RestoresSteps, Views
  <2>2. QED BY <1>34, <1>0, <2>1 DEF RestoresSteps, worker, ext, ViewTypeOK
<1>35. ASSUME NEW j \in jobs, Saved(j) PROVE ViewTypeOK'
  <2>1. file' \in Lists BY <1>35, <1>0, JobIs DEF Saved
  <2>2. events' \in Seq(Events) /\ Len(events') <= MaxEvents BY <1>35, <1>0, NoteIs DEF Saved, EventKinds
  <2>3. open' \in BOOLEAN /\ jobs' \subseteq Jobs BY <1>35, <1>0 DEF Saved
  <2>4. QED BY <1>35, <1>0, <2>1, <2>2, <2>3 DEF Saved, ext, ViewTypeOK
<1>36. ASSUME NEW j \in jobs, SaveFails(j) PROVE ViewTypeOK'
  <2>1. j \in Jobs /\ j.kind \in Savings BY <1>36, <1>0 DEF SaveFails
  <2>2. jobs' \subseteq Jobs BY <1>36, <2>1, <1>0, KindFits DEF SaveFails
  <2>3. flaws' \subseteq Flaws BY <1>36, <1>0 DEF SaveFails, Suffers, Flaws
  <2>4. QED BY <1>36, <1>0, <2>2, <2>3 DEF SaveFails, worker, ext, ViewTypeOK
<1>37. ASSUME NEW j \in jobs, Refinalizes(j) PROVE ViewTypeOK'
  <2>0. jobs' \subseteq Jobs BY <1>37, <1>0 DEF Refinalizes
  <2>1. CASE file # Nothing /\ file' = Merged(file, j.got) /\ Sends("finalized", 0) /\ UNCHANGED view
    <3>1. j.got \in Lists /\ file \in Lists BY <1>37, <2>1, <1>0, JobIs DEF Refinalizes
    <3>2. file' \in Lists BY <2>1, <3>1, MergedIs
    <3>3. events' \in Seq(Events) /\ Len(events') <= MaxEvents BY <2>1, <1>0, NoteIs DEF EventKinds
    <3>4. QED BY <1>37, <2>0, <2>1, <3>2, <3>3, <1>0 DEF Refinalizes, ext, ViewTypeOK
  <2>2. CASE /\ view' = IF InEditor THEN [view EXCEPT !.finalizing = FALSE] ELSE view
             /\ UNCHANGED <<file, events>>
    <3>1. view' \in Views BY <2>2, <1>v, <1>0
    <3>2. QED BY <1>37, <1>0, <2>0, <2>2, <3>1 DEF Refinalizes, ext, ViewTypeOK
  <2>3. QED BY <1>37, <2>1, <2>2 DEF Refinalizes
<1>38. QED
  BY <1>1, <1>2, <1>3, <1>4, <1>5, <1>6, <1>7, <1>8, <1>9, <1>10, <1>11, <1>12, <1>13, <1>14, <1>15,
     <1>16, <1>17, <1>18, <1>19, <1>20, <1>21, <1>22, <1>23, <1>24, <1>25, <1>26, <1>27, <1>28,
     <1>29, <1>31, <1>32, <1>33, <1>34, <1>35, <1>36, <1>37
  DEF ViewNext, Worker, User, WorkerEnds, Handles, Works

-----------------------------------------------------------------------------
(* The recording's status, step by step.                                   *)
LEMMA StatusMoves ==
  ASSUME ViewInv, ViewNext
  PROVE  \/ rec' = rec
         \/ Starts /\ rec.status = "new" /\ rec'.status = "recording" /\ rec'.steps = rec.steps
         \/ Records
         \/ \E n \in Seqs : Pictured(n)
         \/ rec.status = "recording" /\ rec'.status = "review" /\ rec'.steps = rec.steps
         \/ AgentFinalizes /\ rec.status \in Kept /\ rec'.status = "finalized" /\ rec'.steps = rec.steps
         \/ \E j \in jobs : /\ Finalizes(j) /\ rec.status \in Kept /\ rec'.status = "finalized"
                            /\ rec'.steps = Merged(rec.steps, j.got)
                            /\ [kind |-> "saves", got |-> rec'.steps] \in jobs'
         \/ rec'.status = "gone" /\ rec.status # "new"
<1>0. rec \in Recordings BY DEF ViewInv, ViewTypeOK
<1>1. CASE Starts
  BY <1>1, <1>0 DEF Starts, Recordings
<1>2. CASE PageStops
  BY <1>2, <1>0 DEF PageStops, Reviews, Recordings
<1>3. CASE Dies
  BY <1>3, GoneFits DEF Dies
<1>4. ASSUME NEW j \in jobs, Finalizes(j)
      PROVE  \/ rec' = rec
             \/ /\ Finalizes(j) /\ rec.status \in Kept /\ rec'.status = "finalized"
                /\ rec'.steps = Merged(rec.steps, j.got)
                /\ [kind |-> "saves", got |-> rec'.steps] \in jobs'
  BY <1>4 DEF Finalizes
<1>5. ASSUME NEW j \in jobs, Discards(j) PROVE rec' = rec \/ (rec'.status = "gone" /\ rec.status # "new")
  BY <1>5, GoneFits DEF Discards, Forgets, Kept
<1>6. ASSUME NEW j \in jobs, AsksStop(j)
      PROVE rec' = rec \/ (rec.status = "recording" /\ rec'.status = "review" /\ rec'.steps = rec.steps)
  BY <1>6, <1>0 DEF AsksStop, Reviews, Recordings
<1>7. CASE TellsStopped \/ StopThrows
  BY <1>7 DEF TellsStopped, StopThrows
<1>8. CASE Handles
  BY <1>8 DEF Handles, HandlesStarted, HandlesStep, HandlesStopped, HandlesFinalized, HandlesDiscarded,
              FlushTimer, ShowsStopped, HearsState, worker
<1>9. CASE User
  BY <1>9 DEF User, OpensDashboard, Closes, OpensOne, BackToReview, RestoresSteps, RemovesStep, ClicksFinalize,
              ClicksDiscard, ClicksStop, worker
<1>10. CASE Returns
  BY <1>10 DEF Returns
<1>11. ASSUME NEW j \in jobs, LoadAnswered(j) \/ LoadShown(j) \/ Saved(j) \/ SaveFails(j) \/ Refinalizes(j)
       PROVE  rec' = rec
  BY <1>11 DEF LoadAnswered, LoadShown, Saved, SaveFails, Refinalizes, worker
<1>12. CASE AgentFinalizes
  BY <1>12, <1>0 DEF AgentFinalizes, Recordings
<1>13. CASE AgentDiscards \/ AgentCloses
  BY <1>13, GoneFits DEF AgentDiscards, AgentCloses, Forgets, Kept
<1>14. QED
  BY <1>1, <1>2, <1>3, <1>4, <1>5, <1>6, <1>7, <1>8, <1>9, <1>10, <1>11, <1>12, <1>13
  DEF ViewNext, Worker, WorkerEnds, Works

LEMMA UnstartedKeeps == ViewInv /\ ViewNext => Unstarted'
<1> SUFFICES ASSUME ViewInv, ViewNext, rec'.status = "new" PROVE Unstarted' BY DEF Unstarted
<1>1. rec.status = "new" /\ rec' = rec
  <2>1. ~Records BY RecordsIs
  <2>2. \A n \in Seqs : ~Pictured(n) BY PicturedIs DEF ViewInv, Kept
  <2>3. QED BY <2>1, <2>2, StatusMoves
<1>2. /\ up /\ told = {} /\ ~ending /\ file = Nothing /\ made = 0 /\ rec.steps = <<>>
      /\ saved = "none" /\ events = <<>> /\ buf = <<>> /\ jobs = {} /\ ~InEditor
  BY <1>1 DEF ViewInv, Unstarted
<1>3. /\ ~Records /\ ~PageStops /\ ~Dies /\ ~Returns /\ ~WorkerEnds /\ ~Handles /\ ~Works /\ ~Starts
      /\ \A n \in Seqs : ~Pictured(n) /\ ~RemovesStep(n)
      /\ \A status \in Kept : ~OpensOne(status)
      /\ ~BackToReview /\ ~RestoresSteps /\ ~ClicksFinalize /\ ~ClicksDiscard /\ ~ClicksStop
      /\ ~AgentFinalizes /\ ~AgentDiscards /\ ~AgentCloses
  <2>1. ~Starts
    <3>1. rec \in Recordings BY DEF ViewInv, ViewTypeOK
    <3>2. QED BY <3>1, <1>1 DEF Starts, Recordings
  <2>2. ~Records /\ ~PageStops /\ ~Dies /\ ~Returns /\ ~WorkerEnds /\ ~Works /\ \A n \in Seqs : ~Pictured(n)
    BY <1>1, <1>2 DEF Records, PageStops, Dies, Returns, WorkerEnds, TellsStopped, StopThrows, Works, Pictured, Kept
  <2>3. ~Handles
    BY <1>2 DEF Handles, Gets, HandlesStarted, HandlesStep, HandlesStopped, HandlesFinalized,
                HandlesDiscarded, FlushTimer, ShowsStopped, HearsState
  <2>a. ~AgentFinalizes /\ ~AgentDiscards /\ ~AgentCloses
    BY <1>1 DEF AgentFinalizes, AgentDiscards, AgentCloses, Kept
  <2>4. ~BackToReview /\ ~RestoresSteps /\ ~ClicksFinalize /\ ~ClicksDiscard /\ ~ClicksStop
        /\ (\A status \in Kept : ~OpensOne(status)) /\ \A n \in Seqs : ~RemovesStep(n)
    BY <1>2 DEF BackToReview, RestoresSteps, ClicksFinalize, ClicksDiscard, ClicksStop, OpensOne, RemovesStep, Editing, InEditor, Kept
  <2>5. QED BY <2>1, <2>2, <2>3, <2>4, <2>a
<1>4. OpensDashboard \/ Closes BY <1>3 DEF ViewNext, Worker, User
<1>5. ~InEditor' BY <1>4, ShowsFits DEF OpensDashboard, Closes, InEditor, Kept
<1>6. QED BY <1>1, <1>2, <1>4, <1>5 DEF OpensDashboard, Closes, worker, ext, Unstarted

(* Events: which actions send one and which take one.                      *)
EventSent(kind, seq) ==
  /\ Len(events') = Len(events) + 1 /\ Len(events) \in Nat
  /\ DOMAIN events' = 1 .. Len(events) + 1 /\ DOMAIN events = 1 .. Len(events)
  /\ \A i \in DOMAIN events : events'[i] = events[i]
  /\ events'[Len(events) + 1].kind = kind /\ events'[Len(events) + 1].seq = seq
  /\ seq # 0 => events'[Len(events) + 1].step = rec'.steps[seq]
EventTaken(kind) ==
  /\ Len(events) \in Nat /\ Len(events) # 0
  /\ DOMAIN events = 1 .. Len(events) /\ DOMAIN events' = 1 .. Len(events) - 1
  /\ \A i \in DOMAIN events' : events'[i] = events[i + 1] /\ i + 1 \in DOMAIN events
  /\ 1 \in DOMAIN events /\ events[1] = Head(events) /\ events[1].kind = kind /\ events # <<>>

LEMMA Told ==
  ASSUME ViewTypeOK, NEW kind \in EventKinds, Sends(kind, 0)
  PROVE  EventSent(kind, 0)
BY NoteIs DEF EventSent

LEMMA Published ==
  ASSUME ViewTypeOK, NEW seq \in Seqs, Sends("step", seq), rec'.steps[seq] \in Steps
  PROVE  EventSent("step", seq) /\ rec'.steps[seq] # Nothing
<1>1. rec'.steps[seq] # Nothing BY ViewAssumption DEF ViewAssumption
<1>2. QED BY <1>1, StepIs DEF EventSent

LEMMA Taken == ASSUME ViewTypeOK, NEW kind, Gets(kind) PROVE EventTaken(kind)
BY GetsIs DEF EventTaken

LEMMA FlawsStay ==
  ASSUME ViewInv, ViewNext
  PROVE  flaws \subseteq flaws'
<1>0. ViewTypeOK BY DEF ViewInv
<1>1. CASE Worker \/ WorkerEnds
  BY <1>1 DEF Worker, WorkerEnds, Starts, Records, PageStops, Pictured, Dies, Returns, AgentFinalizes, AgentDiscards,
     AgentCloses, Forgets, TellsStopped, StopThrows, Suffers
<1>2. CASE User
  BY <1>2 DEF User, OpensDashboard, Closes, OpensOne, BackToReview, RestoresSteps, RemovesStep, ClicksFinalize, ClicksDiscard, ClicksStop
<1>3. CASE Handles
  BY <1>3, <1>0, FlushIs DEF Handles, HandlesStarted, HandlesStep, HandlesStopped, HandlesFinalized, HandlesDiscarded,
     FlushTimer, HearsState, ShowsStopped
<1>4. CASE Works
  BY <1>4 DEF Works, LoadAnswered, LoadShown, Finalizes, Saved, SaveFails, Refinalizes, Discards, AsksStop, Suffers
<1>5. QED BY <1>1, <1>2, <1>3, <1>4 DEF ViewNext

LEMMA NumberedKeeps == ViewInv /\ ViewNext => Numbered'
<1> SUFFICES ASSUME ViewInv, ViewNext PROVE Numbered' OBVIOUS
<1>0. ViewTypeOK /\ Numbered /\ Unstarted /\ made \in 0 .. MaxMade /\ made \in Nat BY Bounds DEF ViewInv, ViewTypeOK
<1> DEFINE ShotsNumbered == shots \subseteq 1..made
           EventsNumbered ==
             \A i \in DOMAIN events :
               IF events[i].kind # "step" THEN events[i].seq = 0
               ELSE /\ events[i].seq \in 1..made /\ events[i].step # Nothing
                    /\ Clean({"mixed"}) => Own(events[i].step, events[i].seq)
           BufNumbered == \A i \in DOMAIN buf : /\ buf[i].seq \in 1..made
                                                /\ Clean({"mixed"}) => Own(buf[i].step, buf[i].seq)
           RecNumbered == rec.status \in {"recording", "review"} =>
                            Len(rec.steps) = made /\ \A n \in 1..made : Own(rec.steps[n], n)
<1>a. ShotsNumbered /\ EventsNumbered /\ BufNumbered /\ RecNumbered
  <2>1. ShotsNumbered /\ RecNumbered BY <1>0 DEF Numbered
  <2>2. EventsNumbered BY <1>0 DEF Numbered
  <2>3. BufNumbered BY <1>0 DEF Numbered
  <2>4. QED BY <2>1, <2>2, <2>3
<1>b. ShotsNumbered' /\ EventsNumbered' /\ BufNumbered' /\ RecNumbered' => Numbered' BY DEF Numbered
<1>m. Clean({"mixed"})' => Clean({"mixed"}) BY FlawsStay DEF Clean
<1>c. made' = made /\ buf' = buf => BufNumbered' BY <1>a, <1>m DEF Own
<1>d. made' = made /\ rec' = rec => RecNumbered' BY <1>a DEF Own
<1>e. made' = made /\ events' = events => EventsNumbered' BY <1>a, <1>m DEF Own
<1>f. ASSUME NEW kind \in EventKinds \ {"step"}, Sends(kind, 0), made' = made PROVE EventsNumbered'
  BY <1>f, <1>a, <1>0, <1>m, Told DEF EventSent, Own
<1>g. ASSUME NEW kind, Gets(kind), made' = made PROVE EventsNumbered'
  BY <1>g, <1>a, <1>0, <1>m, Taken DEF EventTaken, Own
<1>h. made' = made /\ buf' = <<>> => BufNumbered' OBVIOUS
<1>i. made' = made /\ shots' \subseteq shots => ShotsNumbered' BY <1>a
<1> HIDE DEF ShotsNumbered, EventsNumbered, BufNumbered, RecNumbered
<1>1. CASE Starts
  <2>1. rec'.status = "recording" /\ rec'.steps = <<>> /\ made = 0 /\ made' = made
    BY <1>1, <1>0 DEF Starts, Unstarted, ViewTypeOK, Recordings
  <2>2. RecNumbered' BY <2>1 DEF RecNumbered
  <2>3. EventsNumbered' BY <1>1, <1>f DEF Starts, EventKinds
  <2>4. QED BY <1>1, <1>b, <1>c, <1>i, <2>2, <2>3 DEF Starts, ext
<1>2. CASE Records
  <2>1. EventSent("step", made') BY <1>2, <1>0, RecordsIs, Published DEF Records
  <2>2. made' = made + 1 /\ rec'.steps[made'] # Nothing /\ Own(rec'.steps[made'], made')
    <3>1. rec'.steps[made'] # Nothing BY <1>2, <1>0, RecordsIs, Published DEF Records
    <3>2. QED BY <3>1, <1>2, RecordsIs DEF Own
  <2>3. EventsNumbered'
    <3>1. made' \in 1 .. made' /\ made' # 0 /\ 1 .. made \subseteq 1 .. made' BY <2>2, <1>0
    <3>2. \A i \in DOMAIN events : events'[i] = events[i] BY <2>1 DEF EventSent
    <3>3. DOMAIN events' = DOMAIN events \cup {Len(events) + 1} BY <2>1 DEF EventSent
    <3>4. events'[Len(events) + 1].kind = "step" /\ events'[Len(events) + 1].seq = made'
          /\ events'[Len(events) + 1].step = rec'.steps[made']
      BY <2>1, <3>1 DEF EventSent
    <3>5. QED BY <3>1, <3>2, <3>3, <3>4, <2>2, <1>a, <1>m DEF EventsNumbered, Own
  <2>4. BufNumbered' BY <1>2, <2>2, <1>a, <1>0, <1>m DEF BufNumbered, Records, ext, Own
  <2>5. RecNumbered'
    <3>1. \A n \in 1 .. made : rec'.steps[n] = rec.steps[n] /\ Own(rec.steps[n], n)
      BY <1>2, <1>a, RecordsIs DEF RecNumbered
    <3>2. \A n \in 1 .. made' : n \in 1 .. made \/ n = made' BY <2>2, <1>0
    <3>3. QED BY <3>1, <3>2, <2>2, <1>2, RecordsIs DEF RecNumbered, Own
  <2>6. ShotsNumbered' BY <1>2, <2>2, <1>a, <1>0 DEF ShotsNumbered, Records
  <2>7. QED BY <2>3, <2>4, <2>5, <2>6, <1>b
<1>3. ASSUME NEW n \in Seqs, Pictured(n) PROVE Numbered'
  <2>1. made' = made BY <1>3 DEF Pictured
  <2>2. EventSent("step", n) /\ rec'.steps[n] # Nothing BY <1>3, <1>0, PicturedIs, Published DEF Pictured
  <2>3. n \in 1 .. made /\ (Clean({"mixed"})' => Own(rec'.steps[n], n))
    <3>1. n \in 1 .. made BY <1>3, <1>0, <1>a, PicturedIs DEF ShotsNumbered
    <3>2. ~Own(rec'.steps[n], n) => "mixed" \in flaws' BY <1>3 DEF Pictured
    <3>3. QED BY <3>1, <3>2 DEF Clean
  <2>5. RecNumbered'
    <3> SUFFICES ASSUME rec'.status \in {"recording", "review"} PROVE RecNumbered' BY DEF RecNumbered
    <3>0. rec.status \in {"recording", "review"} BY <1>3, <1>0, PicturedIs
    <3>1. \A k \in 1 .. made : k # n => rec'.steps[k] = rec.steps[k] BY <3>0, <1>3, <1>0, <1>a, PicturedIs DEF RecNumbered
    <3>2. Len(rec.steps) = made /\ \A k \in 1 .. made : Own(rec.steps[k], k) BY <3>0, <1>a DEF RecNumbered
    <3>3. Own(rec'.steps[n], n) BY <3>2, <2>3, <1>3, <1>0, PicturedIs DEF Own
    <3>4. \A k \in 1 .. made : Own(rec'.steps[k], k) BY <3>1, <3>2, <3>3
    <3>5. Len(rec'.steps) = made BY <3>2, <1>3, <1>0, PicturedIs
    <3>6. QED BY <3>4, <3>5, <2>1 DEF RecNumbered, Own
  <2>6. EventsNumbered'
    <3>1. n # 0 BY <2>3
    <3>2. \A i \in DOMAIN events : events'[i] = events[i] BY <2>2 DEF EventSent
    <3>3. DOMAIN events' = DOMAIN events \cup {Len(events) + 1} BY <2>2 DEF EventSent
    <3>4. events'[Len(events) + 1].kind = "step" /\ events'[Len(events) + 1].seq = n
          /\ events'[Len(events) + 1].step = rec'.steps[n]
      BY <2>2, <3>1 DEF EventSent
    <3>5. QED BY <3>2, <3>3, <3>4, <2>1, <2>2, <2>3, <1>a, <1>m DEF EventsNumbered, Own
  <2>7. QED BY <1>3, <2>1, <2>5, <2>6, <1>b, <1>c, <1>i DEF Pictured, ext
<1>4. CASE PageStops
  <2>1. rec.status = "recording" /\ rec'.steps = rec.steps BY <1>4, <1>0 DEF PageStops, Reviews, ViewTypeOK, Recordings
  <2>2. made' = made /\ RecNumbered' BY <1>4, <2>1, <1>a DEF RecNumbered, PageStops, Own
  <2>3. QED BY <1>4, <2>2, <1>b, <1>c, <1>e, <1>i DEF PageStops, ext
<1>5. CASE TellsStopped
  BY <1>5, <1>b, <1>c, <1>d, <1>f, <1>i DEF TellsStopped, ext, EventKinds
<1>6. CASE StopThrows \/ Returns
  BY <1>6, <1>b, <1>c, <1>d, <1>e, <1>i DEF StopThrows, Returns, ext
<1>7. CASE Dies
  <2>1. RecNumbered' BY <1>7, GoneFits DEF Dies, RecNumbered
  <2>2. QED BY <1>7, <2>1, <1>b, <1>c, <1>e, <1>i DEF Dies
<1>8. CASE HandlesStarted \/ HandlesFinalized \/ HandlesDiscarded
  BY <1>8, <1>b, <1>c, <1>d, <1>g, <1>i DEF HandlesStarted, HandlesFinalized, HandlesDiscarded, worker
<1>9. CASE HandlesStep
  <2>1. EventTaken("step") BY <1>9, <1>0, Taken DEF HandlesStep
  <2> DEFINE x == [seq |-> Head(events).seq, step |-> Head(events).step]
  <2>2. x.seq \in 1 .. made /\ (Clean({"mixed"}) => Own(x.step, x.seq)) BY <2>1, <1>a DEF EventTaken, EventsNumbered
  <2> HIDE DEF x
  <2>3. buf' = Append(buf, x) /\ buf \in Seq(Updates) BY <1>9, <1>0 DEF HandlesStep, ViewTypeOK, x
  <2>4. DOMAIN buf' = DOMAIN buf \cup {Len(buf) + 1} /\ buf'[Len(buf) + 1] = x
        /\ \A i \in DOMAIN buf : buf'[i] = buf[i]
    BY <2>3
  <2>5. BufNumbered' BY <1>9, <2>2, <2>4, <1>a, <1>m DEF BufNumbered, HandlesStep, worker, Own
  <2>6. QED BY <1>9, <2>5, <1>b, <1>d, <1>g, <1>i DEF HandlesStep, worker
<1>10. CASE HandlesStopped
  BY <1>10, <1>b, <1>h, <1>d, <1>g, <1>i DEF HandlesStopped, worker
<1>11. CASE FlushTimer
  BY <1>11, <1>b, <1>h, <1>d, <1>e, <1>i DEF FlushTimer, Flush, worker
<1>12. CASE HearsState \/ ShowsStopped
  BY <1>12, <1>b, <1>c, <1>d, <1>e, <1>i DEF HearsState, ShowsStopped, worker
<1>13. CASE User
  BY <1>13, <1>b, <1>c, <1>d, <1>e, <1>i
  DEF User, OpensDashboard, Closes, OpensOne, BackToReview, RestoresSteps, RemovesStep, ClicksFinalize, ClicksDiscard,
      ClicksStop, worker, ext
<1>14. ASSUME NEW j \in jobs, LoadAnswered(j) \/ LoadShown(j) \/ SaveFails(j) PROVE Numbered'
  BY <1>14, <1>b, <1>c, <1>d, <1>e, <1>i DEF LoadAnswered, LoadShown, SaveFails, worker, ext
<1>15. ASSUME NEW j \in jobs, Finalizes(j) PROVE Numbered'
  <2>1. rec' = rec \/ rec'.status = "finalized" BY <1>15 DEF Finalizes
  <2>2. rec'.status = "finalized" => RecNumbered' BY DEF RecNumbered
  <2>3. QED BY <1>15, <2>1, <2>2, <1>b, <1>c, <1>d, <1>e, <1>i DEF Finalizes, ext
<1>s. ASSUME NEW j \in jobs, Saved(j) \/ Refinalizes(j) PROVE Numbered'
  <2>1. events' = events \/ Sends("finalized", 0) BY <1>s DEF Saved, Refinalizes
  <2>2. rec' = rec /\ made' = made /\ buf' = buf /\ shots' = shots BY <1>s DEF Saved, Refinalizes, ext
  <2>3. EventsNumbered' BY <2>1, <2>2, <1>e, <1>f DEF EventKinds
  <2>4. QED BY <2>2, <2>3, <1>b, <1>c, <1>d, <1>i
<1>g1. rec'.status \notin {"recording", "review"} => RecNumbered' BY DEF RecNumbered
<1>g2. CASE AgentFinalizes
  <2>1. rec'.status = "finalized" BY <1>g2, <1>0 DEF AgentFinalizes, ViewTypeOK, Recordings
  <2>2. QED BY <1>g2, <2>1, <1>g1, <1>b, <1>c, <1>e, <1>i DEF AgentFinalizes, ext
<1>16. ASSUME \/ AgentDiscards \/ AgentCloses
              \/ \E j \in jobs : Discards(j)
       PROVE  Numbered'
  <2>1. made' = made /\ buf' = buf /\ shots' = shots BY <1>16 DEF AgentDiscards, AgentCloses, Discards, ext
  <2>2. \/ events' = events /\ rec' = rec
        \/ Sends("discarded", 0) /\ rec'.status = "gone"
    BY <1>16, GoneFits DEF AgentDiscards, AgentCloses, Discards, Forgets
  <2>3. RecNumbered' BY <2>1, <2>2, <1>g1, <1>d
  <2>4. EventsNumbered' BY <2>1, <2>2, <1>e, <1>f DEF EventKinds
  <2>5. QED BY <2>1, <2>3, <2>4, <1>b, <1>c, <1>i
<1>17. ASSUME NEW j \in jobs, AsksStop(j) PROVE Numbered'
  <2>1. made' = made /\ buf' = buf /\ events' = events /\ shots' = shots BY <1>17 DEF AsksStop
  <2>2. rec' = rec \/ (rec.status = "recording" /\ rec'.steps = rec.steps)
    BY <1>17, <1>0 DEF AsksStop, Reviews, ViewTypeOK, Recordings
  <2>3. RecNumbered' BY <2>1, <2>2, <1>a, <1>d DEF RecNumbered, Own
  <2>4. QED BY <2>1, <2>3, <1>b, <1>c, <1>e, <1>i
<1>18. QED
  BY <1>1, <1>2, <1>3, <1>4, <1>5, <1>6, <1>7, <1>8, <1>9, <1>10, <1>11, <1>12, <1>13, <1>14,
     <1>15, <1>16, <1>17, <1>s, <1>g2
  DEF ViewNext, Worker, WorkerEnds, Handles, Works

LEMMA WhileRecordingKeeps == ViewInv /\ ViewNext => WhileRecording'
<1> SUFFICES ASSUME ViewInv, ViewNext, rec'.status = "recording" PROVE WhileRecording' BY DEF WhileRecording
<1>0. ViewTypeOK /\ rec \in Recordings /\ view \in Views /\ jobs \subseteq Jobs BY DEF ViewInv, ViewTypeOK
<1> DEFINE JobsWait == \A j \in jobs : j.kind \in {"load", "stop"} /\ (Answered(j) => j.got.status = "recording")
           NoEnd == \A i \in DOMAIN events : events[i].kind \in {"started", "step"}
<1>s. rec.status \in {"new", "recording"}
  BY StatusMoves, RecordsIs, PicturedIs, <1>0 DEF Recordings, Kept
<1>1. CASE Starts
  <2>1. /\ told = {} /\ ~ending /\ file = Nothing /\ saved = "none" /\ events = <<>> /\ jobs = {} /\ ~InEditor
    BY <1>1 DEF ViewInv, Unstarted, Starts
  <2>2. EventSent("started", 0) BY <1>1, <1>0, Told DEF Starts, EventKinds
  <2>3. NoEnd' BY <2>1, <2>2 DEF EventSent
  <2>4. QED BY <1>1, <2>1, <2>3 DEF Starts, ext, WhileRecording, InEditor, Kept
<1>2. CASE rec.status = "new" /\ ~Starts
  <2>1. ~Records /\ \A n \in Seqs : ~Pictured(n) BY <1>2, <1>0, RecordsIs, PicturedIs
  <2>2. jobs = {} BY <1>2 DEF ViewInv, Unstarted
  <2>3. rec' = rec BY <2>1, <2>2, <1>2, StatusMoves
  <2>4. QED BY <2>3, <1>2
<1>3. ASSUME rec.status = "recording" PROVE WhileRecording'
  <2>0. /\ told = {} /\ ~ending /\ file = Nothing /\ NoEnd /\ JobsWait /\ up
        /\ saved \in {"none", "recording"} /\ view.mode \notin {"review", "finalized"}
    BY <1>3 DEF ViewInv, WhileRecording, AfterRecording, Kept
  <2>a. \A kind : kind \notin {"started", "step"} => ~Gets(kind)
    BY <2>0, <1>0, Taken DEF EventTaken
  <2>b. ASSUME told' = {}, ~ending', file' = Nothing, NoEnd', JobsWait',
               saved' \in {"none", "recording"}, view'.mode \notin {"review", "finalized"}
        PROVE  WhileRecording'
    BY <2>b DEF WhileRecording
  <2>c. events' = events => NoEnd' BY <2>0
  <2>d. jobs' = jobs => JobsWait' BY <2>0 DEF Answered
  <2>e. ASSUME NEW kind, Gets(kind) PROVE NoEnd' BY <2>e, <2>0, <1>0, Taken DEF EventTaken
  <2> HIDE DEF NoEnd, JobsWait
  <2>1. CASE Records
    <3>a. made' \in Seqs /\ rec'.steps[made'] \in Steps /\ Sends("step", made')
      BY <2>1, RecordsIs DEF Records
    <3>b. EventSent("step", made') BY <3>a, <1>0, Published
    <3>1. NoEnd' BY <3>b, <2>0 DEF EventSent, NoEnd
    <3>2. QED BY <2>1, <3>1, <2>0, <2>b, <2>d DEF Records, ext
  <2>2. ASSUME NEW n \in Seqs, Pictured(n) PROVE WhileRecording'
    <3>0. EventSent("step", n) BY <2>2, <1>0, PicturedIs, Published DEF Pictured
    <3>1. NoEnd' BY <3>0, <2>0 DEF EventSent, NoEnd
    <3>2. QED BY <2>2, <3>1, <2>0, <2>b, <2>d DEF Pictured, ext
  <2>3. CASE HandlesStarted
    <3>1. view'.mode = "recording" BY <2>3, ShowsFits DEF HandlesStarted, Kept
    <3>2. QED BY <2>3, <3>1, <2>0, <2>b, <2>d, <2>e DEF HandlesStarted, worker
  <2>4. CASE HandlesStep
    BY <2>4, <2>0, <2>b, <2>d, <2>e DEF HandlesStep, Saves, worker
  <2>5. CASE FlushTimer
    <3>1. view'.mode = view.mode BY <2>5, <1>0, FlushIs DEF FlushTimer, Views
    <3>2. QED BY <2>5, <3>1, <2>0, <2>b, <2>c, <2>d DEF FlushTimer, worker
  <2>6. CASE OpensDashboard \/ Closes
    <3>1. view'.mode \in {"dashboard", "closed"} BY <2>6, ShowsFits DEF OpensDashboard, Closes
    <3>2. CASE OpensDashboard BY <3>2, <3>1, <2>0, <2>b, <2>c, <2>d DEF OpensDashboard, worker, ext
    <3>3. CASE Closes BY <3>3, <3>1, <2>0, <2>b, <2>c, <2>d DEF Closes, worker, ext
    <3>4. QED BY <2>6, <3>2, <3>3
  <2>7. ASSUME NEW status \in Kept, OpensOne(status) PROVE WhileRecording'
    <3>1. status = "recording" BY <2>7, <2>0 DEF OpensOne, Kept
    <3>2. view'.mode = "recording" BY <2>7, <3>1, ShowsFits DEF OpensOne, Kept, Views
    <3>3. JobsWait'
      <4>1. \A j \in jobs' : j \in jobs \/ j = Asks("load") BY <2>7, <3>1 DEF OpensOne, Posts
      <4>2. QED BY <4>1, <2>0 DEF JobsWait, Asks, Answered
    <3>4. QED BY <2>7, <3>2, <3>3, <2>0, <2>b, <2>c DEF OpensOne, worker, ext
  <2>8. CASE ClicksStop
    <3>1. view'.mode = view.mode BY <2>8, <1>0 DEF ClicksStop, Views
    <3>2. JobsWait'
      <4>1. \A j \in jobs' : j \in jobs \/ j = Asks("stop") BY <2>8 DEF ClicksStop, Posts
      <4>2. QED BY <4>1, <2>0 DEF JobsWait, Asks, Answered
    <3>3. QED BY <2>8, <3>1, <3>2, <2>0, <2>b, <2>c DEF ClicksStop, worker, ext
  <2>9. ASSUME NEW j \in jobs, LoadAnswered(j) PROVE WhileRecording'
    <3>0. j \in Jobs /\ j.kind = "load" BY <2>9, <2>0, <1>0 DEF LoadAnswered, JobsWait
    <3>1. j \in Jobs /\ j.kind = "load" /\ jobs' = (jobs \ {j}) \cup {[j EXCEPT !.got = rec]} /\ view' = view
      BY <3>0, <2>9, <2>0, <1>3 DEF LoadAnswered, Kept
    <3>2. [j EXCEPT !.got = rec].kind = "load" /\ [j EXCEPT !.got = rec].got = rec BY <3>1 DEF Jobs
    <3>3. \A k \in jobs' : k \in jobs \/ (k.kind = "load" /\ k.got = rec) BY <3>1, <3>2
    <3>4. JobsWait' BY <3>3, <2>0, <1>3 DEF JobsWait, Answered
    <3>5. QED BY <2>9, <3>1, <3>4, <2>0, <2>b, <2>c DEF LoadAnswered, worker, ext
  <2>10. ASSUME NEW j \in jobs, LoadShown(j) PROVE WhileRecording'
    <3>1. j.got.status = "recording" BY <2>10, <2>0 DEF LoadShown, JobsWait
    <3>2. view'.mode = "recording" \/ view' = view BY <2>10, <3>1, ShowsFits DEF LoadShown, Kept, Views
    <3>3. JobsWait' BY <2>10, <2>0 DEF LoadShown, JobsWait, Answered
    <3>4. QED BY <2>10, <3>2, <3>3, <2>0, <2>b, <2>c DEF LoadShown, worker, ext
  <2>11. ~Starts /\ ~PageStops /\ ~Dies /\ ~Returns /\ ~TellsStopped /\ ~StopThrows
    <3>1. ~Starts /\ ~TellsStopped /\ ~StopThrows /\ ~Returns
      BY <2>0, <1>3 DEF Starts, TellsStopped, StopThrows, Returns
    <3>2. ~Dies BY GoneFits DEF Dies
    <3>3. ~PageStops BY <1>0 DEF PageStops, Reviews, Recordings
    <3>4. QED BY <3>1, <3>2, <3>3
  <2>12. ~HandlesStopped /\ ~HandlesFinalized /\ ~HandlesDiscarded /\ ~HearsState /\ ~ShowsStopped
    BY <2>0, <2>a DEF HandlesStopped, HandlesFinalized, HandlesDiscarded, HearsState, ShowsStopped
  <2>13. ~BackToReview /\ ~RestoresSteps /\ ~ClicksFinalize /\ ~ClicksDiscard /\ \A n \in Seqs : ~RemovesStep(n)
    BY <2>0 DEF BackToReview, RestoresSteps, ClicksFinalize, ClicksDiscard, RemovesStep, Editing
  <2>x. ~AgentFinalizes /\ ~AgentDiscards /\ ~AgentCloses
    <3>1. ~AgentFinalizes BY <1>0 DEF AgentFinalizes, Recordings
    <3>2. ~AgentDiscards BY GoneFits DEF AgentDiscards, Forgets
    <3>3. ~AgentCloses BY <1>3, GoneFits DEF AgentCloses, Forgets
    <3>4. QED BY <3>1, <3>2, <3>3
  <2>14. \A j \in jobs : /\ ~Finalizes(j) /\ ~Discards(j) /\ ~AsksStop(j)
                          /\ ~Saved(j) /\ ~SaveFails(j) /\ ~Refinalizes(j)
    <3>1. \A j \in jobs : ~Finalizes(j) /\ ~Discards(j) /\ ~Saved(j) /\ ~SaveFails(j) /\ ~Refinalizes(j)
      BY <2>0 DEF JobsWait, Finalizes, Discards, Saved, SaveFails, Refinalizes, Savings
    <3>2. \A j \in jobs : ~AsksStop(j) BY <2>0, <1>3, <1>0 DEF AsksStop, Reviews, Recordings
    <3>3. QED BY <3>1, <3>2
  <2>15. QED
    BY <2>1, <2>2, <2>3, <2>4, <2>5, <2>6, <2>7, <2>8, <2>9, <2>10, <2>11, <2>12, <2>13, <2>14, <2>x
    DEF ViewNext, Worker, User, WorkerEnds, Handles, Works
<1>4. QED BY <1>s, <1>1, <1>2, <1>3

(* What is to be written is written, which is said, or cannot be, which    *)
(* leaves a mark; a recording that is there stays there meanwhile.         *)
LEMMA SavingMoves ==
  ASSUME ViewInv, ViewNext, rec'.status \in Kept, Saving
  PROVE  \/ Saving'
         \/ file' # Nothing /\ Sends("finalized", 0) /\ \E j \in jobs : Saved(j)
         \/ "astray" \in flaws'
<1>0. jobs \subseteq Jobs BY DEF ViewInv, ViewTypeOK
<1>1. PICK j \in jobs : j.kind \in Savings BY DEF Saving
<1>2. j \in Jobs /\ j.got \in Lists /\ j.got # Nothing BY <1>0, <1>1, JobIs, ViewAssumption DEF ViewAssumption
<1>3. j \in jobs' => Saving' BY <1>1 DEF Saving
<1>4. \A k \in jobs : jobs' = jobs \ {k} /\ k.kind \notin Savings => j \in jobs' BY <1>1
<1>5. \A new : \A k \in jobs : jobs' = (jobs \ {k}) \cup new /\ k.kind \notin Savings => j \in jobs' BY <1>1
<1>6. \A new : jobs' = jobs \cup new => j \in jobs' OBVIOUS
<1>7. CASE Worker
  <2>1. ~Dies BY GoneFits DEF Dies, Kept
  <2>2. jobs' = jobs \/ AgentFinalizes
    BY <1>7, <2>1 DEF Worker, Starts, Records, PageStops, Pictured, Returns, AgentDiscards, AgentCloses
  <2>3. AgentFinalizes => j \in jobs' BY <1>6 DEF AgentFinalizes
  <2>4. QED BY <2>2, <2>3, <1>3
<1>8. CASE User
  <2>1. jobs' = jobs \/ \E new : jobs' = jobs \cup new
    BY <1>8 DEF User, OpensDashboard, Closes, OpensOne, BackToReview, RestoresSteps, RemovesStep, ClicksFinalize, ClicksDiscard,
       ClicksStop, Posts
  <2>2. QED BY <2>1, <1>3, <1>6
<1>9. CASE WorkerEnds
  <2>1. jobs' = jobs \ {Waiting} BY <1>9 DEF WorkerEnds, TellsStopped, StopThrows
  <2>2. j # Waiting
    <3>1. Waiting.kind = "stop" BY DEF Waiting
    <3>2. j.kind # "stop" BY <1>1 DEF Savings
    <3>3. QED BY <3>1, <3>2
  <2>3. QED BY <2>1, <2>2, <1>3
<1>10. CASE Handles
  BY <1>10, <1>3 DEF Handles, HandlesStarted, HandlesStep, HandlesStopped, HandlesFinalized, HandlesDiscarded, FlushTimer,
     HearsState, ShowsStopped
<1>11. ASSUME NEW k \in jobs, Saved(k)
       PROVE  Saving' \/ (file' # Nothing /\ Sends("finalized", 0))
  <2>1. k.got \in Lists /\ k.got # Nothing BY <1>11, <1>0, JobIs, ViewAssumption DEF Saved, ViewAssumption
  <2>2. QED BY <1>11, <2>1 DEF Saved
<1>12. ASSUME NEW k \in jobs, SaveFails(k) PROVE "astray" \in flaws'
  BY <1>12 DEF SaveFails, Suffers
<1>13. ASSUME NEW k \in jobs, LoadAnswered(k) \/ LoadShown(k) \/ Finalizes(k) \/ Refinalizes(k) \/ Discards(k) \/ AsksStop(k)
       PROVE  j \in jobs'
  <2>1. k.kind \notin Savings
    <3>1. AsksStop(k) => k.kind = "stop"
      <4>1. Asks("stop").kind = "stop" BY DEF Asks
      <4>2. QED BY <4>1 DEF AsksStop
    <3>2. QED BY <1>13, <3>1 DEF LoadAnswered, LoadShown, Answered, Finalizes, Refinalizes, Discards, Savings
  <2>2. jobs' = jobs \ {k} \/ \E new : jobs' = (jobs \ {k}) \cup new
    BY <1>13 DEF LoadAnswered, LoadShown, Finalizes, Refinalizes, Discards, AsksStop
  <2>3. QED BY <2>1, <2>2, <1>4, <1>5
<1>14. QED BY <1>3, <1>7, <1>8, <1>9, <1>10, <1>11, <1>12, <1>13 DEF ViewNext, Works

LEMMA AfterRecordingKeeps == ViewInv /\ ViewNext => AfterRecording'
<1> SUFFICES ASSUME ViewInv, ViewNext, rec'.status \in Kept PROVE AfterRecording'
  BY DEF AfterRecording, Kept
<1>0. ViewTypeOK /\ rec \in Recordings BY DEF ViewInv, ViewTypeOK
<1>1. /\ rec.status = "review" =>
           file = Nothing /\ ~Saving /\ \A i \in DOMAIN events : events[i].kind # "finalized"
      /\ rec.status = "finalized" => file # Nothing \/ Saving \/ "astray" \in flaws
      /\ rec.status = "recording" =>
           /\ file = Nothing /\ \A i \in DOMAIN events : events[i].kind \in {"started", "step"}
           /\ \A j \in jobs : j.kind \in {"load", "stop"}
      /\ rec.status \in Kept => up
      /\ rec.status = "new" => up
  BY DEF ViewInv, AfterRecording, WhileRecording, Unstarted
<1>2. up'
  <2>1. CASE Dies BY <2>1, GoneFits DEF Dies, Kept
  <2>2. CASE Returns BY <2>2 DEF Returns
  <2>3. CASE ~Dies /\ ~Returns
    <3>1. up' = up
      BY <2>3 DEF ViewNext, Worker, User, WorkerEnds, Handles, Works, Starts, Records, PageStops, Pictured, AgentFinalizes, AgentDiscards, AgentCloses, Forgets,
        OpensDashboard, Closes, OpensOne, BackToReview, RestoresSteps, RemovesStep, ClicksFinalize, ClicksDiscard, ClicksStop,
        TellsStopped, StopThrows, HandlesStarted, HandlesStep, HandlesStopped, HandlesFinalized,
        HandlesDiscarded, FlushTimer, ShowsStopped, HearsState, LoadAnswered, LoadShown, Finalizes, Saved, SaveFails, Refinalizes, Discards, AsksStop, worker
    <3>2. rec.status \in Kept \cup {"new"} BY <1>0, StatusMoves, RecordsIs, PicturedIs DEF Kept
    <3>3. QED BY <3>1, <3>2, <1>1
  <2>4. QED BY <2>1, <2>2, <2>3
<1>3. ASSUME rec'.status = "review"
      PROVE  file' = Nothing /\ ~Saving' /\ \A i \in DOMAIN events' : events'[i].kind # "finalized"
  <2>0. rec.status \in {"recording", "review"}
    BY <1>3, <1>0, StatusMoves, RecordsIs, PicturedIs DEF Kept
  <2>1. /\ file = Nothing /\ \A i \in DOMAIN events : events[i].kind # "finalized"
        /\ \A j \in jobs : j.kind \notin Savings
    BY <2>0, <1>1 DEF Saving, Savings
  <2>2. \A j \in jobs : ~Saved(j) /\ ~SaveFails(j) BY <2>1 DEF Saved, SaveFails
  <2>3. ~AgentFinalizes /\ ~AgentDiscards /\ ~Dies /\ \A j \in jobs : ~(Discards(j) /\ up /\ open /\ rec.status \in Kept)
    BY <1>3, GoneFits, <1>0 DEF AgentFinalizes, AgentDiscards, Dies, Discards, Forgets, Recordings
  <2>4. \A j \in jobs : Refinalizes(j) => file' = file /\ events' = events BY <2>1 DEF Refinalizes
  <2>5. AgentCloses => file' = file /\ events' = events BY <1>3, GoneFits DEF AgentCloses, Forgets
  <2>6. \A j \in jobs : Finalizes(j) => rec' = rec /\ jobs' = (jobs \ {j}) \cup {[j EXCEPT !.kind = "again"]}
    BY <1>3 DEF Finalizes
  <2>7. file' = file
    BY <2>2, <2>3, <2>4, <2>5 DEF ViewNext, Worker, User, WorkerEnds, Handles, Works, Starts, Records, PageStops, Pictured, Returns,
      OpensDashboard, Closes, OpensOne, BackToReview, RestoresSteps, RemovesStep, ClicksFinalize, ClicksDiscard, ClicksStop,
      TellsStopped, StopThrows, HandlesStarted, HandlesStep, HandlesStopped, HandlesFinalized,
      HandlesDiscarded, FlushTimer, ShowsStopped, HearsState, LoadAnswered, LoadShown, Finalizes, Discards, AsksStop, worker
  <2>8. ~Saving'
    <3> SUFFICES ASSUME NEW k \in jobs' PROVE k.kind \notin Savings BY DEF Saving
    <3>1. k \in jobs => k.kind \notin Savings BY <2>1
    <3>2. \A kind \in {"load", "read", "discard", "stop"} : Asks(kind).kind \notin Savings BY DEF Asks, Savings
    <3>3. Waiting.kind \notin Savings BY DEF Waiting, Savings
    <3>4. \A got : [kind |-> "finalize", got |-> got].kind \notin Savings BY DEF Savings
    <3>5. CASE Worker \/ WorkerEnds \/ Handles
      BY <3>5, <3>1, <2>3 DEF Worker, WorkerEnds, Handles, Starts, Records, PageStops, Pictured, Returns, AgentCloses, TellsStopped,
         StopThrows, HandlesStarted, HandlesStep, HandlesStopped, HandlesFinalized, HandlesDiscarded, FlushTimer, HearsState,
         ShowsStopped
    <3>6. CASE User
      BY <3>6, <3>1, <3>2, <3>4 DEF User, OpensDashboard, Closes, OpensOne, BackToReview, RestoresSteps, RemovesStep, ClicksFinalize,
         ClicksDiscard, ClicksStop, Posts
    <3>7. ASSUME NEW j \in jobs, LoadAnswered(j) PROVE k.kind \notin Savings
      <4>1. k \in jobs \/ \E got : k = [j EXCEPT !.got = got] BY <3>7 DEF LoadAnswered
      <4>2. j \in Jobs /\ j.kind \notin Savings BY <2>1, <1>0 DEF ViewTypeOK
      <4>3. \A got : [j EXCEPT !.got = got].kind = j.kind BY <4>2 DEF Jobs
      <4>4. QED BY <4>1, <4>2, <4>3, <3>1
    <3>8. ASSUME NEW j \in jobs, Finalizes(j) PROVE k.kind \notin Savings
      <4>1. j \in Jobs /\ [j EXCEPT !.kind = "again"].kind = "again" BY <3>8, <1>0, KindFits DEF Finalizes, ViewTypeOK
      <4>2. QED BY <4>1, <3>8, <2>6, <3>1 DEF Savings
    <3>9. ASSUME NEW j \in jobs, LoadShown(j) \/ Refinalizes(j) \/ Discards(j) \/ AsksStop(j) PROVE k.kind \notin Savings
      BY <3>9, <3>1, <3>3 DEF LoadShown, Refinalizes, Discards, AsksStop
    <3>10. QED BY <3>5, <3>6, <3>7, <3>8, <3>9, <2>2 DEF ViewNext, Works
  <2>9. \A i \in DOMAIN events' : events'[i].kind # "finalized"
    <3>2. ASSUME NEW kind, kind # "finalized", NEW seq, EventSent(kind, seq)
          PROVE  \A i \in DOMAIN events' : events'[i].kind # "finalized"
      BY <2>1, <3>2 DEF EventSent
    <3>3. ASSUME NEW kind, EventTaken(kind)
          PROVE  \A i \in DOMAIN events' : events'[i].kind # "finalized"
      BY <2>1, <3>3 DEF EventTaken
    <3>4. CASE Starts \/ TellsStopped
      BY <3>4, <3>2, <1>0, Told DEF Starts, TellsStopped, EventKinds
    <3>5. CASE Records
      BY <1>3, <3>5, RecordsIs
    <3>6. ASSUME NEW n \in Seqs, Pictured(n) PROVE \A i \in DOMAIN events' : events'[i].kind # "finalized"
      BY <3>6, <3>2, <1>0, PicturedIs, Published DEF Pictured
    <3>7. CASE HandlesStarted \/ HandlesStep \/ HandlesStopped \/ HandlesFinalized \/ HandlesDiscarded
      BY <3>7, <3>3, <1>0, Taken DEF HandlesStarted, HandlesStep, HandlesStopped, HandlesFinalized, HandlesDiscarded
    <3>8. ASSUME events' = events PROVE \A i \in DOMAIN events' : events'[i].kind # "finalized"
      BY <3>8, <2>1
    <3>9. QED
      BY <2>2, <2>3, <2>4, <2>5, <3>4, <3>5, <3>6, <3>7, <3>8 DEF ViewNext, Worker, User, WorkerEnds, Handles, Works, PageStops, Returns,
        OpensDashboard, Closes, OpensOne, BackToReview, RestoresSteps, RemovesStep, ClicksFinalize, ClicksDiscard, ClicksStop,
        StopThrows, FlushTimer, ShowsStopped, HearsState, LoadAnswered, LoadShown, Finalizes, Discards, AsksStop
  <2>10. QED BY <2>1, <2>7, <2>8, <2>9
<1>4. ASSUME rec'.status = "finalized" PROVE file' # Nothing \/ Saving' \/ "astray" \in flaws'
  <2>0. "astray" \in flaws => "astray" \in flaws' BY FlawsStay
  <2>1. CASE AgentFinalizes
    <3>1. \A got : [kind |-> "agent saves", got |-> got].kind \in Savings BY DEF Savings
    <3>2. QED BY <2>1, <3>1 DEF AgentFinalizes, Saving
  <2>2. ASSUME NEW got, [kind |-> "saves", got |-> got] \in jobs' PROVE Saving'
    <3>1. [kind |-> "saves", got |-> got].kind \in Savings BY DEF Savings
    <3>2. QED BY <2>2, <3>1 DEF Saving
  <2>3. CASE Saving BY <2>3, SavingMoves DEF Kept
  <2>4. CASE rec.status = "finalized" /\ file # Nothing
    <3>1. file' # Nothing
      <4>1. ~AgentDiscards /\ ~Dies /\ \A j \in jobs : ~(Discards(j) /\ up /\ open /\ rec.status \in Kept)
        BY <1>4, GoneFits DEF AgentDiscards, Dies, Discards, Forgets
      <4>2. AgentCloses => file' = file BY <2>4 DEF AgentCloses
      <4>3. \A j \in jobs : Saved(j) \/ Refinalizes(j) => file' = file \/ file' \in Lists
        <5>1. \A j \in jobs : Saved(j) => file' \in Lists BY <1>0, JobIs DEF Saved, ViewTypeOK
        <5>2. \A j \in jobs : Refinalizes(j) => file' = file \/ file' \in Lists
          BY <2>4, <1>0, JobIs, MergedIs DEF Refinalizes, ViewTypeOK
        <5>3. QED BY <5>1, <5>2
      <4>4. file' = file \/ file' \in Lists
        BY <4>1, <4>2, <4>3 DEF ViewNext, Worker, User, WorkerEnds, Handles, Works, Starts, Records, PageStops, Pictured, Returns,
          AgentFinalizes,
          OpensDashboard, Closes, OpensOne, BackToReview, RestoresSteps, RemovesStep, ClicksFinalize, ClicksDiscard, ClicksStop,
          TellsStopped, StopThrows, HandlesStarted, HandlesStep, HandlesStopped, HandlesFinalized,
          HandlesDiscarded, FlushTimer, ShowsStopped, HearsState, LoadAnswered, LoadShown, Finalizes, SaveFails, Discards, AsksStop, worker
      <4>5. QED BY <4>4, <2>4, ViewAssumption DEF ViewAssumption
    <3>2. QED BY <3>1
  <2>5. rec.status = "finalized" => file # Nothing \/ Saving \/ "astray" \in flaws BY <1>1
  <2>6. rec.status = "finalized" \/ AgentFinalizes \/ \E got : [kind |-> "saves", got |-> got] \in jobs'
    BY <1>4, <1>0, StatusMoves, RecordsIs, PicturedIs
  <2>7. QED BY <2>0, <2>1, <2>2, <2>3, <2>4, <2>5, <2>6
<1>5. QED BY <1>2, <1>3, <1>4 DEF AfterRecording

(* A recording that there is after a step was there before, unless it      *)
(* starts, and the worker runs.                                            *)
LEMMA StillKept ==
  ASSUME ViewInv, ViewNext, rec'.status \in Kept
  PROVE  /\ rec.status \in Kept \/ (Starts /\ rec.status = "new")
         /\ ~Dies /\ ~Returns /\ up /\ ~AgentDiscards
         /\ AgentCloses => rec' = rec /\ file' = file /\ events' = events
         /\ \A j \in jobs : ~(Discards(j) /\ up /\ open /\ rec.status \in Kept)
<1>1. rec.status \in Kept \/ (Starts /\ rec.status = "new")
  <2>1. Records => rec.status \in Kept BY RecordsIs DEF Kept
  <2>2. \A n \in Seqs : Pictured(n) => rec.status \in Kept BY DEF Pictured, Kept
  <2>3. QED BY <2>1, <2>2, StatusMoves DEF Kept
<1>2. up BY <1>1 DEF ViewInv, AfterRecording, Unstarted
<1>3. ~Dies /\ ~Returns BY <1>2, GoneFits DEF Dies, Returns, Kept
<1>4. \A j \in jobs : ~(Discards(j) /\ up /\ open /\ rec.status \in Kept)
  BY GoneFits DEF Discards, Forgets, Kept
<1>5. ~AgentDiscards /\ (AgentCloses => rec' = rec /\ file' = file /\ events' = events)
  BY GoneFits DEF AgentDiscards, AgentCloses, Forgets, Kept
<1>6. QED BY <1>1, <1>2, <1>3, <1>4, <1>5

LEMMA StartFirstKeeps == ViewInv /\ ViewNext => StartFirst'
<1> SUFFICES ASSUME ViewInv, ViewNext, rec'.status \in Kept PROVE StartFirst' BY DEF StartFirst
<1>0. ViewTypeOK BY DEF ViewInv
<1> DEFINE Alone == \A i \in DOMAIN events : events[i].kind # "discarded" /\ (i # 1 => events[i].kind # "started")
<1>1. CASE Starts /\ rec.status = "new"
  <2>1. events = <<>> /\ buf = <<>> /\ told = {} /\ saved = "none" BY <1>1 DEF ViewInv, Unstarted
  <2>2. EventSent("started", 0) BY <1>1, <1>0, Told DEF Starts, EventKinds
  <2>3. Alone' /\ StartAhead' BY <2>1, <2>2 DEF EventSent, StartAhead
  <2>4. QED BY <2>1, <2>3, <1>1 DEF Starts, ext, StartFirst
<1>2. ASSUME rec.status \in Kept PROVE StartFirst'
  <2>0. (saved = "none" <=> StartAhead) /\ (StartAhead => buf = <<>> /\ told = {}) /\ Alone
    BY <1>2 DEF ViewInv, StartFirst
  <2>a. ASSUME saved' = "none" <=> StartAhead', StartAhead' => buf' = <<>> /\ told' = {}, Alone'
        PROVE  StartFirst'
    BY <2>a DEF StartFirst
  <2>b. events' = events => Alone' /\ (StartAhead' <=> StartAhead) BY <2>0 DEF StartAhead
  <2>c. ASSUME NEW kind, kind \notin {"started", "discarded"}, NEW seq, EventSent(kind, seq)
        PROVE  Alone' /\ (StartAhead' <=> StartAhead)
    <3>1. Alone' BY <2>c, <2>0 DEF EventSent
    <3>2. StartAhead' <=> StartAhead
      <4>1. CASE Len(events) = 0
        <5>1. 1 \notin DOMAIN events /\ events'[1].kind = kind BY <4>1, <2>c DEF EventSent
        <5>2. QED BY <5>1, <2>c DEF StartAhead
      <4>2. CASE Len(events) # 0
        <5>1. 1 \in DOMAIN events /\ 1 \in DOMAIN events' /\ events'[1] = events[1] BY <4>2, <2>c DEF EventSent
        <5>2. QED BY <5>1 DEF StartAhead
      <4>3. QED BY <4>1, <4>2
    <3>3. QED BY <3>1, <3>2
  <2>d. ASSUME NEW kind, EventTaken(kind) PROVE Alone' /\ ~StartAhead' /\ (StartAhead <=> kind = "started")
        /\ kind # "discarded"
    BY <2>d, <2>0 DEF EventTaken, StartAhead
  <2>e. \A kind : Gets(kind) => EventTaken(kind) BY <1>0, Taken
  <2> HIDE DEF Alone
  <2>1. CASE Starts
    BY <2>1, <1>2 DEF Starts, Kept
  <2>2. CASE Records
    <3>1. EventSent("step", made') BY <2>2, <1>0, RecordsIs, Published DEF Records
    <3>2. QED BY <2>2, <3>1, <2>0, <2>a, <2>c DEF Records, ext
  <2>3. ASSUME NEW n \in Seqs, Pictured(n) PROVE StartFirst'
    <3>1. EventSent("step", n) BY <2>3, <1>0, PicturedIs, Published DEF Pictured
    <3>2. QED BY <2>3, <3>1, <2>0, <2>a, <2>c DEF Pictured, ext
  <2>4. CASE PageStops \/ StopThrows \/ User
    <3>1. events' = events /\ saved' = saved /\ buf' = buf /\ told' = told
      BY <2>4 DEF PageStops, StopThrows, User, OpensDashboard, Closes, OpensOne, BackToReview, RestoresSteps, RemovesStep, ClicksFinalize, ClicksDiscard, ClicksStop, ext
    <3>2. QED BY <3>1, <2>0, <2>a, <2>b
  <2>5. CASE TellsStopped
    <3>1. EventSent("stopped", 0) BY <2>5, <1>0, Told DEF TellsStopped, EventKinds
    <3>2. QED BY <2>5, <3>1, <2>0, <2>a, <2>c DEF TellsStopped, ext
  <2>6. CASE HandlesStarted
    <3>1. EventTaken("started") BY <2>6, <2>e DEF HandlesStarted
    <3>2. QED BY <2>6, <3>1, <2>0, <2>a, <2>d DEF HandlesStarted
  <2>7. CASE HandlesStep
    <3>1. EventTaken("step") BY <2>7, <2>e DEF HandlesStep
    <3>2. saved' # "none" BY <2>7, <3>1, <2>0, <2>d DEF HandlesStep, Saves
    <3>3. QED BY <3>1, <3>2, <2>a, <2>d
  <2>8. CASE HandlesStopped
    <3>1. EventTaken("stopped") BY <2>8, <2>e DEF HandlesStopped
    <3>2. saved' # "none" BY <2>8, <3>1, <2>0, <2>d DEF HandlesStopped
    <3>3. QED BY <3>1, <3>2, <2>a, <2>d
  <2>9. CASE HandlesFinalized
    <3>1. EventTaken("finalized") BY <2>9, <2>e DEF HandlesFinalized
    <3>2. saved' # "none" BY <2>9, <3>1, <2>0, <2>d DEF HandlesFinalized, Saves
    <3>3. QED BY <3>1, <3>2, <2>a, <2>d
  <2>10. CASE HandlesDiscarded
    BY <2>10, <2>e, <2>d DEF HandlesDiscarded
  <2>11. CASE FlushTimer
    BY <2>11, <2>0, <2>a, <2>b DEF FlushTimer, Flush
  <2>12. CASE HearsState \/ ShowsStopped
    <3>1. ~StartAhead /\ saved # "none" BY <2>12, <2>0 DEF HearsState, ShowsStopped
    <3>2. saved' # "none" /\ events' = events BY <2>12, <3>1 DEF HearsState, ShowsStopped, Saves
    <3>3. QED BY <3>1, <3>2, <2>a, <2>b
  <2>13. ASSUME NEW j \in jobs, LoadAnswered(j) \/ LoadShown(j) PROVE StartFirst'
    <3>1. events' = events /\ saved' = saved /\ buf' = buf /\ told' = told
      BY <2>13 DEF LoadAnswered, LoadShown, ext
    <3>2. QED BY <3>1, <2>0, <2>a, <2>b
  <2>14. ASSUME NEW j \in jobs, Saved(j) \/ Refinalizes(j) PROVE StartFirst'
    <3>1. saved' = saved /\ buf' = buf /\ told' = told /\ (events' = events \/ Sends("finalized", 0))
      BY <2>14 DEF Saved, Refinalizes, ext
    <3>2. events' = events \/ EventSent("finalized", 0) BY <3>1, <1>0, Told DEF EventKinds
    <3>3. QED BY <3>1, <3>2, <2>0, <2>a, <2>b, <2>c
  <2>y. ASSUME NEW j \in jobs, Finalizes(j) \/ SaveFails(j) PROVE StartFirst'
    <3>1. saved' = saved /\ buf' = buf /\ told' = told /\ events' = events
      BY <2>y DEF Finalizes, SaveFails, ext
    <3>2. QED BY <3>1, <2>0, <2>a, <2>b
  <2>z. CASE AgentFinalizes \/ AgentCloses
    <3>1. saved' = saved /\ buf' = buf /\ told' = told /\ events' = events
      BY <2>z, StillKept DEF AgentFinalizes, AgentCloses, ext
    <3>2. QED BY <3>1, <2>0, <2>a, <2>b
  <2>15. ASSUME NEW j \in jobs, Discards(j) PROVE StartFirst'
    <3>1. saved' = saved /\ buf' = buf /\ told' = told /\ events' = events
      BY <2>15, StillKept DEF Discards, ext
    <3>2. QED BY <3>1, <2>0, <2>a, <2>b
  <2>16. ASSUME NEW j \in jobs, AsksStop(j) PROVE StartFirst'
    <3>1. saved' = saved /\ buf' = buf /\ told' = told /\ events' = events
      BY <2>16, StillKept, <1>0 DEF AsksStop, ViewTypeOK
    <3>2. QED BY <3>1, <2>0, <2>a, <2>b
  <2>17. ~Dies /\ ~Returns /\ ~AgentDiscards BY StillKept
  <2>18. QED
    BY <2>1, <2>2, <2>3, <2>4, <2>5, <2>6, <2>7, <2>8, <2>9, <2>10, <2>11, <2>12, <2>13, <2>14, <2>15, <2>16, <2>17, <2>y, <2>z
    DEF ViewNext, Worker, WorkerEnds, Handles, Works
<1>3. QED BY <1>1, <1>2, StillKept

LEMMA SavedFollowsKeeps == ViewInv /\ ViewNext => SavedFollows'
<1> SUFFICES ASSUME ViewInv, ViewNext, Clean({"astray"})', rec'.status \in {"review", "finalized"}
             PROVE  SavedFollows'
  BY DEF SavedFollows
<1>0. ViewTypeOK /\ rec \in Recordings BY DEF ViewInv, ViewTypeOK
<1>k. rec.status \in Kept /\ rec'.status \in Kept /\ up BY StillKept, <1>0 DEF Starts, Recordings, Kept
<1>s. /\ saved = "none" <=> StartAhead
      /\ StartAhead => buf = <<>> /\ told = {}
      /\ \A i \in DOMAIN events : events[i].kind # "discarded" /\ (i # 1 => events[i].kind # "started")
  BY <1>k DEF ViewInv, StartFirst
<1>c. Clean({"astray"}) BY FlawsStay DEF Clean
<1> DEFINE Reviewed == rec.status = "review" => ending \/ told # {} \/ Ahead("stopped") \/ saved = "review"
           Finished == rec.status = "finalized" => saved = "finalized" \/ Ahead("finalized") \/ Saving
<1>1. Reviewed /\ Finished BY <1>c DEF ViewInv, SavedFollows
<1>2. ASSUME Reviewed', Finished' PROVE SavedFollows' BY <1>2 DEF SavedFollows
<1>3. \A kind : events' = events => (Ahead(kind)' <=> Ahead(kind)) BY DEF Ahead
<1>4. ASSUME NEW kind, NEW seq, EventSent(kind, seq) PROVE Ahead(kind)' /\ \A k : Ahead(k) => Ahead(k)'
  BY <1>4 DEF EventSent, Ahead
<1>5. ASSUME NEW kind, Gets(kind) PROVE EventTaken(kind) /\ \A k : k # kind /\ Ahead(k) => Ahead(k)'
  <2>1. EventTaken(kind) BY <1>5, <1>0, Taken
  <2>2. ASSUME NEW k, k # kind, Ahead(k) PROVE Ahead(k)'
    <3>1. PICK i \in DOMAIN events : events[i].kind = k BY <2>2 DEF Ahead
    <3>2. i # 1 /\ i - 1 \in DOMAIN events' /\ events'[i - 1] = events[i]
      <4>1. i # 1 BY <2>1, <2>2, <3>1 DEF EventTaken
      <4>2. i \in 1 .. Len(events) /\ Len(events) \in Nat /\ DOMAIN events' = 1 .. Len(events) - 1
        BY <2>1, <3>1 DEF EventTaken
      <4>3. i - 1 \in DOMAIN events' BY <4>1, <4>2
      <4>4. events'[i - 1] = events[(i - 1) + 1] BY <4>3, <2>1 DEF EventTaken
      <4>5. QED BY <4>1, <4>2, <4>3, <4>4
    <3>3. QED BY <3>1, <3>2 DEF Ahead
  <2>3. QED BY <2>1, <2>2
<1>6. rec'.status = rec.status \/ (rec.status = "recording" /\ rec'.status = "review")
      \/ rec'.status = "finalized"
  BY <1>0, <1>k, StatusMoves, RecordsIs, PicturedIs DEF Kept
<1>v. ASSUME saved' = saved \/ saved # "finalized", Ahead("finalized") => Ahead("finalized")', rec' = rec
      PROVE  Finished'
  <2> SUFFICES ASSUME rec.status = "finalized" PROVE saved' = "finalized" \/ Ahead("finalized")' \/ Saving' BY <1>v
  <2>1. Saving => Saving' \/ Ahead("finalized")'
    <3>1. Saving => Saving' \/ Sends("finalized", 0) BY <1>k, SavingMoves DEF Clean
    <3>2. Sends("finalized", 0) => Ahead("finalized")' BY <1>0, Told, <1>4 DEF EventKinds
    <3>3. QED BY <3>1, <3>2
  <2>2. QED BY <2>1, <1>1, <1>v
<1>7. ASSUME rec' = rec, saved' = saved, told' = {} => told = {}, ending' = ending, \A k : Ahead(k) => Ahead(k)'
      PROVE  SavedFollows'
  <2>1. Finished' BY <1>7, <1>v
  <2>2. Reviewed' BY <1>7, <1>1
  <2>3. QED BY <2>1, <2>2, <1>2
<1> HIDE DEF Reviewed, Finished
<1>8. CASE Starts \/ Records
  BY <1>8, <1>k, RecordsIs, <1>0 DEF Starts, Kept, Recordings
<1>9. ASSUME NEW n \in Seqs, Pictured(n) PROVE SavedFollows'
  <2>1. EventSent("step", n) /\ rec'.status = rec.status BY <1>9, <1>0, PicturedIs, Published DEF Pictured
  <2>3. \A k : Ahead(k) => Ahead(k)' BY <2>1, <1>4
  <2>4. Reviewed' BY <1>9, <2>1, <2>3, <1>1 DEF Pictured, ext, Reviewed
  <2>5. Finished'
    <3>1. jobs' = jobs /\ saved' = saved BY <1>9 DEF Pictured, ext
    <3>2. Saving' <=> Saving BY <3>1 DEF Saving
    <3>3. QED BY <3>1, <3>2, <2>1, <2>3, <1>1 DEF Finished
  <2>6. QED BY <2>4, <2>5, <1>2
<1>10. CASE PageStops
  <2>1. rec'.status = "review" /\ ending' BY <1>10, <1>0 DEF PageStops, Reviews, Recordings
  <2>2. Reviewed' /\ Finished' BY <2>1 DEF Reviewed, Finished
  <2>3. QED BY <2>2, <1>2
<1>11. CASE TellsStopped
  <2>1. EventSent("stopped", 0) BY <1>11, <1>0, Told DEF TellsStopped, EventKinds
  <2>a. Finished'
    <3>1. saved' = saved /\ rec' = rec /\ (Ahead("finalized") => Ahead("finalized")') BY <1>11, <2>1, <1>4 DEF TellsStopped, ext
    <3>2. QED BY <3>1, <1>v
  <2>2. Reviewed' /\ Finished' BY <2>1, <2>a, <1>11, <1>1, <1>4 DEF TellsStopped, ext, Reviewed
  <2>3. QED BY <2>2, <1>2
<1>12. CASE StopThrows
  BY <1>12 DEF StopThrows, Clean
<1>13. CASE User
  <2>1. events' = events /\ saved' = saved /\ told' = told /\ ending' = ending /\ rec' = rec
    BY <1>13 DEF User, OpensDashboard, Closes, OpensOne, BackToReview, RestoresSteps, RemovesStep, ClicksFinalize, ClicksDiscard, ClicksStop, ext, worker
  <2>2. QED BY <2>1, <1>3, <1>7
<1>14. CASE HandlesStarted
  <2>1. EventTaken("started") /\ StartAhead /\ saved = "none"
    BY <1>14, <1>5, <1>s DEF HandlesStarted, EventTaken, StartAhead
  <2>2. rec' = rec /\ told' = told /\ ending' = ending BY <1>14 DEF HandlesStarted, worker
  <2>3. Ahead("stopped") => Ahead("stopped")' BY <1>14, <1>5 DEF HandlesStarted
  <2>4. Ahead("finalized") => Ahead("finalized")' BY <1>14, <1>5 DEF HandlesStarted
  <2>5. Reviewed' /\ Finished' BY <2>1, <2>2, <2>3, <2>4, <1>1, <1>v DEF Reviewed
  <2>6. QED BY <2>5, <1>2
<1>15. CASE HandlesStep
  <2>1. saved \notin {"review", "finalized"} BY <1>15 DEF HandlesStep, Clean
  <2>2. rec' = rec /\ told' = told /\ ending' = ending BY <1>15 DEF HandlesStep, worker
  <2>3. Ahead("stopped") => Ahead("stopped")' BY <1>15, <1>5 DEF HandlesStep
  <2>4. Ahead("finalized") => Ahead("finalized")' BY <1>15, <1>5 DEF HandlesStep
  <2>5. Reviewed' /\ Finished' BY <2>1, <2>2, <2>3, <2>4, <1>1, <1>v DEF Reviewed
  <2>6. QED BY <2>5, <1>2
<1>16. CASE HandlesStopped
  <2>1. There /\ told' # {} BY <1>16 DEF HandlesStopped, Clean
  <2>2. rec' = rec /\ saved' = saved BY <1>16 DEF HandlesStopped, worker
  <2>3. Ahead("finalized") => Ahead("finalized")' BY <1>16, <1>5 DEF HandlesStopped
  <2>4. Reviewed' /\ Finished' BY <2>1, <2>2, <2>3, <1>1, <1>v DEF Reviewed
  <2>5. QED BY <2>4, <1>2
<1>17. CASE HandlesFinalized
  <2>1. EventTaken("finalized") BY <1>17, <1>5 DEF HandlesFinalized
  <2>2. saved # "none" BY <2>1, <1>s DEF EventTaken, StartAhead
  <2>3. saved' = "finalized" /\ rec' = rec BY <1>17, <2>2 DEF HandlesFinalized, Saves, worker
  <2>4. rec.status # "review" BY <2>1 DEF EventTaken, ViewInv, AfterRecording
  <2>5. Reviewed' /\ Finished' BY <2>3, <2>4 DEF Reviewed, Finished
  <2>6. QED BY <2>5, <1>2
<1>18. CASE HandlesDiscarded
  BY <1>18, <1>5, <1>s DEF HandlesDiscarded, EventTaken
<1>19. CASE FlushTimer
  BY <1>19, <1>3, <1>7 DEF FlushTimer, worker
<1>h. CASE HearsState
  <2>1. rec' = rec /\ ending' = ending /\ events' = events /\ saved' = saved BY <1>h DEF HearsState, worker
  <2>2. rec.status # "finalized" => told' # {} BY <1>h DEF HearsState
  <2>3. Reviewed' BY <2>1, <2>2 DEF Reviewed
  <2>4. Finished' BY <2>1, <1>3, <1>v
  <2>5. QED BY <2>3, <2>4, <1>2
<1>20. CASE ShowsStopped
  <2>1. saved # "none" BY <1>20, <1>s DEF ShowsStopped
  <2>2. rec' = rec /\ ending' = ending /\ events' = events BY <1>20 DEF ShowsStopped, worker
  <2>3. saved' = "review" /\ saved # "finalized" BY <1>20, <2>1 DEF ShowsStopped, Saves, Clean
  <2>4. Reviewed' BY <2>3 DEF Reviewed
  <2>5. Finished' BY <2>2, <2>3, <1>3, <1>v
  <2>6. QED BY <2>4, <2>5, <1>2
<1>21. ASSUME NEW j \in jobs, LoadAnswered(j) \/ LoadShown(j) PROVE SavedFollows'
  <2>1. events' = events /\ saved' = saved /\ told' = told /\ ending' = ending /\ rec' = rec
    BY <1>21 DEF LoadAnswered, LoadShown, ext, worker
  <2>2. QED BY <2>1, <1>3, <1>7
<1>22. ASSUME NEW j \in jobs, Finalizes(j) PROVE SavedFollows'
  <2>1. saved' = saved /\ told' = told /\ ending' = ending /\ events' = events BY <1>22 DEF Finalizes, ext
  <2>2. CASE rec' = rec
    BY <2>1, <2>2, <1>3, <1>7
  <2>3. CASE rec' # rec
    <3>1. rec'.status = "finalized" /\ [kind |-> "saves", got |-> rec'.steps] \in jobs' BY <1>22, <2>3 DEF Finalizes
    <3>2. \A got : [kind |-> "saves", got |-> got].kind \in Savings BY DEF Savings
    <3>3. Saving' BY <3>1, <3>2 DEF Saving
    <3>4. Reviewed' /\ Finished' BY <3>1, <3>3 DEF Reviewed, Finished
    <3>5. QED BY <3>4, <1>2
  <2>4. QED BY <2>2, <2>3
<1>x. CASE AgentFinalizes
  <2>1. rec'.status = "finalized" BY <1>x, <1>0 DEF AgentFinalizes, Recordings
  <2>2. [kind |-> "agent saves", got |-> rec.steps] \in jobs' BY <1>x DEF AgentFinalizes
  <2>3. \A got : [kind |-> "agent saves", got |-> got].kind \in Savings BY DEF Savings
  <2>4. Saving' BY <2>2, <2>3 DEF Saving
  <2>5. Reviewed' /\ Finished' BY <2>1, <2>4 DEF Reviewed, Finished
  <2>6. QED BY <2>5, <1>2
<1>y. CASE AgentCloses
  <2>1. events' = events /\ saved' = saved /\ told' = told /\ ending' = ending /\ rec' = rec
    BY <1>y, <1>k, StillKept DEF AgentCloses, ext
  <2>2. QED BY <2>1, <1>3, <1>7
<1>z. ASSUME NEW j \in jobs, Saved(j) \/ Refinalizes(j) PROVE SavedFollows'
  <2>1. saved' = saved /\ told' = told /\ ending' = ending /\ rec' = rec /\ (events' = events \/ Sends("finalized", 0))
    BY <1>z DEF Saved, Refinalizes, ext
  <2>2. events' = events \/ EventSent("finalized", 0) BY <2>1, <1>0, Told DEF EventKinds
  <2>3. \A k : Ahead(k) => Ahead(k)' BY <2>2, <1>3, <1>4
  <2>4. QED BY <2>1, <2>3, <1>7
<1>w. ASSUME NEW j \in jobs PROVE ~SaveFails(j)
  BY DEF SaveFails, Suffers, Clean
<1>23. ASSUME NEW j \in jobs, Discards(j) PROVE SavedFollows'
  <2>1. events' = events /\ saved' = saved /\ told' = told /\ ending' = ending /\ rec' = rec
    BY <1>23, <1>k, StillKept DEF Discards, ext
  <2>2. QED BY <2>1, <1>3, <1>7
<1>24. ASSUME NEW j \in jobs, AsksStop(j) PROVE SavedFollows'
  <2>1. events' = events /\ saved' = saved /\ told' = told BY <1>24, <1>k, <1>0 DEF AsksStop, ViewTypeOK
  <2>2. CASE rec' = rec /\ ending' = ending BY <2>1, <2>2, <1>3, <1>7
  <2>3. CASE Reviews
    <3>1. rec'.status = "review" /\ ending' BY <2>3, <1>0 DEF Reviews, Recordings
    <3>2. Reviewed' /\ Finished' BY <3>1 DEF Reviewed, Finished
    <3>3. QED BY <3>2, <1>2
  <2>4. QED BY <1>24, <2>2, <2>3 DEF AsksStop
<1>25. ~Dies /\ ~Returns /\ ~AgentDiscards BY <1>k, StillKept
<1>26. QED
  BY <1>8, <1>9, <1>10, <1>11, <1>12, <1>13, <1>14, <1>15, <1>16, <1>17, <1>18, <1>19, <1>20,
     <1>21, <1>22, <1>23, <1>24, <1>25, <1>h, <1>x, <1>y, <1>z, <1>w
  DEF ViewNext, Worker, WorkerEnds, Handles, Works

LEMMA RemovedIsCutKeeps == ViewInv /\ ViewNext => RemovedIsCut'
<1> SUFFICES ASSUME ViewInv, ViewNext PROVE RemovedIsCut' OBVIOUS
<1>0. ViewTypeOK /\ view \in Views /\ RemovedIsCut BY DEF ViewInv, ViewTypeOK
<1>1. ASSUME NEW n \in Seqs, RemovesStep(n) PROVE RemovedIsCut'
  BY <1>1 DEF RemovesStep, RemovedIsCut
<1>2. CASE \A n \in Seqs : ~RemovesStep(n)
  <2>1. cut \subseteq cut'
    BY <1>2 DEF ViewNext, Worker, User, WorkerEnds, Handles, Works, Starts, Records, PageStops, Pictured, Dies, Returns, AgentFinalizes, AgentDiscards, AgentCloses, Forgets,
        OpensDashboard, Closes, OpensOne, BackToReview, RestoresSteps, ClicksFinalize, ClicksDiscard, ClicksStop,
        TellsStopped, StopThrows, HandlesStarted, HandlesStep, HandlesStopped, HandlesFinalized,
        HandlesDiscarded, FlushTimer, ShowsStopped, HearsState, LoadAnswered, LoadShown, Finalizes, Saved, SaveFails, Refinalizes, Discards, Forgets, AsksStop
  <2>2. view'.removed \in {{}, view.removed}
    <3>1. \A mode \in Kept \cup {"closed", "dashboard"} : Shows(mode).removed = {} /\ Shows(mode) \in Views
      BY ShowsFits
    <3>2. CASE Worker \/ WorkerEnds
      BY <3>2, <1>0 DEF Worker, WorkerEnds, Starts, Records, PageStops, Pictured, Dies, Returns, AgentFinalizes, AgentDiscards, AgentCloses, Forgets,
         TellsStopped, StopThrows, LoadFailed, Views
    <3>3. CASE User
      <4>1. CASE OpensDashboard \/ Closes BY <4>1, <3>1 DEF OpensDashboard, Closes
      <4>2. ASSUME NEW status \in Kept, OpensOne(status) PROVE view'.removed = {}
        BY <4>2, <3>1 DEF OpensOne, Views
      <4>3. CASE BackToReview \/ RestoresSteps \/ ClicksFinalize \/ ClicksDiscard \/ ClicksStop
        BY <4>3, <1>0 DEF BackToReview, RestoresSteps, ClicksFinalize, ClicksDiscard, ClicksStop, Views
      <4>4. QED BY <3>3, <4>1, <4>2, <4>3, <1>2 DEF User
    <3>4. CASE Handles
      <4>1. CASE HandlesStarted \/ HandlesDiscarded BY <4>1, <3>1 DEF HandlesStarted, HandlesDiscarded, Kept
      <4>2. CASE HandlesStep \/ HearsState \/ ShowsStopped \/ HandlesFinalized
        BY <4>2, <1>0 DEF HandlesStep, HearsState, ShowsStopped, HandlesFinalized, Stopped, Finalized, Views
      <4>3. CASE FlushTimer \/ HandlesStopped
        BY <4>3, <1>0, FlushIs DEF FlushTimer, HandlesStopped, Views
      <4>4. QED BY <3>4, <4>1, <4>2, <4>3 DEF Handles
    <3>5. CASE Works
      <4>1. ASSUME NEW j \in jobs, LoadShown(j) PROVE view'.removed \in {{}, view.removed}
        <5>1. view' = view \/ \E mode \in Kept : view' = [Shows(mode) EXCEPT !.steps = j.got.steps]
          BY <4>1 DEF LoadShown, Kept
        <5>2. QED BY <5>1, <3>1 DEF Views
      <4>2. ASSUME NEW j \in jobs, LoadAnswered(j) \/ Finalizes(j) \/ Discards(j) \/ AsksStop(j)
                                    \/ Saved(j) \/ SaveFails(j) \/ Refinalizes(j)
            PROVE  view'.removed \in {{}, view.removed}
        BY <4>2, <1>0 DEF LoadAnswered, Finalizes, Saved, SaveFails, Refinalizes, Discards, AsksStop, LoadFailed, Views
      <4>3. QED BY <3>5, <4>1, <4>2 DEF Works
    <3>6. QED BY <3>2, <3>3, <3>4, <3>5 DEF ViewNext
  <2>3. QED BY <2>1, <2>2, <1>0 DEF RemovedIsCut
<1>3. QED BY <1>1, <1>2

-----------------------------------------------------------------------------
(* How the editor, the messages, the events and the numbers move.          *)

(* The editor keeps what it shows, shows something else that is not a      *)
(* list, gets a list, or turns to another way of looking at its list.      *)
ViewStays == view'.mode = view.mode /\ view'.steps = view.steps /\ (view'.loading = view.loading \/ "missed" \in flaws')
ViewTurns == view'.steps = view.steps /\ view'.loading = view.loading /\ InEditor
LEMMA ViewMoves ==
  ASSUME ViewInv, ViewNext
  PROVE  \/ ViewStays
         \/ view'.mode \notin Kept
         \/ view'.loading /\ view'.steps = <<>>
         \/ HandlesStarted /\ view'.mode = "recording" /\ view'.steps = <<>> /\ ~view'.loading
         \/ /\ Flush /\ InEditor /\ view'.mode = view.mode /\ view'.loading = view.loading
            /\ view'.steps = Put(view.steps)
         \/ ShowsStopped /\ view'.mode = "review" /\ ViewTurns
         \/ HandlesFinalized /\ view'.mode = "finalized" /\ ViewTurns
         \/ BackToReview /\ view'.mode = "review" /\ ViewTurns /\ view.mode = "finalized"
         \/ /\ ClicksFinalize /\ view'.mode = view.mode /\ view'.loading = view.loading
            /\ \E left : Clicked(left) /\ view'.steps = Edited(left)
         \/ \E j \in jobs : /\ LoadShown(j) /\ view'.steps = j.got.steps /\ ~view'.loading
                            /\ view'.mode = "recording" <=> j.got.status = "recording"
<1>0. ViewTypeOK /\ view \in Views BY DEF ViewInv, ViewTypeOK
<1>a. view' = view => ViewStays BY DEF ViewStays
<1>b. \A b \in BOOLEAN : view' \in {[view EXCEPT !.stopping = b], [view EXCEPT !.finalizing = b]} => ViewStays
  BY <1>0 DEF ViewStays, Views
<1>c. view' = LoadFailed(view) /\ "missed" \in flaws' => ViewStays BY <1>0 DEF ViewStays, Views, LoadFailed
<1>1. CASE StopThrows
  <2>1. CASE Waiting \in jobs /\ view.loading
    BY <1>1, <2>1, <1>c DEF StopThrows
  <2>2. CASE Waiting \in jobs /\ ~view.loading
    BY <1>1, <2>2, <1>0 DEF StopThrows, LoadFailed, ViewStays, Views
  <2>3. CASE Waiting \notin jobs
    BY <1>1, <2>3, <1>a DEF StopThrows
  <2>4. QED BY <2>1, <2>2, <2>3
<1>2. CASE Worker \/ TellsStopped
  BY <1>2, <1>a DEF Worker, TellsStopped, Starts, Records, PageStops, Dies, Returns, AgentFinalizes, AgentDiscards, AgentCloses, Forgets, Pictured
<1>3. CASE OpensDashboard \/ Closes
  <2>1. view'.mode \in {"dashboard", "closed"} BY <1>3, ShowsFits DEF OpensDashboard, Closes
  <2>2. QED BY <2>1 DEF Kept
<1>4. ASSUME NEW status \in Kept, OpensOne(status) PROVE view'.loading /\ view'.steps = <<>>
  <2>1. Shows(status) \in Views /\ Shows(status).steps = <<>> BY ShowsFits
  <2>2. QED BY <1>4, <2>1 DEF OpensOne, Views
<1>5. CASE BackToReview
  BY <1>5, <1>0 DEF BackToReview, Views, ViewTurns, InEditor, Kept
<1>6. ASSUME NEW n \in Seqs, RemovesStep(n) \/ RestoresSteps PROVE ViewStays
  BY <1>6, <1>0 DEF RemovesStep, RestoresSteps, Views, ViewStays
<1>r. CASE RestoresSteps
  <2>1. 1 \in Seqs BY Bounds DEF Seqs
  <2>2. QED BY <1>r, <2>1, <1>6
<1>7. CASE ClicksFinalize
  <2>1. PICK left : Clicked(left) BY <1>7, ClicksFinalizeIs
  <2>2. view'.steps = Edited(left) /\ view'.mode = view.mode /\ view'.loading = view.loading
    BY <2>1, <1>0 DEF Clicked, Views
  <2>3. QED BY <1>7, <2>1, <2>2
<1>8. CASE ClicksDiscard \/ ClicksStop
  BY <1>8, <1>a, <1>b DEF ClicksDiscard, ClicksStop
<1>9. CASE HandlesStarted
  BY <1>9, ShowsFits DEF HandlesStarted, Kept
<1>10. CASE HandlesStep
  BY <1>10, <1>a DEF HandlesStep
<1>11. ASSUME Flush
       PROVE  \/ ViewStays
              \/ /\ Flush /\ InEditor /\ view'.mode = view.mode /\ view'.loading = view.loading
                 /\ view'.steps = Put(view.steps)
  <2>1. CASE InEditor
    <3>1. view' = [view EXCEPT !.steps = Put(view.steps)] BY <2>1, <1>11, <1>0, FlushIs
    <3>2. QED BY <3>1, <2>1, <1>11, <1>0 DEF Views
  <2>2. CASE ~InEditor
    BY <2>2, <1>11, <1>0, <1>a, FlushIs
  <2>3. QED BY <2>1, <2>2
<1>12. CASE HandlesStopped
  <2>1. CASE There BY <2>1, <1>12, <1>11 DEF HandlesStopped
  <2>2. CASE ~There BY <2>2, <1>12, <1>a DEF HandlesStopped
  <2>3. QED BY <2>1, <2>2
<1>13. CASE FlushTimer
  BY <1>13, <1>11 DEF FlushTimer
<1>h. CASE HearsState
  BY <1>h, <1>a DEF HearsState
<1>14. CASE ShowsStopped
  BY <1>14, <1>a, <1>0 DEF ShowsStopped, Stopped, ViewTurns, Views
<1>15. CASE HandlesFinalized
  BY <1>15, <1>a, <1>0 DEF HandlesFinalized, Finalized, ViewTurns, Views
<1>16. CASE HandlesDiscarded
  <2>1. view' = view \/ view'.mode = "dashboard" BY <1>16, ShowsFits DEF HandlesDiscarded
  <2>2. QED BY <2>1, <1>a DEF Kept
<1>17. ASSUME NEW j \in jobs, LoadAnswered(j) PROVE ViewStays
  <2>1. view' = view \/ (view' = LoadFailed(view) /\ "missed" \in flaws')
    BY <1>17 DEF LoadAnswered, Suffers
  <2>2. QED BY <2>1, <1>a, <1>c
<1>18. ASSUME NEW j \in jobs, LoadShown(j)
       PROVE  ViewStays \/ (/\ LoadShown(j) /\ view'.steps = j.got.steps /\ ~view'.loading
                            /\ view'.mode = "recording" <=> j.got.status = "recording")
  <2> DEFINE mode == IF j.got.status = "recording" THEN "recording"
                     ELSE IF j.kind = "read" THEN "finalized" ELSE "review"
  <2>1. Shows(mode) \in Views /\ Shows(mode).mode = mode /\ ~Shows(mode).loading BY ShowsFits DEF Kept
  <2>2. view' = view \/ view' = [Shows(mode) EXCEPT !.steps = j.got.steps] BY <1>18 DEF LoadShown
  <2>3. QED BY <2>1, <2>2, <1>18, <1>a DEF Views
<1>19. ASSUME NEW j \in jobs, \/ Finalizes(j) \/ Discards(j) \/ AsksStop(j)
                              \/ Saved(j) \/ SaveFails(j) \/ Refinalizes(j)
       PROVE  ViewStays
  BY <1>19, <1>a, <1>b DEF Finalizes, Saved, SaveFails, Refinalizes, Discards, AsksStop
<1>20. QED
  BY <1>1, <1>2, <1>3, <1>4, <1>5, <1>6, <1>7, <1>8, <1>9, <1>10, <1>12, <1>13, <1>14, <1>15,
     <1>16, <1>17, <1>18, <1>19, <1>r, <1>h
  DEF ViewNext, User, WorkerEnds, Handles, Works

(* A message is new, or a load's answer, or has a list: the one to         *)
(* finalize, the one that a finalization begins to write, or one that was  *)
(* in a message before.                                                    *)
ListKinds == Savings \cup {"finalize", "again"}
LEMMA JobMoves ==
  ASSUME ViewInv, ViewNext, rec.status \in Kept, rec'.status \in Kept, NEW j \in jobs'
  PROVE  \/ j \in jobs
         \/ ~Answered(j) /\ j.kind \notin ListKinds
         \/ /\ j.kind = "load" /\ j.got = rec /\ rec' = rec /\ made' = made /\ told' = told
         \/ /\ j.kind = "read" /\ j.got = FromFile /\ file # Nothing
         \/ ClicksFinalize /\ ~Answered(j) /\ \E left : Clicked(left) /\ j.got = Edited(left)
         \/ ~Answered(j) /\ \E i \in jobs : i.kind \in ListKinds /\ j.got = i.got
         \/ ~Answered(j) /\ j.got = rec'.steps /\ ~Records /\ \A n \in Seqs : ~Pictured(n)
<1>0. ViewTypeOK /\ jobs \subseteq Jobs BY DEF ViewInv, ViewTypeOK
<1>1. \A kind \in {"load", "read", "discard", "stop"} : ~Answered(Asks(kind)) /\ Asks(kind).kind \notin ListKinds
  BY DEF Asks, Answered, ListKinds, Savings
<1>2. ~Answered(Waiting) /\ Waiting.kind \notin ListKinds BY DEF Waiting, Answered, ListKinds, Savings
<1>l. \A got : \A kind \in ListKinds : ~Answered([kind |-> kind, got |-> got]) BY DEF Answered, ListKinds, Savings
<1>3. ASSUME NEW i \in jobs, LoadAnswered(i)
      PROVE  \/ j \in jobs
             \/ j.kind = "load" /\ j.got = rec /\ rec' = rec /\ made' = made /\ told' = told
             \/ j.kind = "read" /\ j.got = FromFile /\ file # Nothing
  <2>1. i \in Jobs /\ i.kind \in {"load", "read"} /\ rec' = rec /\ made' = made /\ told' = told
    BY <1>3, <1>0 DEF LoadAnswered, worker, ext
  <2>2. CASE i.kind = "load"
    <3>1. jobs' = jobs \ {i} \/ jobs' = (jobs \ {i}) \cup {[i EXCEPT !.got = rec]} BY <1>3, <2>2 DEF LoadAnswered
    <3>2. [i EXCEPT !.got = rec].kind = "load" /\ [i EXCEPT !.got = rec].got = rec BY <2>1, <2>2 DEF Jobs
    <3>3. QED BY <2>1, <3>1, <3>2
  <2>3. CASE i.kind = "read"
    <3>1. \/ jobs' = jobs \ {i}
          \/ jobs' = (jobs \ {i}) \cup {[i EXCEPT !.got = FromFile]} /\ file # Nothing
      BY <1>3, <2>3 DEF LoadAnswered
    <3>2. [i EXCEPT !.got = FromFile].kind = "read" /\ [i EXCEPT !.got = FromFile].got = FromFile BY <2>1, <2>3 DEF Jobs
    <3>3. QED BY <3>1, <3>2
  <2>4. QED BY <2>1, <2>2, <2>3
<1>4. ASSUME NEW i \in jobs, AsksStop(i) PROVE j \in jobs \/ j = Waiting
  BY <1>4 DEF AsksStop
<1>5. CASE (\E status \in Kept : OpensOne(status)) \/ ClicksDiscard \/ ClicksStop
  BY <1>5, <1>1 DEF OpensOne, ClicksDiscard, ClicksStop, Posts
<1>6. CASE ClicksFinalize
  <2>1. PICK left : Clicked(left) BY <1>6, ClicksFinalizeIs
  <2>2. j \in jobs \/ j = [kind |-> "finalize", got |-> Edited(left)] BY <2>1 DEF Clicked
  <2>3. "finalize" \in ListKinds BY DEF ListKinds
  <2>4. QED BY <2>1, <2>2, <2>3, <1>6, <1>l
<1>7. ASSUME NEW i \in jobs, LoadShown(i) \/ Discards(i) \/ Saved(i) \/ Refinalizes(i) PROVE j \in jobs
  BY <1>7 DEF LoadShown, Discards, Saved, Refinalizes
<1>a. ASSUME NEW i \in jobs, i.kind \in Savings \cup {"finalize"}, j = [i EXCEPT !.kind = "again"]
      PROVE  ~Answered(j) /\ i.kind \in ListKinds /\ j.got = i.got
  <2>1. j = [kind |-> "again", got |-> i.got] BY <1>a, <1>0, KindFits
  <2>2. "again" \in ListKinds BY DEF ListKinds
  <2>3. QED BY <2>1, <2>2, <1>l, <1>a DEF ListKinds
<1>f. ASSUME NEW i \in jobs, SaveFails(i) PROVE j \in jobs \/ (~Answered(j) /\ i.kind \in ListKinds /\ j.got = i.got)
  <2>1. j \in jobs \/ (i.kind \in Savings /\ j = [i EXCEPT !.kind = "again"]) BY <1>f DEF SaveFails
  <2>2. QED BY <2>1, <1>a
<1>s. ASSUME j \notin jobs, NEW kind \in Savings, j = [kind |-> kind, got |-> rec'.steps], rec'.status = "finalized",
             ~\E n \in Seqs : Pictured(n)
      PROVE  ~Answered(j) /\ j.got = rec'.steps /\ ~Records /\ \A n \in Seqs : ~Pictured(n)
  BY <1>s, <1>l, RecordsIs DEF ListKinds
<1>g. ASSUME NEW i \in jobs, Finalizes(i)
      PROVE  \/ j \in jobs
             \/ ~Answered(j) /\ i.kind \in ListKinds /\ j.got = i.got
             \/ ~Answered(j) /\ j.got = rec'.steps /\ ~Records /\ \A n \in Seqs : ~Pictured(n)
  <2>1. CASE jobs' = (jobs \ {i}) \cup {[kind |-> "saves", got |-> rec'.steps]} /\ rec'.status = "finalized"
    <3>1. ~\E n \in Seqs : Pictured(n)
      <4>1. \A n \in Seqs : Pictured(n) => jobs' = jobs BY DEF Pictured
      <4>2. i \notin jobs'
        <5>1. i.kind = "finalize" BY <1>g DEF Finalizes
        <5>2. i # [kind |-> "saves", got |-> rec'.steps] BY <5>1
        <5>3. QED BY <2>1, <5>2
      <4>3. QED BY <4>1, <4>2
    <3>2. j \in jobs \/ j = [kind |-> "saves", got |-> rec'.steps] BY <2>1
    <3>3. "saves" \in Savings BY DEF Savings
    <3>4. QED BY <3>1, <3>2, <3>3, <1>s, <2>1
  <2>2. CASE jobs' = (jobs \ {i}) \cup {[i EXCEPT !.kind = "again"]}
    BY <2>2, <1>a, <1>g DEF Finalizes
  <2>3. QED BY <1>g, <2>1, <2>2 DEF Finalizes
<1>h. ASSUME AgentFinalizes
      PROVE  \/ j \in jobs
             \/ ~Answered(j) /\ j.got = rec'.steps /\ ~Records /\ \A n \in Seqs : ~Pictured(n)
  <2>1. rec'.steps = rec.steps /\ rec'.status = "finalized" /\ shots' = shots
    BY <1>h, <1>0 DEF AgentFinalizes, ViewTypeOK, Recordings
  <2>2. ~\E n \in Seqs : Pictured(n) BY <2>1 DEF Pictured
  <2>3. j \in jobs \/ j = [kind |-> "agent saves", got |-> rec'.steps] BY <1>h, <2>1 DEF AgentFinalizes
  <2>4. "agent saves" \in Savings BY DEF Savings
  <2>5. QED BY <2>1, <2>2, <2>3, <2>4, <1>s
<1>8. CASE (Worker /\ ~AgentFinalizes) \/ WorkerEnds \/ Handles \/ OpensDashboard \/ Closes \/ BackToReview \/ RestoresSteps
           \/ \E n \in Seqs : RemovesStep(n)
  <2>1. ~Dies BY GoneFits DEF Dies, Kept
  <2>2. QED
    BY <1>8, <2>1 DEF Worker, WorkerEnds, Handles, Starts, Records, PageStops, Returns, AgentDiscards, AgentCloses, Pictured,
       TellsStopped, StopThrows, HandlesStarted, HandlesStep, HandlesStopped, HandlesFinalized, HandlesDiscarded, FlushTimer,
       ShowsStopped, HearsState, OpensDashboard, Closes, BackToReview, RestoresSteps, RemovesStep
<1>9. QED BY <1>2, <1>3, <1>4, <1>5, <1>6, <1>7, <1>8, <1>f, <1>g, <1>h DEF ViewNext, User, Works, Worker

(* Events come, go, or stay.                                               *)
LEMMA EventMoves ==
  ASSUME ViewInv, ViewNext
  PROVE  \/ events' = events
         \/ EventSent("step", made') /\ Records
         \/ \E kind, seq : EventSent(kind, seq)
         \/ HandlesStep /\ EventTaken("step")
         \/ HandlesStopped /\ EventTaken("stopped")
         \/ \E kind \in {"started", "finalized", "discarded"} : EventTaken(kind) /\ buf' = buf
<1>0. ViewTypeOK BY DEF ViewInv
<1>1. CASE Starts BY <1>1, <1>0, Told DEF Starts, EventKinds
<1>2. CASE Records BY <1>2, <1>0, RecordsIs, Published DEF Records
<1>3. ASSUME NEW n \in Seqs, Pictured(n) PROVE EventSent("step", n) BY <1>3, <1>0, PicturedIs, Published DEF Pictured
<1>4. CASE TellsStopped BY <1>4, <1>0, Told DEF TellsStopped, EventKinds
<1>5. CASE PageStops \/ Dies \/ Returns \/ AgentFinalizes \/ StopThrows \/ User \/ FlushTimer \/ HearsState \/ ShowsStopped
  BY <1>5 DEF PageStops, Dies, Returns, AgentFinalizes, AgentDiscards, AgentCloses, Forgets, StopThrows, FlushTimer, ShowsStopped, HearsState, User, OpensDashboard, Closes, OpensOne,
     BackToReview, RestoresSteps, RemovesStep, ClicksFinalize, ClicksDiscard, ClicksStop
<1>6. CASE HandlesStep BY <1>6, <1>0, Taken DEF HandlesStep
<1>7. CASE HandlesStopped BY <1>7, <1>0, Taken DEF HandlesStopped
<1>8. CASE HandlesStarted BY <1>8, <1>0, Taken DEF HandlesStarted
<1>9. CASE HandlesFinalized BY <1>9, <1>0, Taken DEF HandlesFinalized
<1>10. CASE HandlesDiscarded BY <1>10, <1>0, Taken DEF HandlesDiscarded
<1>11. ASSUME NEW j \in jobs, LoadAnswered(j) \/ LoadShown(j) \/ AsksStop(j) \/ Finalizes(j) \/ SaveFails(j)
       PROVE  events' = events
  BY <1>11 DEF LoadAnswered, LoadShown, AsksStop, Finalizes, SaveFails
<1>12. ASSUME NEW j \in jobs, Saved(j) \/ Refinalizes(j) PROVE events' = events \/ EventSent("finalized", 0)
  BY <1>12, <1>0, Told DEF Saved, Refinalizes, EventKinds
<1>13. ASSUME NEW j \in jobs, Discards(j) PROVE events' = events \/ EventSent("discarded", 0)
  BY <1>13, <1>0, Told DEF Discards, Forgets, EventKinds
<1>a. CASE AgentDiscards \/ AgentCloses
  <2>1. events' = events \/ EventSent("discarded", 0)
    BY <1>a, <1>0, Told DEF AgentDiscards, AgentCloses, Forgets, EventKinds
  <2>2. QED BY <2>1
<1>14. QED
  BY <1>1, <1>2, <1>3, <1>4, <1>5, <1>6, <1>7, <1>8, <1>9, <1>10, <1>11, <1>12, <1>13, <1>a
  DEF ViewNext, Worker, WorkerEnds, Handles, Works

LEMMA OthersStay ==
  ASSUME ViewInv, ViewNext, rec'.status \in Kept
  PROVE  /\ made' = made \/ Records
         /\ flaws \subseteq flaws'
         /\ cut \subseteq cut'
         /\ told' # {} => told # {} \/ (HandlesStopped /\ There)
         /\ buf' = buf \/ (buf' = <<>> /\ Flush) \/ HandlesStep
              \/ (HandlesStopped /\ ~There /\ buf' = <<>> /\ flaws' = flaws \cup {"astray"} \cup Overtaken(buf # <<>>))
<1>0. ViewTypeOK BY DEF ViewInv
<1>u. up /\ ~Dies /\ ~Returns BY StillKept
<1>1. made' = made \/ Records
  BY DEF ViewNext, Worker, User, WorkerEnds, Handles, Works, Starts, PageStops, Pictured, Dies, Returns, AgentFinalizes, AgentDiscards, AgentCloses, Forgets,
        OpensDashboard, Closes, OpensOne, BackToReview, RestoresSteps, RemovesStep, ClicksFinalize, ClicksDiscard, ClicksStop,
        TellsStopped, StopThrows, HandlesStarted, HandlesStep, HandlesStopped, HandlesFinalized,
        HandlesDiscarded, FlushTimer, ShowsStopped, HearsState, LoadAnswered, LoadShown, Finalizes, Saved, SaveFails, Refinalizes, Discards, Forgets, AsksStop, worker
<1>2. flaws \subseteq flaws' BY FlawsStay
<1>3. cut \subseteq cut'
  BY DEF ViewNext, Worker, User, WorkerEnds, Handles, Works, Starts, Records, PageStops, Pictured, Dies, Returns, AgentFinalizes, AgentDiscards, AgentCloses, Forgets,
        OpensDashboard, Closes, OpensOne, BackToReview, RestoresSteps, RemovesStep, ClicksFinalize, ClicksDiscard, ClicksStop,
        TellsStopped, StopThrows, HandlesStarted, HandlesStep, HandlesStopped, HandlesFinalized,
        HandlesDiscarded, FlushTimer, ShowsStopped, HearsState, LoadAnswered, LoadShown, Finalizes, Saved, SaveFails, Refinalizes, Discards, Forgets, AsksStop
<1>4. told' # {} => told # {} \/ (HandlesStopped /\ There)
  BY <1>u, <1>0 DEF ViewTypeOK, ViewNext, Worker, User, WorkerEnds, Handles, Works, Starts, Records, PageStops, Pictured, AgentFinalizes, AgentDiscards, AgentCloses, Forgets,
        OpensDashboard, Closes, OpensOne, BackToReview, RestoresSteps, RemovesStep, ClicksFinalize, ClicksDiscard, ClicksStop,
        TellsStopped, StopThrows, HandlesStarted, HandlesStep, HandlesStopped, HandlesFinalized,
        HandlesDiscarded, FlushTimer, ShowsStopped, HearsState, LoadAnswered, LoadShown, Finalizes, Saved, SaveFails, Refinalizes, Discards, Forgets, AsksStop, ext
<1>5. buf' = buf \/ (buf' = <<>> /\ Flush) \/ HandlesStep
      \/ (HandlesStopped /\ ~There /\ buf' = <<>> /\ flaws' = flaws \cup {"astray"} \cup Overtaken(buf # <<>>))
  BY <1>u DEF ViewNext, Worker, User, WorkerEnds, Handles, Works, Starts, Records, PageStops, Pictured, AgentFinalizes, AgentDiscards, AgentCloses, Forgets,
        OpensDashboard, Closes, OpensOne, BackToReview, RestoresSteps, RemovesStep, ClicksFinalize, ClicksDiscard, ClicksStop,
        TellsStopped, StopThrows, HandlesStarted, HandlesStopped, HandlesFinalized,
        HandlesDiscarded, FlushTimer, ShowsStopped, HearsState, LoadAnswered, LoadShown, Finalizes, Saved, SaveFails, Refinalizes, Discards, Forgets, AsksStop, ext, Flush
<1>6. QED BY <1>1, <1>2, <1>3, <1>4, <1>5

-----------------------------------------------------------------------------
(* The lists.                                                              *)
LEMMA BufferIs ==
  ASSUME ViewInv
  PROVE  /\ buf \in Seq(Updates) /\ made \in Nat /\ view.steps \in Tables
         /\ \A n : \A i \in Of(n) : /\ i \in DOMAIN buf /\ buf[i].seq = n /\ n \in 1 .. made
                                    /\ Clean({"mixed"}) => Own(buf[i].step, n)
<1>1. buf \in Seq(Updates) /\ view \in Views /\ made \in 0 .. MaxMade BY DEF ViewInv, ViewTypeOK
<1>2. \A i \in DOMAIN buf : buf[i].seq \in 1..made /\ (Clean({"mixed"}) => Own(buf[i].step, buf[i].seq))
  BY DEF ViewInv, Numbered
<1>3. QED BY <1>1, <1>2, Bounds DEF Of, Views

LEMMA PutOwn ==
  ASSUME ViewInv, Clean({"mixed"}), NEW steps \in Tables, OwnAll(steps)
  PROVE  OwnAll(Put(steps))
<1> SUFFICES ASSUME NEW n \in DOMAIN Put(steps) PROVE n \in 1..made /\ Own(Put(steps)[n], n) BY DEF OwnAll
<1>1. CASE n \in DOMAIN steps /\ Put(steps)[n] = steps[n]
  BY <1>1 DEF OwnAll
<1>2. CASE \E i \in Of(n) :
             /\ Put(steps)[n].id = buf[i].step.id
             /\ \/ Put(steps)[n].pic = 0
                \/ n \in DOMAIN steps /\ Put(steps)[n].pic = steps[n].pic
                \/ \E k \in Of(n) : Put(steps)[n].pic = buf[k].step.pic
  BY <1>2, BufferIs DEF OwnAll, Own
<1>3. QED BY <1>1, <1>2, BufferIs, PutAt

LEMMA PutHas ==
  ASSUME ViewInv, Clean({"mixed"}), NEW steps \in Tables, NEW n, Has(steps, n) \/ \E i \in DOMAIN buf : buf[i].seq = n
  PROVE  Has(Put(steps), n)
<1>1. n \in DOMAIN Put(steps)
  <2>1. DOMAIN Put(steps) = DOMAIN steps \cup {buf[i].seq : i \in DOMAIN buf} BY BufferIs, PutAt
  <2>2. n \in DOMAIN steps \/ n \in {buf[i].seq : i \in DOMAIN buf} BY DEF Has
  <2>3. QED BY <2>1, <2>2
<1>2. CASE n \in DOMAIN steps /\ Put(steps)[n] = steps[n] /\ Of(n) = {}
  BY <1>1, <1>2 DEF Has, Of
<1>3. ASSUME NEW i \in Of(n), Put(steps)[n].id = buf[i].step.id PROVE Has(Put(steps), n)
  BY <1>1, <1>3, BufferIs DEF Has, Own
<1>4. QED BY <1>1, <1>2, <1>3, BufferIs, PutAt

LEMMA PutWhole ==
  ASSUME ViewInv, Clean({"mixed"}), NEW steps \in Tables, Whole(steps),
         \A i \in DOMAIN buf : buf[i].seq \in DOMAIN steps => steps[buf[i].seq].id = buf[i].step.id
  PROVE  Whole(Put(steps))
<1>1. ASSUME NEW k \in 1..made \ cut PROVE \E n \in DOMAIN Put(steps) : Put(steps)[n].id = k
  <2>1. PICK n \in DOMAIN steps : steps[n].id = k BY <1>1 DEF Whole
  <2>2. n \in DOMAIN Put(steps) BY BufferIs, PutAt
  <2>3. Put(steps)[n].id = steps[n].id
    <3>1. CASE Put(steps)[n] = steps[n] BY <3>1
    <3>2. ASSUME NEW i \in Of(n), Put(steps)[n].id = buf[i].step.id PROVE Put(steps)[n].id = steps[n].id
      BY <3>2, BufferIs, <2>1
    <3>3. QED BY <2>2, <3>1, <3>2, BufferIs, PutAt
  <2>4. QED BY <2>1, <2>2, <2>3
<1>2. cut = {} => OwnAll(Put(steps)) BY PutOwn DEF Whole
<1>3. QED BY <1>1, <1>2 DEF Whole

LEMMA RecIsOwn ==
  ASSUME ViewInv, rec.status \in {"recording", "review"}
  PROVE  OwnAll(rec.steps) /\ Complete(rec.steps) /\ Whole(rec.steps)
<1>1. Len(rec.steps) = made /\ \A n \in 1..made : Own(rec.steps[n], n) BY DEF ViewInv, Numbered
<1>2. rec.steps \in Lists BY DEF ViewInv, ViewTypeOK, Recordings
<1>3. DOMAIN rec.steps = 1 .. made BY <1>1, <1>2, ListIs
<1>4. made \in Nat BY BufferIs
<1>5. OwnAll(rec.steps) /\ Complete(rec.steps) BY <1>1, <1>3, <1>4 DEF OwnAll, Complete, Has, Own
<1>6. \A k \in 1..made \ cut : k \in DOMAIN rec.steps /\ rec.steps[k].id = k BY <1>1, <1>3 DEF Own
<1>7. QED BY <1>5, <1>6 DEF Whole

LEMMA OwnStays ==
  ASSUME ViewInv, ViewNext, rec'.status \in Kept, NEW steps, OwnAll(steps)
  PROVE  \A n \in DOMAIN steps : n \in 1..made' /\ Own(steps[n], n)
<1>1. made' = made \/ (made' = made + 1 /\ made \in Nat) BY OthersStay, RecordsIs
<1>2. CASE made' = made BY <1>2 DEF OwnAll
<1>3. CASE made' = made + 1 /\ made \in Nat
  <2>2. ASSUME NEW n \in DOMAIN steps PROVE n \in 1..made' /\ Own(steps[n], n)
    <3>1. n \in 1..made /\ Own(steps[n], n) BY DEF OwnAll
    <3>2. n \in 1..made' BY <3>1, <1>3
    <3>3. QED BY <3>1, <3>2
  <2>3. QED BY <2>2
<1>4. QED BY <1>1, <1>2, <1>3

LEMMA OwnNumbersKeeps == ViewInv /\ ViewNext => OwnNumbers'
<1> SUFFICES ASSUME ViewInv, ViewNext, rec'.status \in Kept, Clean({"mixed"})' PROVE OwnNumbers' BY DEF OwnNumbers
<1>m. Clean({"mixed"}) BY FlawsStay DEF Clean
<1>0. view.steps \in Tables /\ made \in Nat BY BufferIs
<1>n. rec.status \in Kept \/ (rec.status = "new" /\ Starts) BY StillKept
<1> DEFINE Good(steps) == \A n \in DOMAIN steps : n \in 1..made' /\ Own(steps[n], n)
<1>a. \A steps : OwnAll(steps) => Good(steps) BY OwnStays
<1>b. Good(<<>>) BY Empty
<1>c. ASSUME view'.mode = "recording" => Good(view'.steps),
             \A j \in jobs' : ReadRunning(j) => Good(j.got.steps)
      PROVE  OwnNumbers'
  BY <1>c DEF OwnNumbers, OwnAll, Own, ReadRunning, Answered
<1> HIDE DEF Good
<1>1. CASE rec.status = "new" /\ Starts
  <2>1. jobs' = {} /\ view' = view /\ ~InEditor BY <1>1 DEF ViewInv, Unstarted, Starts
  <2>2. QED BY <2>1, <1>c DEF InEditor, Kept
<1>2. CASE rec.status \in Kept
  <2>0. /\ view.mode = "recording" => OwnAll(view.steps)
        /\ \A j \in jobs : ReadRunning(j) => OwnAll(j.got.steps)
    BY <1>2, <1>m DEF ViewInv, OwnNumbers
  <2>1. ASSUME view'.mode = "recording" PROVE Good(view'.steps)
    <3>1. CASE ViewStays BY <3>1, <2>1, <2>0, <1>a DEF ViewStays
    <3>2. CASE view'.steps = <<>> BY <3>2, <1>b
    <3>3. CASE view'.mode = view.mode /\ view'.steps = Put(view.steps)
      <4>1. OwnAll(view.steps) BY <3>3, <2>0, <2>1
      <4>2. OwnAll(Put(view.steps)) BY <4>1, <1>0, <1>m, PutOwn
      <4>3. QED BY <4>2, <3>3, <1>a
    <3>4. CASE ClicksFinalize /\ view'.mode = view.mode BY <3>4, <2>1 DEF ClicksFinalize, Editing
    <3>5. ASSUME NEW j \in jobs, LoadShown(j), view'.steps = j.got.steps, view'.mode = "recording" <=> j.got.status = "recording"
          PROVE  Good(view'.steps)
      BY <3>5, <2>1, <2>0, <1>a DEF ReadRunning, LoadShown
    <3>6. "recording" \in Kept /\ "recording" # "review" /\ "recording" # "finalized" BY DEF Kept
    <3>7. QED BY <2>1, <3>1, <3>2, <3>3, <3>4, <3>5, <3>6, ViewMoves
  <2>2. ASSUME NEW j \in jobs', ReadRunning(j) PROVE Good(j.got.steps)
    <3>1. Answered(j) BY <2>2 DEF ReadRunning
    <3>2. CASE j \in jobs BY <3>2, <2>2, <2>0, <1>a
    <3>3. CASE j.got = rec
      <4>1. rec.status = "recording" BY <3>3, <2>2 DEF ReadRunning
      <4>2. QED BY <4>1, <3>3, RecIsOwn, <1>a
    <3>4. j.got # FromFile BY <2>2 DEF ReadRunning, FromFile
    <3>5. QED BY <1>2, <3>1, <3>2, <3>3, <3>4, JobMoves
  <2>3. QED BY <2>1, <2>2, <1>c
<1>3. QED BY <1>n, <1>1, <1>2

(* A step that is on its way gets to the buffer, and from there to a list. *)
LEMMA ComingStays ==
  ASSUME ViewInv, ViewNext, rec'.status \in Kept, NEW n \in 1 .. made, Coming(n)
  PROVE  \/ Coming(n)'
         \/ buf' = <<>> /\ ~HandlesStep /\ \E i \in DOMAIN buf : buf[i].seq = n
<1>0. ViewTypeOK /\ buf \in Seq(Updates) /\ made \in Nat BY BufferIs DEF ViewInv
<1>1. CASE \E i \in DOMAIN buf : buf[i].seq = n
  <2>1. PICK i \in DOMAIN buf : buf[i].seq = n BY <1>1
  <2>2. CASE buf' = buf BY <2>2, <2>1 DEF Coming
  <2>3. CASE HandlesStep
    <3>1. buf' = Append(buf, [seq |-> Head(events).seq, step |-> Head(events).step]) BY <2>3 DEF HandlesStep
    <3>2. i \in DOMAIN buf' /\ buf'[i] = buf[i] BY <3>1, <1>0
    <3>3. QED BY <3>2, <2>1 DEF Coming
  <2>4. CASE buf' = <<>> /\ ~HandlesStep BY <2>4, <1>1
  <2>5. QED BY <2>2, <2>3, <2>4, OthersStay
<1>2. ASSUME NEW i \in DOMAIN events, events[i].seq = n, \A k \in 1..i : events[k].kind \notin {"stopped", "finalized"}
      PROVE  Coming(n)'
  <2>0. n # 0 /\ events \in Seq(Events) BY <1>0 DEF ViewTypeOK
  <2>1. CASE events' = events
    BY <2>1, <1>2 DEF Coming
  <2>2. ASSUME NEW kind, NEW seq, EventSent(kind, seq) PROVE Coming(n)'
    <3>1. DOMAIN events = 1 .. Len(events) /\ i \in DOMAIN events' /\ \A k \in DOMAIN events : events'[k] = events[k]
      BY <2>2 DEF EventSent
    <3>2. \A k \in 1 .. i : k \in DOMAIN events BY <3>1
    <3>3. events'[i].seq = n /\ \A k \in 1..i : events'[k].kind \notin {"stopped", "finalized"}
      BY <3>1, <3>2, <1>2
    <3>4. QED BY <3>1, <3>3 DEF Coming
  <2>3. ASSUME NEW kind, EventTaken(kind), i # 1 PROVE Coming(n)'
    <3>1. /\ DOMAIN events = 1 .. Len(events) /\ Len(events) \in Nat /\ DOMAIN events' = 1 .. Len(events) - 1
          /\ \A k \in DOMAIN events' : events'[k] = events[k + 1]
      BY <2>3 DEF EventTaken
    <3>2. i - 1 \in DOMAIN events' /\ events'[i - 1] = events[i]
      <4>1. i - 1 \in DOMAIN events' /\ (i - 1) + 1 = i BY <3>1, <2>3
      <4>2. QED BY <4>1, <3>1
    <3>3. ASSUME NEW k \in 1 .. i - 1 PROVE events'[k].kind \notin {"stopped", "finalized"}
      <4>1. k \in DOMAIN events' /\ k + 1 \in 1 .. i BY <3>1, <3>2
      <4>2. QED BY <4>1, <3>1, <1>2
    <3>4. QED BY <3>2, <3>3, <1>2 DEF Coming
  <2>4. ASSUME i = 1, HandlesStep, EventTaken("step") PROVE Coming(n)'
    <3>1. buf' = Append(buf, [seq |-> Head(events).seq, step |-> Head(events).step]) /\ Head(events).seq = n
      BY <2>4, <1>2 DEF HandlesStep, EventTaken
    <3>2. Len(buf) + 1 \in DOMAIN buf' /\ buf'[Len(buf) + 1].seq = n BY <3>1, <1>0
    <3>3. QED BY <3>2 DEF Coming
  <2>5. ASSUME NEW kind, EventTaken(kind), i = 1 PROVE kind = "step"
    <3>1. events[1].kind = kind /\ events[1].seq # 0 /\ 1 \in DOMAIN events BY <2>5, <1>2, <2>0 DEF EventTaken
    <3>2. QED BY <3>1 DEF ViewInv, Numbered
  <2>6. QED BY <2>1, <2>2, <2>3, <2>4, <2>5, EventMoves
<1>3. QED BY <1>1, <1>2 DEF Coming

(* A step that is made is on its way. *)
LEMMA MadeIsComing ==
  ASSUME ViewInv, Records
  PROVE  (\A n : n = made' => Coming(n)') /\ made' = made + 1 /\ made \in Nat /\ told' = {}
<1>0. ViewTypeOK BY DEF ViewInv
<1>1. EventSent("step", made') BY <1>0, RecordsIs, Published DEF Records
<1>2. rec.status = "recording" /\ made' = made + 1 /\ made \in Nat BY RecordsIs
<1>3. told = {} /\ \A i \in DOMAIN events : events[i].kind \in {"started", "step"} BY <1>2 DEF ViewInv, WhileRecording
<1>4. Len(events) + 1 \in DOMAIN events' /\ events'[Len(events) + 1].seq = made' BY <1>1 DEF EventSent
<1>5. \A k \in 1 .. Len(events) + 1 : events'[k].kind \notin {"stopped", "finalized"}
  <2> TAKE k \in 1 .. Len(events) + 1
  <2>1. k \in DOMAIN events \/ k = Len(events) + 1 BY <1>1 DEF EventSent
  <2>2. QED BY <2>1, <1>1, <1>3 DEF EventSent
<1>6. \A n : n = made' => Coming(n)' BY <1>4, <1>5 DEF Coming
<1>7. told' = {} BY <1>3 DEF Records, ext
<1>8. QED BY <1>2, <1>6, <1>7

(* A list that nothing overtakes stays one that every step reaches.        *)
LEMMA ReachesStays ==
  ASSUME ViewInv, ViewNext, rec'.status \in Kept, NEW steps, Reaches(steps),
         buf' = buf \/ HandlesStep \/ buf = <<>>
  PROVE  \A n \in 1..made' : (Has(steps, n) \/ Coming(n)') /\ (told' # {} => Has(steps, n))
<1> TAKE n \in 1..made'
<1>0. made \in Nat /\ ViewTypeOK BY BufferIs DEF ViewInv
<1>1. CASE Records
  <2>1. made' = made + 1 /\ (n = made' => Coming(n)') /\ told' = {} BY <1>1, MadeIsComing
  <2>2. n = made' \/ n \in 1..made BY <2>1, <1>0
  <2>3. buf' = buf \/ ~(\E i \in DOMAIN buf : buf[i].seq = n) BY <1>1 DEF Records, ext
  <2>4. ASSUME n \in 1..made PROVE Has(steps, n) \/ Coming(n)'
    <3>1. Has(steps, n) \/ Coming(n) BY <2>4 DEF Reaches
    <3>2. buf' = buf BY <1>1 DEF Records, ext
    <3>3. CASE buf' = <<>> /\ \E i \in DOMAIN buf : buf[i].seq = n BY <3>2, <3>3
    <3>4. QED BY <3>1, <3>3, <2>4, ComingStays
  <2>5. QED BY <2>1, <2>2, <2>4
<1>2. CASE ~Records
  <2>1. made' = made /\ n \in 1..made BY <1>2, OthersStay
  <2>2. ~(buf' = <<>> /\ ~HandlesStep /\ \E i \in DOMAIN buf : buf[i].seq = n) OBVIOUS
  <2>3. Has(steps, n) \/ Coming(n)' BY <2>1, <2>2, ComingStays DEF Reaches
  <2>4. ASSUME told' # {} PROVE Has(steps, n)
    <3>1. CASE told # {} BY <3>1, <2>1 DEF Reaches, Complete
    <3>2. CASE told = {}
      <4>1. HandlesStopped /\ There BY <2>4, <3>2, OthersStay
      <4>2. buf = <<>> /\ EventTaken("stopped")
        <5>1. buf' = <<>> /\ EventTaken("stopped") BY <4>1, <1>0, Taken DEF HandlesStopped
        <5>2. ~HandlesStep BY <5>1, <1>0, Taken DEF HandlesStep, EventTaken
        <5>3. QED BY <5>1, <5>2
      <4>3. ~Coming(n)
        <5>1. events[1].kind = "stopped" /\ DOMAIN events = 1 .. Len(events) BY <4>2 DEF EventTaken
        <5>2. \A i \in DOMAIN events : 1 \in 1 .. i BY <5>1
        <5>3. QED BY <4>2, <5>1, <5>2 DEF Coming
      <4>4. QED BY <4>3, <2>1 DEF Reaches
    <3>3. QED BY <3>1, <3>2
  <2>5. QED BY <2>3, <2>4
<1>3. QED BY <1>1, <1>2

(* A list that the buffer is flushed into has what was in the buffer, and  *)
(* when the end is heard everything.                                       *)
LEMMA FlushedReaches ==
  ASSUME ViewInv, ViewNext, rec'.status \in Kept, Clean({"mixed"}), NEW steps \in Tables, Reaches(steps), Flush
  PROVE  \A n \in 1..made' : (Has(Put(steps), n) \/ Coming(n)') /\ (told' # {} => Has(Put(steps), n))
<1> TAKE n \in 1..made'
<1>0. made \in Nat /\ ViewTypeOK /\ buf \in Seq(Updates) BY BufferIs DEF ViewInv
<1>1. buf' = <<>> BY DEF Flush
<1>2. ~HandlesStep
  <2>1. HandlesStep => buf' # <<>> BY <1>0 DEF HandlesStep
  <2>2. QED BY <2>1, <1>1
<1>3. CASE Records
  <2>1. made' = made + 1 /\ (n = made' => Coming(n)') /\ told' = {} BY <1>3, MadeIsComing
  <2>2. buf = <<>> BY <1>1, <1>3 DEF Records, ext
  <2>3. (Has(steps, n) \/ Coming(n)') /\ (told' # {} => Has(steps, n)) BY <2>2, ReachesStays
  <2>4. QED BY <2>1, <2>3, PutHas
<1>4. CASE ~Records
  <2>1. made' = made /\ n \in 1..made BY <1>4, OthersStay
  <2>2. Has(Put(steps), n) \/ Coming(n)'
    <3>1. CASE Has(steps, n) BY <3>1, PutHas
    <3>2. CASE Coming(n)
      <4>1. CASE \E i \in DOMAIN buf : buf[i].seq = n BY <4>1, PutHas
      <4>2. CASE ~(\E i \in DOMAIN buf : buf[i].seq = n) BY <4>2, <3>2, <2>1, ComingStays
      <4>3. QED BY <4>1, <4>2
    <3>3. QED BY <3>1, <3>2, <2>1 DEF Reaches
  <2>3. ASSUME told' # {} PROVE Has(Put(steps), n)
    <3>1. CASE told # {} BY <3>1, <2>1, PutHas DEF Reaches, Complete
    <3>2. CASE told = {}
      <4>1. HandlesStopped /\ There BY <2>3, <3>2, OthersStay
      <4>2. EventTaken("stopped") BY <4>1, <1>0, Taken DEF HandlesStopped
      <4>3. events[1].kind = "stopped" /\ DOMAIN events = 1 .. Len(events) BY <4>2 DEF EventTaken
      <4>4. \A i \in DOMAIN events : 1 \in 1 .. i BY <4>3
      <4>5. Coming(n) => \E i \in DOMAIN buf : buf[i].seq = n BY <4>3, <4>4 DEF Coming
      <4>6. QED BY <4>5, <2>1, PutHas DEF Reaches
    <3>3. QED BY <3>1, <3>2
  <2>4. QED BY <2>2, <2>3
<1>5. QED BY <1>3, <1>4

LEMMA StepsComingKeeps == ViewInv /\ ViewNext => StepsComing'
<1> SUFFICES ASSUME ViewInv, ViewNext, rec'.status \in Kept, Clean({"missed", "mixed"})' PROVE StepsComing'
  BY DEF StepsComing
<1>0. ViewTypeOK /\ view.steps \in Tables /\ made \in Nat /\ jobs \subseteq Jobs BY BufferIs DEF ViewInv, ViewTypeOK
<1>n. rec.status \in Kept \/ (rec.status = "new" /\ Starts) BY StillKept
<1>m. "missed" \notin flaws' /\ Clean({"missed", "mixed"}) /\ Clean({"mixed"}) BY OthersStay DEF Clean
<1> DEFINE Good(steps) == \A n \in 1..made' : (Has(steps, n) \/ Coming(n)') /\ (told' # {} => Has(steps, n))
<1>c. ASSUME StartAhead' => Good(<<>>), Running' => Good(view'.steps),
             \A j \in jobs' : ReadRunning(j) => Good(j.got.steps)
      PROVE  StepsComing'
  BY <1>c DEF StepsComing, Reaches, Complete, Has, ReadRunning, Answered, Running
<1>1. CASE rec.status = "new" /\ Starts
  <2>1. jobs' = {} /\ view' = view /\ ~InEditor /\ made' = 0 BY <1>1 DEF ViewInv, Unstarted, Starts
  <2>2. Good(<<>>) BY <2>1
  <2>3. QED BY <2>1, <2>2, <1>c DEF InEditor, Kept, Running
<1>2. CASE rec.status \in Kept
  <2>0. /\ StartAhead => Reaches(<<>>)
        /\ Running => Reaches(view.steps)
        /\ \A j \in jobs : ReadRunning(j) => Reaches(j.got.steps)
    BY <1>2, <1>m DEF ViewInv, StepsComing
  <2>s. (saved = "none" <=> StartAhead) /\ (StartAhead => buf = <<>> /\ told = {}) BY <1>2 DEF ViewInv, StartFirst
  <2>a. ASSUME buf' = buf \/ HandlesStep \/ buf = <<>> PROVE \A steps : Reaches(steps) => Good(steps)
    BY <2>a, ReachesStays
  <2>b. ASSUME Flush PROVE \A steps \in Tables : Reaches(steps) => Good(Put(steps))
    BY <2>b, <1>m, FlushedReaches
  <2> HIDE DEF Good
  <2>1. ASSUME StartAhead' PROVE Good(<<>>)
    <3>1. saved' = "none" BY <2>1, StartFirstKeeps DEF StartFirst
    <3>2. saved = "none"
      <4>1. ~HandlesStarted BY <3>1 DEF HandlesStarted
      <4>2. ~HandlesDiscarded
        <5>1. \A i \in DOMAIN events : events[i].kind # "discarded" BY <1>2 DEF ViewInv, StartFirst
        <5>2. QED BY <5>1, <1>0, Taken DEF HandlesDiscarded, EventTaken
      <4>3. QED
        BY <3>1, <4>1, <4>2 DEF ViewNext, Worker, User, WorkerEnds, Handles, Works, Starts, Records, PageStops, Pictured, Dies, Returns, AgentFinalizes, AgentDiscards, AgentCloses, Forgets,
          OpensDashboard, Closes, OpensOne, BackToReview, RestoresSteps, RemovesStep, ClicksFinalize, ClicksDiscard, ClicksStop,
          TellsStopped, StopThrows, HandlesStep, HandlesStopped, HandlesFinalized, Saves,
          FlushTimer, ShowsStopped, HearsState, LoadAnswered, LoadShown, Finalizes, Saved, SaveFails, Refinalizes, Discards, Forgets, AsksStop, ext
    <3>3. StartAhead /\ buf = <<>> BY <3>2, <2>s
    <3>4. QED BY <3>3, <2>0, <2>a
  <2>2. ASSUME Running' PROVE Good(view'.steps)
    <3>0. view'.mode = "recording" /\ ~view'.loading BY <2>2 DEF Running
    <3>e. "recording" \in Kept /\ "recording" # "review" /\ "recording" # "finalized" BY DEF Kept
    <3>1. CASE ViewStays
      <4>1. Running /\ view'.steps = view.steps BY <3>1, <3>0, <1>m DEF ViewStays, Running
      <4>2. InEditor /\ There BY <4>1 DEF Running, InEditor, There, Kept
      <4>3. CASE buf' = buf \/ HandlesStep \/ buf = <<>> BY <4>1, <4>3, <2>0, <2>a
      <4>4. CASE ~(buf' = buf \/ HandlesStep \/ buf = <<>>)
        <5>1. Flush BY <4>2, <4>4, OthersStay
        <5>2. view' = [view EXCEPT !.steps = Put(view.steps)] BY <5>1, <4>2, <1>0, FlushIs
        <5>3. view'.steps = Put(view.steps) BY <5>2, <1>0 DEF ViewTypeOK, Views
        <5>4. QED BY <5>1, <5>3, <4>1, <2>0, <2>b, <1>0
      <4>5. QED BY <4>3, <4>4
    <3>2. CASE HandlesStarted /\ view'.steps = <<>>
      <4>1. StartAhead BY <3>2, <1>0, Taken DEF HandlesStarted, EventTaken, StartAhead
      <4>2. QED BY <4>1, <3>2, <2>s, <2>0, <2>a
    <3>3. CASE Flush /\ view'.mode = view.mode /\ view'.loading = view.loading /\ view'.steps = Put(view.steps)
      <4>1. Running BY <3>3, <3>0 DEF Running
      <4>2. QED BY <4>1, <3>3, <2>0, <2>b, <1>0
    <3>4. CASE ClicksFinalize /\ view'.mode = view.mode BY <3>4, <3>0 DEF ClicksFinalize, Editing
    <3>5. ASSUME NEW j \in jobs, LoadShown(j), view'.steps = j.got.steps, view'.mode = "recording" <=> j.got.status = "recording"
          PROVE  Good(view'.steps)
      <4>1. ReadRunning(j) /\ buf' = buf BY <3>5, <3>0 DEF ReadRunning, LoadShown, ext
      <4>2. QED BY <4>1, <3>5, <2>0, <2>a
    <3>6. QED BY <3>0, <3>e, <3>1, <3>2, <3>3, <3>4, <3>5, ViewMoves
  <2>3. ASSUME NEW j \in jobs', ReadRunning(j) PROVE Good(j.got.steps)
    <3>1. Answered(j) BY <2>3 DEF ReadRunning
    <3>2. CASE j \in jobs
      <4>1. CASE buf' = buf \/ HandlesStep \/ buf = <<>> BY <4>1, <3>2, <2>3, <2>0, <2>a
      <4>2. CASE ~(buf' = buf \/ HandlesStep \/ buf = <<>>)
        <5>1. Flush \/ flaws' = flaws \cup {"astray"} \cup Overtaken(buf # <<>>) BY <4>2, OthersStay
        <5>2. Overtaken(buf # <<>>) \subseteq flaws' BY <5>1 DEF Flush
        <5>3. "missed" \in Overtaken(buf # <<>>) BY <4>2, <3>1, <3>2 DEF Overtaken
        <5>4. QED BY <5>2, <5>3, <1>m
      <4>3. QED BY <4>1, <4>2
    <3>3. CASE j.got = rec /\ made' = made /\ told' = told
      <4>1. rec.status = "recording" BY <3>3, <2>3 DEF ReadRunning
      <4>2. Complete(rec.steps) BY <4>1, RecIsOwn
      <4>3. QED BY <4>2, <3>3 DEF Good, Complete
    <3>4. j.got # FromFile BY <2>3 DEF ReadRunning, FromFile
    <3>5. QED BY <1>2, <3>1, <3>2, <3>3, <3>4, JobMoves
  <2>4. QED BY <2>1, <2>2, <2>3, <1>c
<1>3. QED BY <1>n, <1>1, <1>2

(* A list that every step has got to is whole. *)
LEMMA CompleteIsWhole ==
  ASSUME ViewInv, NEW steps, Complete(steps), OwnAll(steps)
  PROVE  Whole(steps)
<1>1. \A k \in 1..made \ cut : k \in DOMAIN steps /\ steps[k].id = k BY DEF Complete, Has
<1>2. QED BY <1>1 DEF Whole

(* What finalizing makes of a whole list is whole. *)
LEMMA EditedWhole ==
  ASSUME ViewInv, Whole(view.steps), ~Hidden, NEW left, Clicked(left)
  PROVE  /\ \A k \in 1..made \ cut' : \E i \in DOMAIN Edited(left) : Edited(left)[i].id = k
         /\ cut' = {} => OwnAll(Edited(left))
<1>0. view \in Views /\ made \in Nat /\ RemovedIsCut BY BufferIs DEF ViewInv, ViewTypeOK
<1>l. left \in SUBSET Visible /\ cut' = cut \cup {view.steps[n].id : n \in Visible \ left} BY DEF Clicked
<1>1. ASSUME NEW k \in 1..made \ cut' PROVE \E i \in DOMAIN Edited(left) : Edited(left)[i].id = k
  <2>0. k \in 1..made \ cut BY <1>1, <1>l
  <2>1. PICK n \in DOMAIN view.steps : view.steps[n].id = k BY <2>0 DEF Whole
  <2>2. n \in Visible BY <2>1, <2>0 DEF Hidden, Visible
  <2>a. n \in left
    <3>1. n \notin left => k \in {view.steps[m].id : m \in Visible \ left} BY <2>1, <2>2
    <3>2. QED BY <3>1, <1>1, <1>l
  <2>3. PICK i \in DOMAIN Edited(left) : Edited(left)[i] = view.steps[n] BY <2>a, <1>0, <1>l, EditedIs
  <2>4. QED BY <2>1, <2>3
<1>2. ASSUME cut' = {} PROVE OwnAll(Edited(left))
  <2>0. cut = {} BY <1>2, <1>l
  <2>1. view.removed = {} /\ OwnAll(view.steps) BY <2>0, <1>0 DEF RemovedIsCut, Whole
  <2>2. Visible = DOMAIN view.steps BY <2>1 DEF Visible
  <2>3. DOMAIN view.steps \subseteq 1..made BY <2>1 DEF OwnAll
  <2>4. 1..made \subseteq DOMAIN view.steps
    <3>1. ASSUME NEW k \in 1..made PROVE k \in DOMAIN view.steps
      <4>1. PICK n \in DOMAIN view.steps : view.steps[n].id = k BY <2>0 DEF Whole
      <4>2. QED BY <4>1, <2>1 DEF OwnAll, Own
    <3>2. QED BY <3>1
  <2>a. left = Visible
    <3>1. ASSUME NEW n \in Visible PROVE n \in left
      <4>1. n \notin left => view.steps[n].id \in {view.steps[m].id : m \in Visible \ left} BY <3>1
      <4>2. QED BY <4>1, <1>2, <1>l
    <3>2. QED BY <3>1, <1>l
  <2>5. left = 1..made BY <2>2, <2>3, <2>4, <2>a
  <2>6. \A i \in DOMAIN Edited(left) : i \in 1..made /\ Edited(left)[i] = view.steps[i] BY <2>5, <1>0, <1>l, EditedIs
  <2>7. QED BY <2>1, <2>4, <2>6 DEF OwnAll, Own
<1>3. QED BY <1>1, <1>2

LEMMA MergedWhole ==
  ASSUME ViewInv, NEW old \in Lists, NEW edited \in Lists, Whole(old), Whole(edited)
  PROVE  Whole(Merged(old, edited))
<1>1. CASE edited = <<>>
  BY <1>1, MergedIs
<1>2. CASE edited # <<>>
  <2>1. /\ DOMAIN Merged(old, edited) = DOMAIN edited
        /\ \A i \in DOMAIN edited :
             /\ Merged(old, edited)[i].id = edited[i].id
             /\ \/ Merged(old, edited)[i].pic = edited[i].pic
                \/ i \in DOMAIN old /\ Merged(old, edited)[i].pic = old[i].pic
    BY <1>2, MergedIs
  <2>2. ASSUME NEW k \in 1..made \ cut
        PROVE  \E i \in DOMAIN Merged(old, edited) : Merged(old, edited)[i].id = k
    <3>1. PICK i \in DOMAIN edited : edited[i].id = k BY DEF Whole
    <3>2. QED BY <3>1, <2>1
  <2>3. ASSUME cut = {} PROVE OwnAll(Merged(old, edited))
    <3>1. OwnAll(old) /\ OwnAll(edited) BY <2>3 DEF Whole
    <3>2. QED BY <3>1, <2>1 DEF OwnAll, Own
  <2>4. QED BY <2>2, <2>3 DEF Whole
<1>3. QED BY <1>1, <1>2

LEMMA AllWholeKeeps == ViewInv /\ ViewNext => AllWhole'
<1> SUFFICES ASSUME ViewInv, ViewNext, rec'.status \in Kept, Clean({"missed", "mixed"})' PROVE AllWhole'
  BY DEF AllWhole
<1>0. ViewTypeOK /\ view.steps \in Tables /\ made \in Nat /\ jobs \subseteq Jobs /\ rec \in Recordings
      /\ view \in Views
  BY BufferIs DEF ViewInv, ViewTypeOK
<1>n. rec.status \in Kept \/ (rec.status = "new" /\ Starts) BY StillKept
<1>m. "missed" \notin flaws' /\ "mixed" \notin flaws' /\ "missed" \notin flaws /\ "mixed" \notin flaws
  BY OthersStay DEF Clean
<1> DEFINE Good(steps) ==
             /\ \A k \in 1..made' \ cut' : \E n \in DOMAIN steps : steps[n].id = k
             /\ cut' = {} => \A n \in DOMAIN steps : n \in 1..made' /\ Own(steps[n], n)
           ViewWhole == view.mode \in {"review", "finalized"} /\ ~view.loading => Whole(view.steps)
           JobsWhole == \A j \in jobs : /\ j.kind \in ListKinds => Whole(j.got)
                                        /\ Answered(j) /\ ~ReadRunning(j) => Whole(j.got.steps)
<1>c. ASSUME view'.mode \in {"review", "finalized"} /\ ~view'.loading => Good(view'.steps),
             \A j \in jobs' : /\ j.kind \in ListKinds => Good(j.got)
                              /\ Answered(j) /\ ~ReadRunning(j) => Good(j.got.steps),
             Good(rec'.steps), file' # Nothing => Good(file')
      PROVE  AllWhole'
  BY <1>c DEF AllWhole, Whole, OwnAll, Own, ReadRunning, Answered, ListKinds
<1>a. made' = made => \A steps : Whole(steps) => Good(steps)
  <2> SUFFICES ASSUME made' = made, NEW steps, Whole(steps) PROVE Good(steps) OBVIOUS
  <2>1. cut \subseteq cut' BY OthersStay
  <2>2. QED BY <2>1 DEF Whole, OwnAll
<1> HIDE DEF Good
<1>r. rec'.status \in {"recording", "review"} => Good(rec'.steps)
  <2> SUFFICES ASSUME rec'.status \in {"recording", "review"} PROVE Good(rec'.steps) OBVIOUS
  <2>1. Len(rec'.steps) = made' /\ \A n \in 1..made' : rec'.steps[n].id = n /\ rec'.steps[n].pic \in {0, n}
    BY NumberedKeeps DEF Numbered, Own
  <2>2. rec'.steps \in Lists BY TypeKeeps DEF ViewTypeOK, Recordings
  <2>3. DOMAIN rec'.steps = 1 .. made' BY <2>1, <2>2, ListIs
  <2>4. \A k \in 1..made' \ cut' : k \in DOMAIN rec'.steps /\ rec'.steps[k].id = k BY <2>1, <2>3
  <2>5. QED BY <2>1, <2>3, <2>4 DEF Good, Own
<1>1. CASE rec.status = "new" /\ Starts
  <2>1. jobs' = {} /\ view' = view /\ ~InEditor /\ file' = Nothing /\ rec'.status = "recording"
    BY <1>1, <1>0 DEF ViewInv, Unstarted, Starts, Recordings
  <2>2. QED BY <2>1, <1>r, <1>c DEF InEditor, Kept
<1>2. CASE Records
  <2>1. rec'.status = "recording" /\ rec.status = "recording" BY <1>2, RecordsIs
  <2>2. /\ view.mode \notin {"review", "finalized"} /\ file = Nothing
        /\ \A j \in jobs : j.kind \notin ListKinds /\ (Answered(j) => j.got.status = "recording")
    BY <2>1 DEF ViewInv, WhileRecording, ListKinds, Savings
  <2>3. view' = view /\ jobs' = jobs /\ file' = file BY <1>2 DEF Records, ext
  <2>4. QED BY <2>1, <2>2, <2>3, <1>r, <1>c DEF ReadRunning
<1>3. CASE rec.status \in Kept /\ ~Records
  <2>0. ViewWhole /\ JobsWhole /\ Whole(rec.steps) /\ (file # Nothing => Whole(file))
    BY <1>3, <1>m DEF ViewInv, AllWhole, Clean, ListKinds
  <2>1. made' = made BY <1>3, OthersStay
  <2>a. \A steps : Whole(steps) => Good(steps) BY <2>1, <1>a
  <2>o. /\ view.mode = "recording" => OwnAll(view.steps)
        /\ Running => Reaches(view.steps)
    BY <1>3, <1>m DEF ViewInv, OwnNumbers, StepsComing, Clean
  <2>e. ASSUME ClicksFinalize, NEW left, Clicked(left) PROVE Good(Edited(left))
    <3>1. view.mode = "review" /\ ~view.loading /\ ~Hidden BY <2>e, <1>m DEF ClicksFinalize, Editing
    <3>2. /\ \A k \in 1..made \ cut' : \E i \in DOMAIN Edited(left) : Edited(left)[i].id = k
          /\ cut' = {} => OwnAll(Edited(left))
      BY <3>1, <2>e, <2>0, EditedWhole
    <3>3. QED BY <3>2, <2>1 DEF Good, OwnAll
  <2>c. Clean({"mixed"}) BY <1>m DEF Clean
  <2>4. Good(rec'.steps) /\ (file' # Nothing => Good(file'))
    <3>1. ASSUME NEW j \in jobs, Finalizes(j) PROVE Good(rec'.steps)
      <4>1. j.got \in Lists /\ Whole(j.got)
        <5>1. j.kind = "finalize" /\ j.kind \in ListKinds BY <3>1 DEF Finalizes, ListKinds
        <5>2. QED BY <5>1, <2>0, <1>0, JobIs
      <4>2. rec.steps \in Lists BY <1>0 DEF Recordings
      <4>3. rec' = rec \/ rec'.steps = Merged(rec.steps, j.got) BY <3>1 DEF Finalizes
      <4>4. Whole(Merged(rec.steps, j.got)) BY <4>1, <4>2, <2>0, MergedWhole
      <4>5. QED BY <4>3, <4>4, <2>0, <2>a
    <3>2. ASSUME NEW n \in Seqs, Pictured(n) PROVE Good(rec'.steps)
      <4>1. cut' = cut /\ Own(rec'.steps[n], n) BY <3>2, <1>m DEF Pictured
      <4>2. /\ n \in DOMAIN rec.steps /\ DOMAIN rec'.steps = DOMAIN rec.steps /\ rec'.steps[n].id = rec.steps[n].id
            /\ \A k \in DOMAIN rec.steps : k # n => rec'.steps[k] = rec.steps[k]
        BY <3>2, <1>0, PicturedIs
      <4>3. \A k \in DOMAIN rec.steps : rec'.steps[k].id = rec.steps[k].id BY <4>2
      <4>4. \A k \in 1..made' \ cut' : \E i \in DOMAIN rec'.steps : rec'.steps[i].id = k
        BY <4>1, <4>2, <4>3, <2>0, <2>1 DEF Whole
      <4>5. cut' = {} => \A k \in DOMAIN rec'.steps : k \in 1..made' /\ Own(rec'.steps[k], k)
        BY <4>1, <4>2, <2>0, <2>1 DEF Whole, OwnAll
      <4>6. QED BY <4>4, <4>5 DEF Good
    <3>3. Good(rec'.steps)
      <4>1. rec' = rec \/ rec'.status = "gone" \/ rec'.status \in {"recording", "review"} \/ rec'.steps = rec.steps
            \/ (\E n \in Seqs : Pictured(n)) \/ \E j \in jobs : Finalizes(j)
        BY <1>3, StatusMoves
      <4>2. rec'.status # "gone" BY DEF Kept
      <4>3. QED BY <4>1, <4>2, <3>1, <3>2, <1>r, <2>0, <2>a
    <3>4. ASSUME NEW j \in jobs, Saved(j) \/ Refinalizes(j), file' # Nothing PROVE Good(file')
      <4>1. j.got \in Lists /\ Whole(j.got)
        <5>1. j.kind \in ListKinds BY <3>4 DEF Saved, Refinalizes, ListKinds
        <5>2. QED BY <5>1, <2>0, <1>0, JobIs DEF ListKinds
      <4>2. CASE file' = file BY <4>2, <3>4, <2>0, <2>a
      <4>3. CASE file' = j.got BY <4>3, <4>1, <2>a
      <4>4. CASE file # Nothing /\ file' = Merged(file, j.got)
        <5>1. file \in Lists BY <4>4, <1>0 DEF ViewTypeOK
        <5>2. Whole(Merged(file, j.got)) BY <4>1, <4>4, <5>1, <2>0, MergedWhole
        <5>3. QED BY <5>2, <4>4, <2>a
      <4>5. QED BY <3>4, <4>2, <4>3, <4>4 DEF Saved, Refinalizes
    <3>5. CASE \A j \in jobs : ~Saved(j) /\ ~Refinalizes(j)
      <4>1. file' = file
        BY <3>5, StillKept DEF ViewNext, Worker, User, WorkerEnds, Handles, Works, Starts, Records, PageStops, Pictured, Dies, Returns, AgentFinalizes, AgentDiscards, AgentCloses,
          OpensDashboard, Closes, OpensOne, BackToReview, RestoresSteps, RemovesStep, ClicksFinalize, ClicksDiscard, ClicksStop,
          TellsStopped, StopThrows, HandlesStarted, HandlesStep, HandlesStopped, HandlesFinalized,
          HandlesDiscarded, FlushTimer, ShowsStopped, HearsState, LoadAnswered, LoadShown, Finalizes, SaveFails, Discards, AsksStop, worker
      <4>2. QED BY <4>1, <3>3, <2>0, <2>a
    <3>6. QED BY <3>3, <3>4, <3>5
  <2>2. ASSUME view'.mode \in {"review", "finalized"}, ~view'.loading PROVE Good(view'.steps)
    <3>e. view'.mode \in Kept /\ view'.mode # "recording" BY <2>2 DEF Kept
    <3>1. CASE ViewStays
      BY <3>1, <2>2, <2>0, <2>a, <1>m DEF ViewStays
    <3>2. CASE Flush /\ InEditor /\ view'.mode = view.mode /\ view'.loading = view.loading /\ view'.steps = Put(view.steps)
      <4>1. Whole(view.steps) BY <3>2, <2>2, <2>0
      <4>2. \A i \in DOMAIN buf : buf[i].seq \in DOMAIN view.steps => view.steps[buf[i].seq].id = buf[i].step.id
        <5>1. "mixed" \notin Misplaced BY <3>2, <1>m DEF Flush
        <5>2. QED BY <5>1, <3>2 DEF Misplaced
      <4>3. Whole(Put(view.steps)) BY <4>1, <4>2, <1>0, <2>c, PutWhole
      <4>4. QED BY <4>3, <3>2, <2>a
    <3>3. CASE ShowsStopped /\ ViewTurns
      <4>1. told # {} /\ view'.steps = view.steps /\ ~view.loading /\ view.mode \in Kept
        BY <3>3, <2>2 DEF ShowsStopped, ViewTurns, InEditor
      <4>2. CASE view.mode = "recording"
        <5>1. Complete(view.steps) /\ OwnAll(view.steps) BY <4>1, <4>2, <2>o DEF Running, Reaches
        <5>2. QED BY <5>1, <4>1, <2>a, CompleteIsWhole
      <4>3. CASE view.mode # "recording" BY <4>1, <4>3, <2>0, <2>a DEF Kept
      <4>4. QED BY <4>2, <4>3
    <3>4. CASE HandlesFinalized /\ ViewTurns
      <4>1. view'.steps = view.steps /\ ~view.loading /\ view.mode \in Kept
        BY <3>4, <2>2 DEF ViewTurns, InEditor
      <4>2. CASE view.mode = "recording"
        <5>1. OwnAll(view.steps) /\ Reaches(view.steps) BY <4>1, <4>2, <2>o DEF Running
        <5>2. buf = <<>>
          <6>1. "missed" \notin Cuts BY <3>4, <1>m DEF HandlesFinalized
          <6>2. QED BY <6>1, <4>2 DEF Cuts
        <5>3. EventTaken("finalized") BY <3>4, <1>0, Taken DEF HandlesFinalized
        <5>4. events[1].kind = "finalized" /\ DOMAIN events = 1 .. Len(events) BY <5>3 DEF EventTaken
        <5>5. \A i \in DOMAIN events : 1 \in 1 .. i BY <5>4
        <5>6. \A n : ~Coming(n) BY <5>2, <5>4, <5>5 DEF Coming
        <5>7. Complete(view.steps) BY <5>1, <5>6 DEF Reaches, Complete
        <5>8. QED BY <5>1, <5>7, <4>1, <2>a, CompleteIsWhole
      <4>3. CASE view.mode # "recording" BY <4>1, <4>3, <2>0, <2>a DEF Kept
      <4>4. QED BY <4>2, <4>3
    <3>5. CASE BackToReview /\ ViewTurns /\ view.mode = "finalized"
      BY <3>5, <2>2, <2>0, <2>a DEF ViewTurns
    <3>6. CASE ClicksFinalize /\ \E left : Clicked(left) /\ view'.steps = Edited(left)
      BY <3>6, <2>e
    <3>7. ASSUME NEW j \in jobs, LoadShown(j), view'.steps = j.got.steps, view'.mode = "recording" <=> j.got.status = "recording"
          PROVE  Good(view'.steps)
      <4>1. Answered(j) /\ ~ReadRunning(j) BY <3>7, <3>e DEF ReadRunning, LoadShown
      <4>2. QED BY <4>1, <3>7, <2>0, <2>a
    <3>8. QED BY <2>2, <3>e, <3>1, <3>2, <3>3, <3>4, <3>5, <3>6, <3>7, ViewMoves
  <2>3. ASSUME NEW j \in jobs'
        PROVE  /\ j.kind \in ListKinds => Good(j.got)
               /\ Answered(j) /\ ~ReadRunning(j) => Good(j.got.steps)
    <3>1. CASE j \in jobs BY <3>1, <2>0, <2>a
    <3>2. CASE ~Answered(j) /\ j.kind \notin ListKinds BY <3>2
    <3>3. CASE j.kind = "load" /\ j.got = rec
      <4>1. j.kind \notin ListKinds BY <3>3 DEF ListKinds, Savings
      <4>2. QED BY <3>3, <4>1, <2>0, <2>a
    <3>4. CASE ClicksFinalize /\ ~Answered(j) /\ \E left : Clicked(left) /\ j.got = Edited(left) BY <3>4, <2>e
    <3>5. CASE j.kind = "read" /\ j.got = FromFile /\ file # Nothing
      <4>1. j.kind \notin ListKinds BY <3>5 DEF ListKinds, Savings
      <4>2. QED BY <3>5, <4>1, <2>0, <2>a DEF FromFile
    <3>6. CASE ~Answered(j) /\ \E i \in jobs : i.kind \in ListKinds /\ j.got = i.got BY <3>6, <2>0, <2>a
    <3>7. CASE ~Answered(j) /\ j.got = rec'.steps BY <3>7, <2>4
    <3>8. QED BY <1>3, <3>1, <3>2, <3>3, <3>4, <3>5, <3>6, <3>7, JobMoves
  <2>5. QED BY <2>2, <2>3, <2>4, <1>c
<1>4. QED BY <1>n, <1>1, <1>2, <1>3

-----------------------------------------------------------------------------
LEMMA ViewInvInit == ViewInit => ViewInv
<1> SUFFICES ASSUME ViewInit PROVE ViewInv OBVIOUS
<1>1. /\ rec.status = "new" /\ rec.steps = <<>> /\ rec \in Recordings
      /\ view \in Views /\ view.mode = "dashboard" /\ view.removed = {}
  <2>1. rec = [Gone EXCEPT !.status = "new"] /\ view = Shows("dashboard") BY DEF ViewInit
  <2>2. rec.status = "new" /\ rec.steps = <<>> /\ rec \in Recordings BY <2>1, GoneFits DEF Recordings, Gone
  <2>3. QED BY <2>1, <2>2, ShowsFits
<1>2. /\ up /\ open /\ ~ending /\ told = {} /\ shots = {} /\ file = Nothing /\ made = 0 /\ events = <<>> /\ buf = <<>>
      /\ saved = "none" /\ jobs = {} /\ cut = {} /\ flaws = {}
  BY DEF ViewInit
<1>3. {up, open, ending} \subseteq BOOLEAN BY DEF ViewInit
<1>4. DOMAIN events = {} /\ DOMAIN buf = {} /\ events \in Seq(Events) /\ buf \in Seq(Updates) /\ Len(events) = 0
  BY <1>2
<1>5. ViewTypeOK BY <1>1, <1>2, <1>3, <1>4, Bounds DEF ViewTypeOK
<1>6. rec.status \notin Kept BY <1>1 DEF Kept
<1>7. Unstarted BY <1>1, <1>2 DEF Unstarted, InEditor, Kept
<1>8. Numbered BY <1>1, <1>2, <1>4 DEF Numbered
<1>9. WhileRecording /\ AfterRecording /\ StartFirst /\ SavedFollows /\ StepsComing /\ OwnNumbers /\ AllWhole
  BY <1>1, <1>6 DEF WhileRecording, AfterRecording, StartFirst, SavedFollows, StepsComing, OwnNumbers, AllWhole, Kept
<1>10. QED BY <1>1, <1>5, <1>7, <1>8, <1>9 DEF ViewInv, RemovedIsCut

LEMMA ViewInvStep == ViewInv /\ [ViewNext]_viewVars => ViewInv'
<1>1. ASSUME ViewInv, ViewNext PROVE ViewInv'
  BY <1>1, TypeKeeps, UnstartedKeeps, NumberedKeeps, WhileRecordingKeeps, AfterRecordingKeeps, StartFirstKeeps,
     SavedFollowsKeeps, StepsComingKeeps, OwnNumbersKeeps, AllWholeKeeps, RemovedIsCutKeeps DEF ViewInv
<1>2. ASSUME ViewInv, UNCHANGED viewVars PROVE ViewInv'
  <2>1. /\ up' = up /\ rec' = rec /\ open' = open /\ ending' = ending /\ file' = file /\ made' = made /\ shots' = shots
        /\ events' = events /\ saved' = saved /\ buf' = buf /\ told' = told /\ jobs' = jobs /\ view' = view
        /\ cut' = cut /\ flaws' = flaws
    BY <1>2 DEF viewVars, worker, ext
  <2>2. ViewTypeOK' /\ Unstarted' /\ RemovedIsCut' BY <1>2, <2>1 DEF ViewInv, ViewTypeOK, Unstarted, InEditor, RemovedIsCut
  <2>3. Numbered' BY <1>2, <2>1 DEF ViewInv, Numbered, Clean, Own
  <2>4. WhileRecording' /\ AfterRecording'
    BY <1>2, <2>1 DEF ViewInv, WhileRecording, AfterRecording, Answered, Saving
  <2>5. StartFirst' /\ SavedFollows' BY <1>2, <2>1 DEF ViewInv, StartFirst, StartAhead, SavedFollows, Ahead, Saving, Clean
  <2>6. StepsComing'
    BY <1>2, <2>1 DEF ViewInv, StepsComing, StartAhead, Reaches, Complete, Has, Coming, Running, ReadRunning, Answered, Clean
  <2>7. OwnNumbers' BY <1>2, <2>1 DEF ViewInv, OwnNumbers, OwnAll, Own, ReadRunning, Answered, Clean
  <2>8. AllWhole' BY <1>2, <2>1 DEF ViewInv, AllWhole, Whole, OwnAll, Own, ReadRunning, Answered, Clean
  <2>9. QED BY <2>2, <2>3, <2>4, <2>5, <2>6, <2>7, <2>8 DEF ViewInv
<1>3. QED BY <1>1, <1>2

(* The state is well formed, and every step of a recording is in the list  *)
(* that the editor holds of it or on its way there, unless the editor      *)
(* missed an update or a number was given anew, whoever stops, finalizes   *)
(* or discards the recording; what the editor leaves out is noted.         *)
THEOREM ViewCorrect == ViewSpec => []ViewInv
BY ViewInvInit, ViewInvStep, PTL DEF ViewSpec

(* The saved status is the recording's once all events are handled, the    *)
(* webview is told of the end and the file written, unless one of these    *)
(* failed, nobody was there to hear, or an older status was saved over it. *)
THEOREM SavedIsTrueHolds == ViewSpec => []SavedIsTrue
<1>1. ASSUME ViewInv, events = <<>>, told = {}, ~ending, ~Saving, rec.status \in Kept, Clean({"astray"})
      PROVE  saved = rec.status
  <2>1. DOMAIN events = {} BY <1>1
  <2>2. saved # "none" BY <1>1, <2>1 DEF ViewInv, StartFirst, StartAhead
  <2>3. \A kind : ~Ahead(kind) BY <2>1 DEF Ahead
  <2>4. rec.status = "recording" => saved = "recording" BY <1>1, <2>2 DEF ViewInv, WhileRecording
  <2>5. rec.status = "review" => saved = "review" BY <1>1, <2>3 DEF ViewInv, SavedFollows
  <2>6. rec.status = "finalized" => saved = "finalized" BY <1>1, <2>3 DEF ViewInv, SavedFollows
  <2>7. QED BY <1>1, <2>4, <2>5, <2>6 DEF Kept
<1>2. ViewInv => SavedIsTrue BY <1>1 DEF SavedIsTrue
<1>3. QED BY <1>2, ViewCorrect, PTL

(* The file of a finalized recording has every step that the user did not  *)
(* remove and the editor did not leave out as the entry navigation, if the *)
(* editor missed no update and mixed up no number.                         *)
THEOREM FinalizedHasAll == ViewSpec => []FinalizedIsEdited
<1>1. ASSUME ViewInv, rec.status = "finalized", file # Nothing, Clean({"missed", "mixed"})
      PROVE  /\ 1..made \ cut \subseteq {file[i].id : i \in DOMAIN file}
             /\ cut = {} => \A i \in DOMAIN file : file[i].pic \in {0, file[i].id}
  <2>2. Whole(file) BY <1>1 DEF ViewInv, AllWhole, Kept
  <2>3. ASSUME NEW k \in 1..made \ cut PROVE k \in {file[i].id : i \in DOMAIN file}
    <3>1. PICK i \in DOMAIN file : file[i].id = k BY <2>2 DEF Whole
    <3>2. QED BY <3>1
  <2>4. cut = {} => \A i \in DOMAIN file : file[i].pic \in {0, file[i].id} BY <2>2 DEF Whole, OwnAll, Own
  <2>5. QED BY <2>3, <2>4
<1>2. ViewInv => FinalizedIsEdited BY <1>1 DEF FinalizedIsEdited
<1>3. QED BY <1>2, ViewCorrect, PTL
================================================================================
