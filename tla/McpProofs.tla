-------------------------------- MODULE McpProofs --------------------------------
(***************************************************************************)
(* Theorems about runtime-mcp.  First its event stream, EventDelivery, for *)
(* any number of sessions and clients, any ring buffer and any clock:      *)
(* DeliveryInv is inductive.  Then its calls to the worker, WorkerClient,  *)
(* for any number of calls, any streak and any number of workers:          *)
(* ClientInv is inductive, every action keeps each of its parts.  Then the *)
(* code it generates, Codegen, for all schemas, calls and faults: it       *)
(* compiles where it is whole, runs when its call ran alone, and leaves    *)
(* the code of others as it was.  CodegenInd says of each file, and of     *)
(* each write to come, that it is what its path is for; DiskInd, who holds *)
(* a file open and who knows of a file cut short; AloneInd, what a call    *)
(* knows that nobody came beside; StandInd, that what a spec needs leads   *)
(* to it, or that a fault the formula names is to blame.                   *)
(***************************************************************************)
EXTENDS EventDelivery, WorkerClient, Codegen, FiniteSetTheorems, WellFoundedInduction, TLAPS

(* The two properties are not inductive: what a replay leaves out depends  *)
(* on what the ring buffer holds, and that is, in order, every number      *)
(* given out since its oldest one.                                         *)
Numbers(w) == {w[i].seq : i \in DOMAIN w}
Increasing(w) == \A i, j \in DOMAIN w : i < j => w[i].seq < w[j].seq

BusInv ==
  /\ Increasing(buffer)
  /\ \A q \in published : q <= lastSeq
  /\ Numbers(buffer) \subseteq published
  /\ buffer = <<>> => published = {}
  /\ buffer # <<>> => \A q \in published : buffer[1].seq <= q => q \in Numbers(buffer)

LinkInv ==
  /\ \A c \in Clients \ connected : wire[c] = <<>>
  /\ \A c \in connected : from[c] <= lastSeq
  /\ \A c \in connected : {q \in published : q > from[c]} = got[c] \cup Numbers(wire[c])
  /\ \A c \in connected : Increasing(wire[c])
  /\ \A c \in connected : \A q \in got[c], p \in Numbers(wire[c]) : q < p

DeliveryInv == DeliveryTypeOK /\ BusInv /\ LinkInv

-----------------------------------------------------------------------------
(* Streams and buffers as sequences.                                       *)

LEMMA Appended ==
  ASSUME NEW w \in Seq(Entries), NEW e \in Entries
  PROVE  /\ Append(w, e) \in Seq(Entries) /\ Append(w, e) # <<>>
         /\ Numbers(Append(w, e)) = Numbers(w) \cup {e.seq}
         /\ Increasing(w) /\ (\A q \in Numbers(w) : q < e.seq) => Increasing(Append(w, e))
         /\ w # <<>> => Append(w, e)[1] = w[1]
         /\ w = <<>> => Append(w, e)[1] = e
<1>1. /\ Append(w, e) \in Seq(Entries) /\ Append(w, e) # <<>> /\ Len(w) \in Nat
      /\ DOMAIN w = 1..Len(w) /\ DOMAIN Append(w, e) = 1..(Len(w) + 1)
      /\ \A i \in 1..Len(w) : Append(w, e)[i] = w[i]
      /\ Append(w, e)[Len(w) + 1] = e
  OBVIOUS
<1>2. Numbers(Append(w, e)) = Numbers(w) \cup {e.seq}
  <2>1. ASSUME NEW q \in Numbers(Append(w, e)) PROVE q \in Numbers(w) \cup {e.seq}
    <3>1. PICK i \in 1..(Len(w) + 1) : q = Append(w, e)[i].seq
      BY <1>1, <2>1 DEF Numbers
    <3>2. i \in 1..Len(w) \/ i = Len(w) + 1
      BY <1>1
    <3> QED BY <1>1, <3>1, <3>2 DEF Numbers
  <2>2. ASSUME NEW q \in Numbers(w) PROVE q \in Numbers(Append(w, e))
    <3>1. PICK i \in 1..Len(w) : q = w[i].seq
      BY <1>1, <2>2 DEF Numbers
    <3>2. i \in 1..(Len(w) + 1)
      BY <1>1
    <3> QED BY <1>1, <3>1, <3>2 DEF Numbers
  <2>3. e.seq \in Numbers(Append(w, e))
    <3>1. Len(w) + 1 \in 1..(Len(w) + 1)
      BY <1>1
    <3> QED BY <1>1, <3>1 DEF Numbers
  <2> QED BY <2>1, <2>2, <2>3
<1>3. ASSUME Increasing(w), \A q \in Numbers(w) : q < e.seq PROVE Increasing(Append(w, e))
  <2> SUFFICES ASSUME NEW i \in 1..(Len(w) + 1), NEW j \in 1..(Len(w) + 1), i < j
               PROVE  Append(w, e)[i].seq < Append(w, e)[j].seq
    BY <1>1 DEF Increasing
  <2>1. i \in 1..Len(w)
    BY <1>1
  <2>2. CASE j \in 1..Len(w)
    BY <1>1, <1>3, <2>1, <2>2 DEF Increasing
  <2>3. CASE j = Len(w) + 1
    BY <1>1, <1>3, <2>1, <2>3 DEF Numbers
  <2> QED BY <1>1, <2>2, <2>3
<1>4. w # <<>> => Append(w, e)[1] = w[1]
  OBVIOUS
<1>5. w = <<>> => Append(w, e)[1] = e
  BY <1>1
<1> QED BY <1>1, <1>2, <1>3, <1>4, <1>5

LEMMA Read ==
  ASSUME NEW w \in Seq(Entries), w # <<>>, Increasing(w)
  PROVE  /\ Tail(w) \in Seq(Entries) /\ Len(Tail(w)) = Len(w) - 1
         /\ Head(w) \in Entries /\ Head(w) = w[1]
         /\ Increasing(Tail(w))
         /\ Numbers(w) = {Head(w).seq} \cup Numbers(Tail(w))
         /\ \A q \in Numbers(Tail(w)) : Head(w).seq < q
<1>1. /\ Tail(w) \in Seq(Entries) /\ Len(w) \in Nat \ {0} /\ Len(Tail(w)) = Len(w) - 1
      /\ DOMAIN w = 1..Len(w) /\ DOMAIN Tail(w) = 1..(Len(w) - 1)
      /\ \A i \in 1..(Len(w) - 1) : Tail(w)[i] = w[i + 1]
      /\ Head(w) = w[1] /\ w[1] \in Entries
  OBVIOUS
<1>2. Increasing(Tail(w))
  <2> SUFFICES ASSUME NEW i \in 1..(Len(w) - 1), NEW j \in 1..(Len(w) - 1), i < j
               PROVE  w[i + 1].seq < w[j + 1].seq
    BY <1>1 DEF Increasing
  <2>1. i + 1 \in 1..Len(w) /\ j + 1 \in 1..Len(w) /\ i + 1 < j + 1
    BY <1>1
  <2> QED BY <1>1, <2>1 DEF Increasing
<1>3. ASSUME NEW q \in Numbers(Tail(w)) PROVE q \in Numbers(w) /\ Head(w).seq < q
  <2>1. PICK i \in 1..(Len(w) - 1) : q = w[i + 1].seq
    BY <1>1, <1>3 DEF Numbers
  <2>2. i + 1 \in 1..Len(w) /\ 1 \in 1..Len(w) /\ 1 < i + 1
    BY <1>1
  <2> QED BY <1>1, <2>1, <2>2 DEF Numbers, Increasing
<1>4. ASSUME NEW q \in Numbers(w) PROVE q = Head(w).seq \/ q \in Numbers(Tail(w))
  <2>1. PICK i \in 1..Len(w) : q = w[i].seq
    BY <1>1, <1>4 DEF Numbers
  <2>2. CASE i = 1
    BY <1>1, <2>1, <2>2
  <2>3. CASE i # 1
    <3>1. i - 1 \in 1..(Len(w) - 1) /\ (i - 1) + 1 = i
      BY <1>1, <2>3
    <3> QED BY <1>1, <2>1, <3>1 DEF Numbers
  <2> QED BY <2>2, <2>3
<1>5. Head(w).seq \in Numbers(w)
  BY <1>1 DEF Numbers
<1> QED BY <1>1, <1>2, <1>3, <1>4, <1>5

-----------------------------------------------------------------------------
(* A non-empty set of numbers has a least one. *)
LEMMA LeastNumber ==
  ASSUME NEW S \in SUBSET Nat, S # {}
  PROVE  \E x \in S : \A y \in S : x <= y
<1> DEFINE Less == {p \in Nat \X Nat : p[1] < p[2]}
<1>1. IsWellFoundedOn(Less, Nat)
  BY NatLessThanWellFounded DEF OpToRel
<1>2. \E x \in S : \A y \in S : ~(<<y, x>> \in Less)
  BY <1>1, WFMin, Zenon
<1>3. PICK x \in S : \A y \in S : ~(<<y, x>> \in Less)
  BY <1>2
<1>4. ASSUME NEW y \in S PROVE x <= y
  <2>1. x \in Nat /\ y \in Nat
    OBVIOUS
  <2>2. y < x => <<y, x>> \in Less
    BY <2>1
  <2>3. QED
    BY <1>3, <2>1, <2>2
<1>5. QED
  BY <1>4

(* getBuffered answers with the tail of the buffer that is newer: nothing  *)
(* newer is left out, nothing older is in it, and the order is kept.       *)
LEMMA NewerIsATail ==
  ASSUME NEW since \in Nat, buffer \in Seq(Entries), Increasing(buffer)
  PROVE  \E k \in 0..Len(buffer) :
           /\ Newer(since) = (k + 1)..Len(buffer)
           /\ GetBuffered(since) = [n \in 1..(Len(buffer) - k) |-> buffer[k + n]]
<1> DEFINE L == Len(buffer)
           old == {i \in 1..L : buffer[i].seq <= since}
<1>1. L \in Nat /\ DOMAIN buffer = 1..L
  OBVIOUS
<1>a. \A i \in 1..L : buffer[i].seq \in Nat
  <2> SUFFICES ASSUME NEW i \in 1..L PROVE buffer[i].seq \in Nat
    OBVIOUS
  <2>1. buffer[i] \in Entries
    BY <1>1
  <2> QED BY <2>1, DeliveryAssumption DEF Entries, DeliveryAssumption
<1> HIDE DEF L
<1>2. \A i, j \in 1..L : i < j => buffer[i].seq < buffer[j].seq
  BY <1>1 DEF Increasing
<1>3. PICK k \in 0..L : Newer(since) = (k + 1)..L
  <2>2. CASE old = {}
    <3>1. Newer(since) = (0 + 1)..L
      BY <1>1, <1>a, <2>2 DEF Newer
    <3> QED BY <1>1, <3>1
  <2>3. CASE old # {}
    <3>1. PICK k \in old : \A i \in old : i <= k
      <4> DEFINE room == {L - i : i \in old}
      <4>1. room \in SUBSET Nat /\ room # {}
        BY <1>1, <2>3
      <4>2. PICK m \in room : \A n \in room : m <= n
        BY <4>1, LeastNumber
      <4>3. PICK k \in old : m = L - k
        BY <4>2
      <4>4. \A i \in old : L - k <= L - i
        BY <4>2, <4>3
      <4> QED BY <1>1, <4>3, <4>4
    <3>2. Newer(since) = (k + 1)..L
      <4>1. ASSUME NEW i \in 1..L PROVE buffer[i].seq > since <=> i \in (k + 1)..L
        <5>1. CASE i <= k
          <6>1. buffer[i].seq <= buffer[k].seq /\ buffer[k].seq <= since
            BY <1>1, <1>a, <1>2, <5>1, <3>1
          <6> QED BY <1>1, <1>a, <5>1, <6>1
        <5>2. CASE k < i
          BY <1>1, <1>a, <3>1, <5>2
        <5> QED BY <1>1, <3>1, <5>1, <5>2
      <4> QED BY <1>1, <3>1, <4>1 DEF Newer
    <3> QED BY <1>1, <3>1, <3>2
  <2> QED BY <2>2, <2>3
<1>4. Cardinality(Newer(since)) = L - k
  <2>1. k + 1 \in Int /\ L \in Int
    BY <1>1, <1>3
  <2>2. Cardinality((k + 1)..L) = IF k + 1 > L THEN 0 ELSE L - (k + 1) + 1
    BY <2>1, FS_Interval
  <2> QED BY <1>1, <1>3, <2>2
<1>5. ASSUME NEW n \in 1..(L - k)
      PROVE  (CHOOSE i \in Newer(since) : Rank(i, Newer(since)) = n) = k + n
  <2>1. \A i \in Newer(since) : Rank(i, Newer(since)) = i - k
    <3> SUFFICES ASSUME NEW i \in (k + 1)..L
                 PROVE  Cardinality({j \in (k + 1)..L : j <= i}) = i - k
      BY <1>3 DEF Rank
    <3>1. {j \in (k + 1)..L : j <= i} = (k + 1)..i
      BY <1>1, <1>3
    <3>2. i \in Int /\ k + 1 \in Int /\ k + 1 <= i
      BY <1>1, <1>3
    <3>3. Cardinality((k + 1)..i) = IF k + 1 > i THEN 0 ELSE i - (k + 1) + 1
      BY <3>2, FS_Interval
    <3>4. Cardinality((k + 1)..i) = i - k
      BY <1>1, <3>2, <3>3
    <3> QED BY <3>1, <3>4
  <2>2. k + n \in Newer(since) /\ k \in Nat /\ n \in Nat
    BY <1>1, <1>3
  <2>3. \A i \in Newer(since) : Rank(i, Newer(since)) = n <=> i = k + n
    BY <1>1, <1>3, <2>1, <2>2
  <2> QED BY <2>2, <2>3
<1>6. GetBuffered(since) = [n \in 1..(L - k) |-> buffer[k + n]]
  <2>1. Newer(since) = (k + 1)..L
    BY <1>3
  <2>2. GetBuffered(since) = [n \in 1..(L - k) |->
          buffer[CHOOSE i \in Newer(since) : Rank(i, Newer(since)) = n]]
    BY <1>4 DEF GetBuffered
  <2> QED BY <1>5, <2>2
<1> QED BY <1>3, <1>6 DEF L

-----------------------------------------------------------------------------
(* publish: the bus stays in order, and every subscriber gets the one new  *)
(* entry, whose number is above all others.                                *)
Published(subscribers) ==
  /\ lastSeq' \in 1..MaxSeq /\ lastSeq < lastSeq' /\ published' = published \cup {lastSeq'}
  /\ \E e \in Entries :
       /\ e.seq = lastSeq'
       /\ wire' = [c \in Clients |-> IF c \in subscribers THEN Append(wire[c], e) ELSE wire[c]]
  /\ buffer' \in Seq(Entries) /\ Len(buffer') <= MaxBuffer
  /\ published' \in SUBSET (1..MaxSeq) /\ BusInv'

LEMMA PublishFacts ==
  ASSUME DeliveryTypeOK, BusInv, NEW ev \in Events, NEW subscribers, Publish(ev, subscribers)
  PROVE  Published(subscribers)
<1> USE DeliveryAssumption DEF DeliveryAssumption
<1>1. PICK offset \in 1..MaxSeq :
        LET e == [seq |-> NextSeq(offset), ev |-> ev]
            b == Append(buffer, e)
        IN  /\ e.seq <= MaxSeq
            /\ lastSeq' = e.seq
            /\ buffer' = IF Len(b) > MaxBuffer THEN Tail(b) ELSE b
            /\ wire' = [c \in Clients |-> IF c \in subscribers THEN Append(wire[c], e)
                                                               ELSE wire[c]]
            /\ published' = published \cup {e.seq}
  BY DEF Publish
<1> DEFINE e == [seq |-> NextSeq(offset), ev |-> ev]
           b == Append(buffer, e)
<1>2. lastSeq \in 0..MaxSeq /\ buffer \in Seq(Entries) /\ Len(buffer) <= MaxBuffer
      /\ published \in SUBSET (1..MaxSeq)
  BY DEF DeliveryTypeOK
<1>3. NextSeq(offset) \in Nat /\ lastSeq < NextSeq(offset) /\ NextSeq(offset) <= MaxSeq
  BY <1>1, <1>2 DEF NextSeq
<1>4. e \in Entries /\ e.seq = lastSeq' /\ e.seq \in 1..MaxSeq /\ lastSeq < e.seq
  BY <1>1, <1>2, <1>3 DEF Entries
<1>5. wire' = [c \in Clients |-> IF c \in subscribers THEN Append(wire[c], e) ELSE wire[c]]
      /\ published' = published \cup {e.seq}
      /\ buffer' = IF Len(b) > MaxBuffer THEN Tail(b) ELSE b
  BY <1>1
<1> HIDE DEF e
<1>6. \A q \in Numbers(buffer) : q < e.seq
  <2>1. \A q \in published : q \in Nat /\ q < e.seq
    BY <1>2, <1>4 DEF BusInv
  <2> QED BY <2>1 DEF BusInv
<1>7. /\ b \in Seq(Entries) /\ b # <<>> /\ Numbers(b) = Numbers(buffer) \cup {e.seq}
      /\ Increasing(b)
      /\ buffer # <<>> => b[1] = buffer[1]
      /\ buffer = <<>> => b[1] = e
  BY <1>2, <1>4, <1>6, Appended DEF BusInv
<1>8. Len(b) <= MaxBuffer + 1
  BY <1>2, <1>4
<1>9. \A q \in published' : b[1].seq <= q => q \in Numbers(b)
  <2>1. CASE buffer = <<>>
    BY <1>4, <1>5, <1>7, <2>1 DEF BusInv
  <2>2. CASE buffer # <<>>
    BY <1>5, <1>7, <2>2 DEF BusInv
  <2> QED BY <2>1, <2>2
<1>10. \A q \in published' : q <= lastSeq'
  BY <1>1, <1>2, <1>3, <1>4, <1>5 DEF BusInv
<1>11. Numbers(b) \subseteq published' /\ published' \in SUBSET (1..MaxSeq)
  BY <1>2, <1>4, <1>5, <1>7 DEF BusInv
<1> HIDE DEF b
<1>12. buffer' \in Seq(Entries) /\ Len(buffer') <= MaxBuffer /\ BusInv'
  <2>1. CASE Len(b) <= MaxBuffer
    <3>1. buffer' = b
      BY <1>5, <1>7, <2>1
    <3> QED BY <1>7, <1>9, <1>10, <1>11, <2>1, <3>1 DEF BusInv
  <2>2. CASE Len(b) > MaxBuffer
    <3>1. buffer' = Tail(b)
      BY <1>5, <2>2
    <3>2. /\ Tail(b) \in Seq(Entries) /\ Len(Tail(b)) = Len(b) - 1 /\ Increasing(Tail(b))
          /\ Head(b) = b[1] /\ Head(b) \in Entries
          /\ Numbers(b) = {Head(b).seq} \cup Numbers(Tail(b))
          /\ \A q \in Numbers(Tail(b)) : Head(b).seq < q
      BY <1>7, Read
    <3>3. Tail(b) # <<>>
      <4>1. Len(b) \in Nat /\ MaxBuffer \in Nat \ {0}
        BY <1>7
      <4>2. Len(Tail(b)) # 0
        BY <2>2, <3>2, <4>1
      <4>3. Len(<<>>) = 0
        OBVIOUS
      <4> QED BY ONLY <4>2, <4>3
    <3>4. Tail(b)[1].seq \in Numbers(Tail(b))
      <4>1. 1 \in DOMAIN Tail(b)
        BY <3>2, <3>3
      <4> QED BY <4>1 DEF Numbers
    <3>5. ASSUME NEW q \in published', Tail(b)[1].seq <= q PROVE q \in Numbers(Tail(b))
      <4>1. b[1].seq < Tail(b)[1].seq
        BY <3>2, <3>4
      <4>2. b[1].seq \in Nat /\ Tail(b)[1].seq \in Nat /\ q \in Nat
        <5>1. Tail(b)[1] \in Entries
          BY <3>2, <3>3
        <5>2. Tail(b)[1].seq \in 1..MaxSeq /\ b[1].seq \in 1..MaxSeq
          BY <3>2, <5>1 DEF Entries
        <5>3. q \in 1..MaxSeq
          BY <1>11
        <5>4. \A n \in 1..MaxSeq : n \in Nat
          OBVIOUS
        <5> QED BY <5>2, <5>3, <5>4, Zenon
      <4>3. q \in Numbers(b) /\ q # b[1].seq
        <5>1. b[1].seq <= q /\ b[1].seq # q
          <6>1. \A k, m, n \in Nat : k < m /\ m <= n => k <= n /\ k # n
            OBVIOUS
          <6> QED BY <3>5, <4>1, <4>2, <6>1, Zenon
        <5> QED BY <1>9, <5>1
      <4> QED BY <3>2, <4>3
    <3>6. Len(Tail(b)) <= MaxBuffer
      <4>1. Len(b) \in Nat
        BY <1>7
      <4> QED BY <1>8, <3>2, <4>1
    <3>7. Numbers(Tail(b)) \subseteq published'
      BY <1>11, <3>2
    <3> QED BY <1>10, <3>1, <3>2, <3>3, <3>5, <3>6, <3>7 DEF BusInv
  <2>3. Len(b) \in Nat
    BY <1>7
  <2> QED BY <2>1, <2>2, <2>3
<1> QED BY <1>1, <1>2, <1>3, <1>4, <1>5, <1>11, <1>12 DEF Published

(* An event to all streams that are there, and none of them moves.         *)
LEMMA PublishKeeps ==
  ASSUME DeliveryInv, Published(connected), UNCHANGED <<connected, from, got>>
  PROVE  BusInv' /\ LinkInv' /\ wire' \in [Clients -> Seq(Entries)]
<1> USE DeliveryAssumption DEF DeliveryAssumption
<1>1. PICK e \in Entries :
        /\ e.seq = lastSeq'
        /\ wire' = [c \in Clients |-> IF c \in connected THEN Append(wire[c], e) ELSE wire[c]]
  BY DEF Published
<1>2. /\ wire \in [Clients -> Seq(Entries)] /\ connected \in SUBSET Clients
      /\ lastSeq \in Nat /\ lastSeq' \in Nat /\ lastSeq < lastSeq'
      /\ published \in SUBSET Nat /\ published' = published \cup {lastSeq'}
      /\ from \in [Clients -> Nat] /\ got \in [Clients -> SUBSET Nat]
  <2>1. 1..MaxSeq \subseteq Nat /\ 0..MaxSeq \subseteq Nat
    OBVIOUS
  <2> QED BY <2>1 DEF DeliveryInv, DeliveryTypeOK, Published
<1>3. wire' \in [Clients -> Seq(Entries)]
  BY <1>1, <1>2
<1>4. ASSUME NEW c \in connected
      PROVE  /\ wire'[c] = Append(wire[c], e)
             /\ Numbers(wire'[c]) = Numbers(wire[c]) \cup {lastSeq'}
             /\ from'[c] <= lastSeq'
             /\ {q \in published' : q > from'[c]} = got'[c] \cup Numbers(wire'[c])
             /\ Increasing(wire'[c])
             /\ \A q \in got'[c], p \in Numbers(wire'[c]) : q < p
  <2>1. wire'[c] = Append(wire[c], e) /\ wire[c] \in Seq(Entries) /\ c \in Clients
    BY <1>1, <1>2
  <2>2. {q \in published : q > from[c]} = got[c] \cup Numbers(wire[c])
    BY DEF DeliveryInv, LinkInv
  <2>3. \A q \in got[c] \cup Numbers(wire[c]) : q \in Nat /\ q < lastSeq'
    BY <1>2, <2>2 DEF DeliveryInv, BusInv
  <2>4. Numbers(wire'[c]) = Numbers(wire[c]) \cup {lastSeq'} /\ Increasing(wire'[c])
    BY <1>1, <2>1, <2>3, Appended DEF DeliveryInv, LinkInv
  <2>5. from[c] < lastSeq' /\ from[c] \in Nat
    BY <1>2, <2>1 DEF DeliveryInv, LinkInv
  <2>6. {q \in published' : q > from[c]} = got[c] \cup Numbers(wire[c]) \cup {lastSeq'}
    BY <1>2, <2>2, <2>5
  <2>7. \A q \in got[c], p \in Numbers(wire[c]) : q < p
    BY DEF DeliveryInv, LinkInv
  <2> QED BY <1>2, <2>1, <2>3, <2>4, <2>5, <2>6, <2>7
<1>5. \A c \in Clients \ connected : wire'[c] = <<>>
  BY <1>1 DEF DeliveryInv, LinkInv
<1> QED BY <1>3, <1>4, <1>5 DEF LinkInv, Published

-----------------------------------------------------------------------------
(* The four variables that the streams do not depend on keep their types.  *)
OthersOK == /\ running \in BOOLEAN
            /\ status \in [Sessions -> {"none", "active", "paused", "dead", "gone"}]
            /\ deadSessions \in [Clients -> SUBSET Sessions]
            /\ inflight \in SUBSET Requests

LEMMA OthersKept == ASSUME DeliveryTypeOK, DeliveryNext PROVE OthersOK'
<1> USE DEF DeliveryTypeOK
<1>1. ASSUME NEW c \in Clients, NEW s \in Sessions,
             NEW op \in {"create", "resume", "resume_from_pause", "close"},
             NEW where \in {"worker", "reply"}
      PROVE  Request(c, s, op, where) \in Requests
  BY DEF Request, Requests
<1>2. ASSUME NEW c \in Clients, ClientStep(c) PROVE OthersOK'
  <2>1. ASSUME NEW since \in Sinces, Connect(c, since) PROVE OthersOK'
    BY <2>1 DEF Connect, OthersOK
  <2>2. CASE Drop(c) \/ Receive(c)
    BY <2>2 DEF Drop, Receive, OthersOK
  <2>3. CASE McpRestarts(c)
    <3>1. \A r \in Requests : [r EXCEPT !.c = "nobody"] \in Requests
      BY DEF Requests
    <3>2. inflight' \subseteq Requests
      BY <2>3, <3>1 DEF McpRestarts
    <3> QED BY <2>3, <3>2 DEF McpRestarts, OthersOK
  <2>4. ASSUME NEW s \in Sessions, CreateSession(c, s) PROVE OthersOK'
    BY <1>1, <2>4 DEF CreateSession, OthersOK
  <2>5. ASSUME NEW s \in Sessions, CloseSession(c, s) PROVE OthersOK'
    BY <1>1, <2>5 DEF CloseSession, OthersOK
  <2>6. ASSUME NEW s \in Sessions, Pause(c, s) PROVE OthersOK'
    BY <2>6 DEF Pause, OthersOK
  <2>7. ASSUME NEW s \in Sessions, ResumeSession(c, s) PROVE OthersOK'
    BY <1>1, <2>7 DEF ResumeSession, OthersOK
  <2> QED BY <1>2, <2>1, <2>2, <2>3, <2>4, <2>5, <2>6, <2>7 DEF ClientStep
<1>3. ASSUME NEW r \in inflight, Resumed(r) PROVE OthersOK'
  <2>1. r \in Requests /\ (r.c \in Clients => [r EXCEPT !.at = "reply"] \in Requests)
    BY DEF Requests
  <2>2. inflight' \subseteq Requests
    BY <1>3, <2>1 DEF Resumed
  <2> QED BY <1>3, <2>2 DEF Resumed, OthersOK
<1>4. ASSUME NEW r \in inflight, ResumeFails(r) PROVE OthersOK'
  BY <1>4 DEF ResumeFails, OthersOK
<1>5. ASSUME NEW r \in inflight, Reply(r) PROVE OthersOK'
  BY <1>5 DEF Reply, OthersOK
<1>6. ASSUME NEW s \in Sessions, SessionDies(s) PROVE OthersOK'
  BY <1>6 DEF SessionDies, OthersOK
<1>7. CASE OtherEvent \/ WorkerStops \/ WorkerStarts
  BY <1>7 DEF OtherEvent, WorkerStops, WorkerStarts, OthersOK
<1> QED BY <1>2, <1>3, <1>4, <1>5, <1>6, <1>7 DEF DeliveryNext

(* What the bus and the streams keep: their types and the two invariants.  *)
StreamsOK == /\ lastSeq \in 0..MaxSeq
             /\ buffer \in Seq(Entries) /\ Len(buffer) <= MaxBuffer
             /\ connected \in SUBSET Clients
             /\ wire \in [Clients -> Seq(Entries)]
             /\ published \in SUBSET (1..MaxSeq)
             /\ from \in [Clients -> Nat] /\ got \in [Clients -> SUBSET (1..MaxSeq)]
             /\ BusInv /\ LinkInv

LEMMA EventKeeps ==
  ASSUME DeliveryInv, NEW ev \in Events, Publish(ev, connected), UNCHANGED <<connected, from, got>>
  PROVE  StreamsOK'
<1>1. Published(connected)
  BY PublishFacts DEF DeliveryInv
<1>2. lastSeq' \in 0..MaxSeq
  BY <1>1, DeliveryAssumption DEF Published, DeliveryAssumption
<1> QED BY <1>1, <1>2, PublishKeeps DEF StreamsOK, DeliveryInv, DeliveryTypeOK, Published

LEMMA QuietKeeps == ASSUME DeliveryInv, UNCHANGED <<bus, link>> PROVE StreamsOK'
BY DEF DeliveryInv, DeliveryTypeOK, StreamsOK, bus, link, BusInv, LinkInv

(* A stream ends: nothing is on its way on it.                             *)
LEMMA EndKeeps ==
  ASSUME DeliveryInv, NEW c \in Clients, connected' = connected \ {c},
         wire' = [wire EXCEPT ![c] = <<>>], UNCHANGED <<bus, from, got>>
  PROVE  StreamsOK'
<1>1. \A d \in Clients : wire'[d] = IF d = c THEN <<>> ELSE wire[d]
  BY DEF DeliveryInv, DeliveryTypeOK
<1>2. wire' \in [Clients -> Seq(Entries)]
  BY DEF DeliveryInv, DeliveryTypeOK
<1>3. \A d \in connected' : d \in Clients /\ d # c /\ d \in connected /\ wire'[d] = wire[d]
  BY <1>1 DEF DeliveryInv, DeliveryTypeOK
<1>4. LinkInv'
  BY <1>1, <1>3 DEF DeliveryInv, LinkInv, bus
<1> QED BY <1>2, <1>4 DEF DeliveryInv, DeliveryTypeOK, StreamsOK, BusInv, bus

LEMMA ReceiveKeeps == ASSUME DeliveryInv, NEW c \in Clients, Receive(c) PROVE StreamsOK'
<1>1. /\ c \in connected /\ wire[c] # <<>> /\ wire[c] \in Seq(Entries)
      /\ wire' = [wire EXCEPT ![c] = Tail(wire[c])]
      /\ got' = [got EXCEPT ![c] = got[c] \cup {Head(wire[c]).seq}]
      /\ UNCHANGED <<bus, connected, from>>
  BY DEF Receive, DeliveryInv, DeliveryTypeOK
<1>2. /\ Tail(wire[c]) \in Seq(Entries) /\ Head(wire[c]) \in Entries
      /\ Increasing(Tail(wire[c]))
      /\ Numbers(wire[c]) = {Head(wire[c]).seq} \cup Numbers(Tail(wire[c]))
      /\ \A q \in Numbers(Tail(wire[c])) : Head(wire[c]).seq < q
  BY <1>1, Read DEF DeliveryInv, LinkInv
<1>3. Head(wire[c]).seq \in 1..MaxSeq
  BY <1>2 DEF Entries
<1>4. /\ wire' \in [Clients -> Seq(Entries)] /\ got' \in [Clients -> SUBSET (1..MaxSeq)]
      /\ wire'[c] = Tail(wire[c]) /\ got'[c] = got[c] \cup {Head(wire[c]).seq}
      /\ \A d \in Clients \ {c} : wire'[d] = wire[d] /\ got'[d] = got[d]
  BY <1>1, <1>2, <1>3 DEF DeliveryInv, DeliveryTypeOK
<1>5. ASSUME NEW d \in connected
      PROVE  /\ {q \in published : q > from[d]} = got'[d] \cup Numbers(wire'[d])
             /\ Increasing(wire'[d])
             /\ \A q \in got'[d], p \in Numbers(wire'[d]) : q < p
  <2>1. CASE d = c
    BY <1>2, <1>4, <2>1 DEF DeliveryInv, LinkInv
  <2>2. CASE d # c
    BY <1>4, <2>2 DEF DeliveryInv, LinkInv, DeliveryTypeOK
  <2> QED BY <2>1, <2>2
<1>6. LinkInv'
  BY <1>1, <1>4, <1>5 DEF DeliveryInv, LinkInv, bus
<1> QED BY <1>1, <1>4, <1>6 DEF DeliveryInv, DeliveryTypeOK, StreamsOK, BusInv, bus

(* A replay: no gap, so the buffer still has all that is asked for.        *)
LEMMA ReplayKeeps ==
  ASSUME DeliveryInv, NEW c \in Clients \ connected, NEW since \in Nat, ~HasGap(since),
         connected' = connected \cup {c}, got' = [got EXCEPT ![c] = {}],
         wire' = [wire EXCEPT ![c] = GetBuffered(since)],
         from' = [from EXCEPT ![c] = IF since < lastSeq THEN since ELSE lastSeq],
         UNCHANGED bus
  PROVE  StreamsOK'
<1> USE DeliveryAssumption DEF DeliveryAssumption
<1>1. /\ buffer \in Seq(Entries) /\ Increasing(buffer) /\ lastSeq \in Nat
      /\ published \in SUBSET Nat /\ \A q \in published : q <= lastSeq
  BY DEF DeliveryInv, DeliveryTypeOK, BusInv
<1> DEFINE w == GetBuffered(since)
           L == Len(buffer)
<1>2. PICK k \in 0..L : /\ Newer(since) = (k + 1)..L
                         /\ w = [n \in 1..(L - k) |-> buffer[k + n]]
  BY <1>1, NewerIsATail
<1>3. L \in Nat /\ DOMAIN buffer = 1..L /\ \A i \in 1..L : buffer[i] \in Entries
  BY <1>1
<1> HIDE DEF w, L
<1>4. \A n \in 1..(L - k) : k + n \in 1..L /\ w[n] = buffer[k + n]
  BY <1>2, <1>3
<1>5. w \in Seq(Entries) /\ DOMAIN w = 1..(L - k)
  <2>1. L - k \in Nat
    BY <1>2, <1>3
  <2> QED BY <1>2, <1>3, <1>4, <2>1
<1>6. Increasing(w)
  <2> SUFFICES ASSUME NEW i \in 1..(L - k), NEW j \in 1..(L - k), i < j
               PROVE  w[i].seq < w[j].seq
    BY <1>5 DEF Increasing
  <2>1. k + i < k + j
    BY <1>2, <1>3
  <2> QED BY <1>1, <1>3, <1>4, <2>1 DEF Increasing
<1>7. Numbers(w) = {q \in Numbers(buffer) : q > since}
  <2>1. ASSUME NEW q \in Numbers(w) PROVE q \in Numbers(buffer) /\ q > since
    <3>1. PICK n \in 1..(L - k) : q = buffer[k + n].seq
      BY <1>4, <1>5, <2>1 DEF Numbers
    <3>2. k + n \in 1..L /\ k + n \in (k + 1)..L
      BY <1>2, <1>3, <1>4
    <3> QED BY <1>2, <1>3, <3>1, <3>2 DEF Numbers, Newer
  <2>2. ASSUME NEW q \in Numbers(buffer), q > since PROVE q \in Numbers(w)
    <3>1. PICK i \in 1..L : q = buffer[i].seq
      BY <1>3, <2>2 DEF Numbers
    <3>2. i \in (k + 1)..L
      BY <1>2, <1>3, <2>2, <3>1 DEF Newer
    <3>3. i - k \in 1..(L - k) /\ k + (i - k) = i
      BY <1>2, <1>3, <3>2
    <3> QED BY <1>4, <1>5, <3>1, <3>3 DEF Numbers
  <2> QED BY <2>1, <2>2
<1>8. ASSUME NEW q \in published, q > since PROVE q \in Numbers(buffer)
  <2>1. buffer # <<>>
    BY DEF DeliveryInv, BusInv
  <2>2. 1 \in 1..L
    BY <1>3, <2>1 DEF L
  <2>3. buffer[1].seq \in Nat
    BY <1>3, <2>2 DEF Entries
  <2>4. buffer[1].seq <= q
    BY <1>1, <1>8, <2>1, <2>3 DEF HasGap
  <2> QED BY <2>1, <2>4 DEF DeliveryInv, BusInv
<1>9. /\ wire'[c] = w /\ got'[c] = {}
      /\ from'[c] = IF since < lastSeq THEN since ELSE lastSeq
      /\ \A d \in Clients \ {c} : wire'[d] = wire[d] /\ got'[d] = got[d] /\ from'[d] = from[d]
      /\ wire' \in [Clients -> Seq(Entries)] /\ got' \in [Clients -> SUBSET (1..MaxSeq)]
      /\ from' \in [Clients -> Nat] /\ connected' \in SUBSET Clients
  BY <1>1, <1>5 DEF DeliveryInv, DeliveryTypeOK, w
<1>10. {q \in published : q > from'[c]} = Numbers(w) /\ from'[c] <= lastSeq
  <2>1. ASSUME NEW q \in published PROVE q > from'[c] <=> q > since
    BY <1>1, <1>9
  <2>2. Numbers(buffer) \subseteq published
    BY DEF DeliveryInv, BusInv
  <2>3. {q \in published : q > from'[c]} = {q \in published : q > since}
    BY <2>1
  <2>4. {q \in published : q > since} = Numbers(w)
    BY <1>7, <1>8, <2>2
  <2>5. from'[c] <= lastSeq
    BY <1>1, <1>9
  <2> QED BY <2>3, <2>4, <2>5
<1>11. ASSUME NEW d \in connected'
       PROVE  /\ from'[d] <= lastSeq
              /\ {q \in published : q > from'[d]} = got'[d] \cup Numbers(wire'[d])
              /\ Increasing(wire'[d])
              /\ \A q \in got'[d], p \in Numbers(wire'[d]) : q < p
  <2>1. CASE d = c
    BY <1>6, <1>9, <1>10, <2>1
  <2>2. CASE d # c
    <3>1. d \in connected /\ d \in Clients \ {c}
      BY <1>9, <2>2
    <3> QED BY <1>9, <3>1 DEF DeliveryInv, LinkInv
  <2> QED BY <2>1, <2>2
<1>12. LinkInv'
  BY <1>9, <1>11 DEF DeliveryInv, LinkInv, bus
<1> QED BY <1>9, <1>12 DEF DeliveryInv, DeliveryTypeOK, StreamsOK, BusInv, bus

(* A gap: the stream begins with resync_required.                          *)
LEMMA ResyncKeeps ==
  ASSUME DeliveryInv, NEW c \in Clients \ connected, Publish("resync_required", connected \cup {c}),
         connected' = connected \cup {c}, got' = [got EXCEPT ![c] = {}],
         from' = [from EXCEPT ![c] = lastSeq' - 1]
  PROVE  StreamsOK'
<1>1. Published(connected \cup {c})
  BY PublishFacts DEF DeliveryInv, Events
<1>2. PICK e \in Entries :
        /\ e.seq = lastSeq'
        /\ wire' = [d \in Clients |-> IF d \in connected \cup {c} THEN Append(wire[d], e)
                                                                ELSE wire[d]]
  BY <1>1 DEF Published
<1>3. /\ wire \in [Clients -> Seq(Entries)] /\ connected \in SUBSET Clients
      /\ lastSeq \in Nat /\ lastSeq' \in Nat /\ lastSeq < lastSeq'
      /\ published \in SUBSET Nat /\ published' = published \cup {lastSeq'}
      /\ \A q \in published : q <= lastSeq
      /\ from \in [Clients -> Nat] /\ got \in [Clients -> SUBSET (1..MaxSeq)]
  <2>1. 1..MaxSeq \subseteq Nat /\ 0..MaxSeq \subseteq Nat
    BY DeliveryAssumption DEF DeliveryAssumption
  <2> QED BY <1>1, <2>1 DEF DeliveryInv, DeliveryTypeOK, Published, BusInv
<1> DEFINE base == lastSeq' - 1
<1>n. /\ lastSeq \in Nat /\ lastSeq' \in Nat /\ lastSeq < lastSeq'
      /\ base \in Nat /\ lastSeq <= base /\ base < lastSeq'
  <2> DEFINE n == lastSeq'
  <2>1. lastSeq \in Nat /\ n \in Nat /\ lastSeq < n
    BY <1>3
  <2> HIDE DEF n
  <2>2. lastSeq \in Nat /\ n \in Nat /\ lastSeq < n /\ n - 1 \in Nat /\ lastSeq <= n - 1 /\ n - 1 < n
    BY <2>1
  <2> QED BY <2>2 DEF n
<1> HIDE DEF base
<1>o. from' = [from EXCEPT ![c] = base]
  BY DEF base
<1>4. /\ wire' \in [Clients -> Seq(Entries)] /\ got' \in [Clients -> SUBSET (1..MaxSeq)]
      /\ from' \in [Clients -> Nat] /\ connected' \in SUBSET Clients
      /\ from'[c] = base /\ got'[c] = {}
      /\ \A d \in Clients \ {c} : from'[d] = from[d] /\ got'[d] = got[d]
  <2>1. \A d \in Clients : Append(wire[d], e) \in Seq(Entries) /\ wire[d] \in Seq(Entries)
    BY <1>3
  <2>2. wire' \in [Clients -> Seq(Entries)]
    BY <1>2, <2>1
  <2> QED BY <1>3, <1>n, <1>o, <2>2
<1>5. ASSUME NEW d \in connected'
      PROVE  /\ from'[d] <= lastSeq'
             /\ {q \in published' : q > from'[d]} = got'[d] \cup Numbers(wire'[d])
             /\ Increasing(wire'[d])
             /\ \A q \in got'[d], p \in Numbers(wire'[d]) : q < p
  <2>1. wire'[d] = Append(wire[d], e) /\ wire[d] \in Seq(Entries) /\ d \in Clients
    BY <1>2, <1>3, <1>4
  <2>2. CASE d = c
    <3>1. wire[d] = <<>>
      BY <2>2 DEF DeliveryInv, LinkInv
    <3>2. Numbers(wire[d]) = {} /\ Increasing(wire[d])
      BY <3>1 DEF Numbers, Increasing
    <3>3. Numbers(wire'[d]) = {lastSeq'} /\ Increasing(wire'[d])
      BY <1>2, <2>1, <3>2, Appended
    <3>4. from'[d] = base /\ got'[d] = {}
      BY <1>4, <2>2
    <3>5. \A q \in published : q \in Nat /\ q <= base
      BY <1>3, <1>n
    <3>6. base <= lastSeq' /\ from'[d] <= lastSeq'
      <4>1. base <= lastSeq'
        BY <1>n
      <4> QED BY <3>4, <4>1, Zenon
    <3>7. {q \in published' : q > from'[d]} = {lastSeq'}
      <4>1. \A q \in published : ~(q > base)
        BY <1>n, <3>5
      <4>2. lastSeq' > base
        BY <1>n
      <4>3. {q \in published \cup {lastSeq'} : q > base} = {lastSeq'}
        BY <4>1, <4>2, Zenon
      <4> QED BY <1>3, <3>4, <4>3, Zenon
    <3> QED BY <3>3, <3>4, <3>6, <3>7
  <2>3. CASE d # c
    <3>0. d \in connected /\ from'[d] = from[d] /\ got'[d] = got[d]
      BY <1>4, <2>1, <2>3
    <3>1. {q \in published : q > from[d]} = got[d] \cup Numbers(wire[d])
      BY <3>0 DEF DeliveryInv, LinkInv
    <3>2. \A q \in got[d] \cup Numbers(wire[d]) : q \in Nat /\ q < lastSeq'
      BY <1>3, <3>1
    <3>3. Numbers(wire'[d]) = Numbers(wire[d]) \cup {lastSeq'} /\ Increasing(wire'[d])
      BY <1>2, <2>1, <3>0, <3>2, Appended DEF DeliveryInv, LinkInv
    <3>4. from[d] < lastSeq' /\ from[d] \in Nat
      BY <1>3, <2>1, <3>0 DEF DeliveryInv, LinkInv
    <3>5. {q \in published' : q > from[d]} = got[d] \cup Numbers(wire[d]) \cup {lastSeq'}
      BY <1>3, <3>1, <3>4
    <3>6. \A q \in got[d], p \in Numbers(wire[d]) : q < p
      BY <3>0 DEF DeliveryInv, LinkInv
    <3>7. from[d] <= lastSeq'
      BY <1>3, <3>4
    <3>8. {q \in published' : q > from'[d]} = got'[d] \cup Numbers(wire'[d])
      BY <3>0, <3>3, <3>5
    <3>9. \A q \in got[d], p \in Numbers(wire'[d]) : q < p
      BY <3>2, <3>3, <3>6
    <3> QED BY <3>0, <3>3, <3>7, <3>8, <3>9
  <2> QED BY <2>2, <2>3
<1>6. \A d \in Clients \ connected' : wire'[d] = <<>>
  BY <1>2 DEF DeliveryInv, LinkInv
<1>7. LinkInv'
  BY <1>5, <1>6 DEF LinkInv
<1>8. lastSeq' \in 0..MaxSeq
  BY <1>1, DeliveryAssumption DEF Published, DeliveryAssumption
<1> QED BY <1>1, <1>4, <1>7, <1>8 DEF StreamsOK, Published

LEMMA StopKeeps == ASSUME DeliveryInv, WorkerStops PROVE StreamsOK'
<1> USE DeliveryAssumption DEF DeliveryAssumption
<1>1. /\ lastSeq' = 0 /\ buffer' = <<>> /\ published' = {} /\ connected' = {}
      /\ wire' = [c \in Clients |-> <<>>] /\ UNCHANGED <<from, got>>
  BY DEF WorkerStops
<1>2. BusInv'
  BY <1>1 DEF BusInv, Increasing, Numbers
<1>3. LinkInv'
  BY <1>1 DEF LinkInv
<1>4. lastSeq' \in 0..MaxSeq /\ buffer' \in Seq(Entries) /\ Len(buffer') <= MaxBuffer
      /\ wire' \in [Clients -> Seq(Entries)]
  BY <1>1
<1> QED BY <1>1, <1>2, <1>3, <1>4 DEF StreamsOK, DeliveryInv, DeliveryTypeOK

-----------------------------------------------------------------------------
(* The invariant of the bus and the streams: inductive, for every size of  *)
(* the buffer and every number of clients (event-bus.ts, events.routes.ts).*)
THEOREM DeliveryCorrect == DeliverySpec => []DeliveryInv
<1>1. DeliveryInit => DeliveryInv
  <2> SUFFICES ASSUME DeliveryInit PROVE DeliveryInv
    OBVIOUS
  <2> USE DeliveryAssumption DEF DeliveryAssumption, DeliveryInit
  <2>1. DeliveryTypeOK
    <3>1. /\ lastSeq \in 0..MaxSeq /\ buffer \in Seq(Entries) /\ Len(buffer) <= MaxBuffer
          /\ published \in SUBSET (1..MaxSeq)
      OBVIOUS
    <3>2. /\ wire \in [Clients -> Seq(Entries)] /\ from \in [Clients -> Nat]
          /\ got \in [Clients -> SUBSET (1..MaxSeq)] /\ connected \in SUBSET Clients
      OBVIOUS
    <3>3. /\ running \in BOOLEAN /\ deadSessions \in [Clients -> SUBSET Sessions]
          /\ status \in [Sessions -> {"none", "active", "paused", "dead", "gone"}]
          /\ inflight \in SUBSET Requests
      OBVIOUS
    <3> QED BY <3>1, <3>2, <3>3 DEF DeliveryTypeOK
  <2>2. BusInv
    BY DEF BusInv, Increasing, Numbers
  <2>3. LinkInv
    BY DEF LinkInv
  <2> QED BY <2>1, <2>2, <2>3 DEF DeliveryInv
<1>2. DeliveryInv /\ [DeliveryNext]_deliveryVars => DeliveryInv'
  <2> SUFFICES ASSUME DeliveryInv, DeliveryNext PROVE DeliveryInv'
    BY DEF deliveryVars, bus, link, DeliveryInv, DeliveryTypeOK, BusInv, LinkInv
  <2>1. OthersOK'
    BY OthersKept DEF DeliveryInv
  <2>2. \A ev \in {"other", "resync_required"} \cup Sessions : ev \in Events
    BY DEF Events
  <2>3. ASSUME NEW c \in Clients, ClientStep(c) PROVE StreamsOK'
    <3>1. ASSUME NEW since \in Sinces, Connect(c, since) PROVE StreamsOK'
      <4>1. since \in Nat /\ c \in Clients \ connected
        BY <3>1, DeliveryAssumption DEF Connect, DeliveryAssumption
      <4>2. CASE HasGap(since)
        BY <3>1, <4>1, <4>2, ResyncKeeps DEF Connect
      <4>3. CASE ~HasGap(since)
        BY <3>1, <4>1, <4>3, ReplayKeeps DEF Connect
      <4> QED BY <4>2, <4>3
    <3>2. CASE Drop(c) \/ McpRestarts(c)
      BY <3>2, EndKeeps DEF Drop, McpRestarts
    <3>3. CASE Receive(c)
      BY <3>3, ReceiveKeeps
    <3>4. ASSUME NEW s \in Sessions, CreateSession(c, s) \/ CloseSession(c, s) \/ ResumeSession(c, s)
          PROVE  StreamsOK'
      BY <3>4, QuietKeeps DEF CreateSession, CloseSession, ResumeSession
    <3>5. ASSUME NEW s \in Sessions, Pause(c, s) PROVE StreamsOK'
      BY <3>5, <2>2, EventKeeps DEF Pause
    <3> QED BY <2>3, <3>1, <3>2, <3>3, <3>4, <3>5 DEF ClientStep
  <2>4. ASSUME NEW r \in inflight, Resumed(r) PROVE StreamsOK'
    <3>1. CASE r.op = "resume_from_pause"
      BY <2>2, <2>4, <3>1, EventKeeps DEF Resumed
    <3>2. CASE r.op # "resume_from_pause"
      BY <2>4, <3>2, QuietKeeps DEF Resumed
    <3> QED BY <3>1, <3>2
  <2>5. ASSUME NEW r \in inflight, ResumeFails(r) \/ Reply(r) PROVE StreamsOK'
    BY <2>5, QuietKeeps DEF ResumeFails, Reply
  <2>6. ASSUME NEW s \in Sessions, SessionDies(s) PROVE StreamsOK'
    BY <2>2, <2>6, EventKeeps DEF SessionDies
  <2>7. ASSUME OtherEvent \/ WorkerStarts PROVE StreamsOK'
    BY <2>2, <2>7, EventKeeps DEF OtherEvent, WorkerStarts
  <2>8. ASSUME WorkerStops PROVE StreamsOK'
    BY <2>8, StopKeeps
  <2>9. StreamsOK'
    BY <2>3, <2>4, <2>5, <2>6, <2>7, <2>8 DEF DeliveryNext
  <2> QED BY <2>1, <2>9 DEF DeliveryInv, DeliveryTypeOK, StreamsOK, OthersOK
<1> QED BY <1>1, <1>2, PTL DEF DeliverySpec

(* What the bus has published since the number a stream asked for has been *)
(* read from it or is on its way on it, and nothing else is                *)
(* (events.routes.ts:36-66).                                               *)
THEOREM NoEventIsMissed == DeliverySpec => []NothingMissed
<1>1. DeliveryInv => NothingMissed
  BY DEF DeliveryInv, LinkInv, NothingMissed, Numbers, OnWire
<1> QED BY <1>1, DeliveryCorrect, PTL

(* The numbers of a stream grow from one event to the next, read or not    *)
(* (event-bus.ts:4-6).                                                     *)
THEOREM StreamsAreInOrder == DeliverySpec => []NumbersGrow
<1>1. DeliveryInv => NumbersGrow
  BY DEF DeliveryInv, LinkInv, NumbersGrow, Numbers, OnWire, Increasing
<1> QED BY <1>1, DeliveryCorrect, PTL

-----------------------------------------------------------------------------
(* The calls of the client.                                                *)

(* A client that has just been made satisfies the invariant.               *)
LEMMA InitClient == Init => ClientInv
<1> USE ClientAssumption DEF ClientAssumption, Init, Unsent
<1>1. ASSUME Init PROVE TypeOK
  <2>1. /\ state \in {"healthy", "degraded", "down"} /\ shuttingDown \in BOOLEAN
        /\ up \in BOOLEAN
    BY <1>1
  <2>6. /\ slowStreak \in 0..2 /\ fastStreak \in 0..(RecoveryStreak - 1) /\ gen \in 1..MaxGen
        /\ fastRun \in 0..RecoveryStreak
    BY <1>1
  <2>2. fate \in [Calls -> [{1, 2} -> Fates]]
    BY <1>1 DEF Fates
  <2>3. attempt \in [Calls -> 0..2] /\ result \in [Calls -> Results]
    BY <1>1 DEF Results
  <2>4. at \in [Calls -> {"idle", "wait", "probing", "found", "ready", "sent", "ended"}]
        /\ tried \in [Calls -> BOOLEAN]
    BY <1>1
  <2>5. jobs \in SUBSET (Calls \X {1, 2}) /\ runs \in SUBSET (Calls \X {1, 2})
        /\ trouble \in SUBSET Calls
    BY <1>1
  <2> QED BY <2>1, <2>2, <2>3, <2>4, <2>5, <2>6 DEF TypeOK
<1>2. ASSUME Init PROVE Counted /\ Numbered /\ SecondForLost /\ RefusedIsUndone /\ TroubleIsNoted
  BY <1>2 DEF Counted, Numbered, SecondForLost, RefusedIsUndone, TroubleIsNoted, Waiting
<1> QED BY <1>1, <1>2 DEF ClientInv

(* A sending is numbered, new to the worker, and lost when it does not run.*)
Sent(c) ==
  /\ attempt[c] \in 0..1 /\ attempt' = [attempt EXCEPT ![c] = attempt[c] + 1]
  /\ at' = [at EXCEPT ![c] = "sent"] /\ UNCHANGED <<tried, result, up, gen, runs>>
  /\ fate' \in [Calls -> [{1, 2} -> Fates]] /\ jobs' \in SUBSET (Calls \X {1, 2})
  /\ \A d \in Calls, n \in {1, 2} :
       fate'[d][n] = IF ~up /\ d = c /\ n = attempt[c] + 1 THEN "broken" ELSE fate[d][n]
  /\ \A d \in Calls, n \in {1, 2} :
       <<d, n>> \in jobs' <=> (<<d, n>> \in jobs \/ (up /\ d = c /\ n = attempt[c] + 1))

LEMMA SendFacts == ASSUME ClientInv, NEW c \in Calls, at[c] \in {"idle", "ready"}, Send(c)
                   PROVE  Sent(c)
<1> USE DEF ClientInv
<1>1. attempt[c] \in 0..1
  BY DEF TypeOK, Counted, Waiting
<1>2. <<c, attempt[c] + 1>> \in Calls \X {1, 2} /\ fate \in [Calls -> [{1, 2} -> Fates]]
      /\ jobs \in SUBSET (Calls \X {1, 2})
  BY <1>1 DEF TypeOK
<1>3. CASE up
  BY <1>1, <1>2, <1>3 DEF Send, Sent
<1>4. CASE ~up
  <2>1. fate' = [fate EXCEPT ![c] = [fate[c] EXCEPT ![attempt[c] + 1] = "broken"]]
    BY <1>4 DEF Send
  <2>2. [fate[c] EXCEPT ![attempt[c] + 1] = "broken"] \in [{1, 2} -> Fates]
    BY <1>2 DEF Fates
  <2>3. fate' \in [Calls -> [{1, 2} -> Fates]]
    BY <1>2, <2>1, <2>2
  <2>4. \A d \in Calls, n \in {1, 2} :
          fate'[d][n] = IF d = c /\ n = attempt[c] + 1 THEN "broken" ELSE fate[d][n]
    BY <1>2, <2>1
  <2> QED BY <1>1, <1>2, <1>4, <2>3, <2>4 DEF Send, Sent
<1> QED BY <1>3, <1>4

(* The sending, at the beginning of a call or after a wait.                *)
LEMMA SendKeeps ==
  ASSUME ClientInv, NEW c \in Calls, at[c] \in {"idle", "ready"}, Send(c),
         trouble \subseteq trouble', trouble' \subseteq Calls, ~up => c \in trouble',
         UNCHANGED <<breaker, shuttingDown>>
  PROVE  ClientInv'
<1> USE DEF ClientInv
<1>1. Sent(c)
  BY SendFacts
<1>2. TypeOK'
  <2>1. at' \in [Calls -> {"idle", "wait", "probing", "found", "ready", "sent", "ended"}]
    BY <1>1 DEF TypeOK, Sent
  <2>2. attempt' \in [Calls -> 0..2]
    BY <1>1 DEF TypeOK, Sent
  <2> QED BY <1>1, <2>1, <2>2 DEF TypeOK, breaker, Sent
<1>3. Counted'
  BY <1>1 DEF TypeOK, Counted, Waiting, Sent
<1>4. Numbered'
  <2> SUFFICES ASSUME NEW d \in Calls, NEW n \in {1, 2},
                      <<d, n>> \in jobs' \cup runs' \/ fate'[d][n] # "none"
               PROVE  n <= attempt'[d]
    BY DEF Numbered
  <2>1. CASE d = c /\ n = attempt[c] + 1
    BY <1>1, <2>1 DEF TypeOK, Sent
  <2>2. CASE ~(d = c /\ n = attempt[c] + 1)
    <3>1. <<d, n>> \in jobs \cup runs \/ fate[d][n] # "none"
      BY <1>1, <2>2 DEF Sent
    <3>2. n <= attempt[d]
      BY <3>1 DEF Numbered
    <3>3. attempt'[d] \in {attempt[d], attempt[d] + 1} /\ attempt[d] \in 0..2
      BY <1>1 DEF TypeOK, Sent
    <3> QED BY <3>2, <3>3
  <2> QED BY <2>1, <2>2
<1>5. SecondForLost'
  BY <1>1 DEF TypeOK, Counted, Numbered, SecondForLost, Waiting, Sent
<1>6. RefusedIsUndone'
  <2> SUFFICES ASSUME NEW d \in Calls, NEW n \in {1, 2}
               PROVE  /\ <<d, n>> \in jobs' => <<d, n>> \notin runs'
                      /\ fate'[d][n] = "refused" => <<d, n>> \notin jobs' \cup runs'
    BY DEF RefusedIsUndone
  <2>1. CASE d = c /\ n = attempt[c] + 1
    <3>1. attempt[c] \in 0..1 /\ ~(n <= attempt[d])
      BY <1>1, <2>1 DEF Sent
    <3>2. <<d, n>> \notin jobs \cup runs /\ fate[d][n] = "none"
      BY <3>1 DEF Numbered
    <3> QED BY <1>1, <3>2 DEF Sent
  <2>2. CASE ~(d = c /\ n = attempt[c] + 1)
    BY <1>1, <2>2 DEF RefusedIsUndone, Sent
  <2> QED BY <2>1, <2>2
<1>7. TroubleIsNoted'
  BY <1>1 DEF TypeOK, TroubleIsNoted, Sent
<1> QED BY <1>2, <1>3, <1>4, <1>5, <1>6, <1>7

(* The beginning of a call: refused, made to wait, or sent.                *)
LEMMA BeginKeeps == ASSUME ClientInv, NEW c \in Calls, Begin(c) PROVE ClientInv'
<1>1. /\ at[c] = "idle" /\ UNCHANGED <<breaker, shuttingDown>>
      /\ trouble \subseteq trouble' /\ trouble' \subseteq Calls /\ (~up => c \in trouble')
  BY DEF Begin, ClientInv, TypeOK
<1>2. CASE Send(c)
  BY <1>1, <1>2, SendKeeps
<1>3. ASSUME NEW r \in Results \ {"unavailable"}, NEW a \in {"ended", "wait"},
             at' = [at EXCEPT ![c] = a], result' = [result EXCEPT ![c] = r] \/ UNCHANGED result,
             tried' = [tried EXCEPT ![c] = FALSE] \/ (a = "ended" /\ UNCHANGED tried),
             UNCHANGED <<attempt, fate, worker>>
      PROVE  ClientInv'
  <2> USE <1>1, <1>3 DEF ClientInv, worker, breaker
  <2>1. TypeOK'
    BY ZenonT(40) DEF TypeOK
  <2>2. Counted'
    BY DEF TypeOK, Counted, Waiting
  <2>3. Numbered' /\ RefusedIsUndone'
    BY DEF Numbered, RefusedIsUndone
  <2>4. SecondForLost'
    BY DEF TypeOK, Counted, SecondForLost, Waiting
  <2>5. TroubleIsNoted'
    BY DEF TypeOK, TroubleIsNoted
  <2> QED BY <2>1, <2>2, <2>3, <2>4, <2>5
<1>4. CASE (End(c, "throttled") \/ End(c, "shutting_down")) /\ UNCHANGED <<attempt, tried, fate, worker>>
  BY <1>3, <1>4 DEF End, Results
<1>5. CASE Wait(c) /\ UNCHANGED worker
  BY <1>3, <1>5 DEF Wait, Results
<1> QED BY <1>2, <1>4, <1>5 DEF Begin

(* The pieces that only move a call.                                       *)
LEMMA WaitingKeeps ==
  ASSUME ClientInv, NEW c \in Calls, Probe(c) \/ GiveUp(c) \/ Found(c) \/ HealthAnswers(c)
  PROVE  ClientInv'
<1> USE DEF ClientInv
<1>1. /\ UNCHANGED <<attempt, fate, worker, trouble, shuttingDown, slowStreak, fastRun>>
      /\ state' \in {state, "healthy"} /\ fastStreak' \in {fastStreak, 0}
      /\ at[c] \in Waiting
      /\ \E a \in {"wait", "probing", "found", "ready", "ended"}, r \in Results, t \in BOOLEAN :
           /\ at' = [at EXCEPT ![c] = a] /\ result' = [result EXCEPT ![c] = r]
           /\ tried' = [tried EXCEPT ![c] = t]
           /\ r = "unavailable" => c \in trouble
           /\ a = "wait" /\ t => c \in trouble
  <2>1. /\ at \in [Calls -> {"idle", "wait", "probing", "found", "ready", "sent", "ended"}]
        /\ result \in [Calls -> Results] /\ tried \in [Calls -> BOOLEAN]
    BY DEF TypeOK
  <2>2. /\ result = [result EXCEPT ![c] = result[c]] /\ tried = [tried EXCEPT ![c] = tried[c]]
        /\ at = [at EXCEPT ![c] = at[c]] /\ result[c] \in Results /\ tried[c] \in BOOLEAN
    BY <2>1
  <2>3. /\ at[c] = "wait" /\ (tried[c] \/ ~up) => c \in trouble
        /\ result[c] = "unavailable" => c \in trouble
    BY DEF TroubleIsNoted
  <2>4. CASE Probe(c)
    BY <2>2, <2>3, <2>4 DEF Probe, breaker, Waiting
  <2>5. CASE GiveUp(c)
    BY <2>2, <2>3, <2>5 DEF GiveUp, End, breaker, Waiting, Results
  <2>6. CASE Found(c)
    BY <2>2, <2>3, <2>6 DEF Found, Waiting
  <2>7. CASE HealthAnswers(c)
    BY <2>2, <2>3, <2>7 DEF HealthAnswers, breaker, Waiting
  <2> QED BY <2>4, <2>5, <2>6, <2>7
<1> USE <1>1 DEF worker
<1>2. TypeOK'
  BY ClientAssumption DEF ClientAssumption, TypeOK
<1>3. Counted'
  BY DEF TypeOK, Counted, Waiting
<1>4. Numbered' /\ RefusedIsUndone'
  BY DEF Numbered, RefusedIsUndone
<1>5. SecondForLost'
  BY DEF TypeOK, SecondForLost, Waiting
<1>6. TroubleIsNoted'
  BY DEF TypeOK, TroubleIsNoted, Waiting
<1> QED BY <1>2, <1>3, <1>4, <1>5, <1>6

(* A call that has waited knows a stopped worker by its trouble.           *)
LEMMA SendAfterWaitKeeps == ASSUME ClientInv, NEW c \in Calls, SendAfterWait(c) PROVE ClientInv'
BY SendKeeps DEF SendAfterWait, ClientInv, TypeOK, TroubleIsNoted

(* Answers keep the streaks within their bounds.                           *)
LEMMA AnsweredKeepsTypes ==
  ASSUME TypeOK, NEW slow \in BOOLEAN, Answered(slow)
  PROVE  /\ state' \in {"healthy", "degraded", "down"}
         /\ slowStreak' \in 0..2 /\ fastStreak' \in 0..(RecoveryStreak - 1)
         /\ fastRun' \in 0..RecoveryStreak
BY ClientAssumption DEF ClientAssumption, TypeOK, Answered, Streaks

(* A call hears of its request: only a lost first sending is waited out.   *)
LEMMA HearKeeps == ASSUME ClientInv, NEW c \in Calls, Hear(c) PROVE ClientInv'
<1> USE ClientAssumption DEF ClientAssumption, ClientInv
<1>1. /\ state' \in {"healthy", "degraded", "down"}
      /\ slowStreak' \in 0..2 /\ fastStreak' \in 0..(RecoveryStreak - 1)
      /\ fastRun' \in 0..RecoveryStreak
  BY AnsweredKeepsTypes DEF Hear, TypeOK, breaker
<1>2. attempt[c] \in {1, 2} /\ fate[c][attempt[c]] \in Fates \ {"none"}
  <2>1. attempt[c] \in {1, 2}
    BY DEF Hear, TypeOK, Counted
  <2>2. fate[c] \in [{1, 2} -> Fates] /\ fate[c][attempt[c]] # "none"
    BY DEF Hear, TypeOK
  <2> QED BY <2>1, <2>2
<1>3. /\ UNCHANGED <<attempt, fate, shuttingDown, up, gen, jobs, runs, trouble>>
      /\ \/ /\ at' = [at EXCEPT ![c] = "ended"]
            /\ result' = [result EXCEPT ![c] = Outcome(fate[c][attempt[c]])]
            /\ UNCHANGED tried
         \/ /\ attempt[c] = 1 /\ fate[c][1] \in {"broken", "refused"}
            /\ at' = [at EXCEPT ![c] = "wait"] /\ tried' = [tried EXCEPT ![c] = FALSE]
            /\ UNCHANGED result
  BY <1>2 DEF Hear, End, Wait, IsConnectionError, worker
<1>4. /\ Outcome(fate[c][attempt[c]]) \in Results
      /\ Outcome(fate[c][attempt[c]]) = "unavailable" => fate[c][attempt[c]] = "refused"
  BY <1>2 DEF Outcome, Fates, Results
<1>5. TypeOK'
  BY <1>1, <1>3, <1>4, ZenonT(40) DEF TypeOK
<1>6. Counted'
  BY <1>2, <1>3 DEF TypeOK, Counted, Waiting
<1>7. SecondForLost'
  BY <1>3 DEF TypeOK, SecondForLost, Waiting
<1>8. Numbered' /\ RefusedIsUndone'
  BY <1>3 DEF Numbered, RefusedIsUndone
<1>9. TroubleIsNoted'
  <2>1. Outcome(fate[c][attempt[c]]) = "unavailable" => c \in trouble
    BY <1>2, <1>4 DEF TroubleIsNoted
  <2>2. UNCHANGED <<up, fate, trouble>>
    BY <1>3
  <2>3. /\ result'[c] = "unavailable" => c \in trouble
        /\ tried'[c] /\ at'[c] = "wait" => c \in trouble
        /\ \A d \in Calls : d # c => at'[d] = at[d] /\ tried'[d] = tried[d] /\ result'[d] = result[d]
        /\ at[c] = "sent"
    BY <1>3, <2>1 DEF Hear, TypeOK, TroubleIsNoted
  <2> QED BY <2>2, <2>3 DEF TroubleIsNoted
<1> QED BY <1>5, <1>6, <1>7, <1>8, <1>9

(* News of a sending reach a call at most once, and only of the sending it *)
(* waits for.                                                              *)
News(c, f) ==
  /\ fate' \in [Calls -> [{1, 2} -> Fates]]
  /\ \A d \in Calls, n \in {1, 2} :
       \/ fate'[d][n] = fate[d][n]
       \/ /\ d = c /\ n = attempt[c] /\ at[c] = "sent" /\ fate[c][n] = "none"
          /\ fate'[d][n] = f

LEMMA OneNews ==
  ASSUME ClientInv, NEW c \in Calls, NEW n \in {1, 2}, NEW f \in Fates,
         \/ Heard(c, n, f)
         \/ /\ n = attempt[c] /\ at[c] = "sent" /\ fate[c][n] = "none"
            /\ fate' = [fate EXCEPT ![c][n] = f]
  PROVE  News(c, f)
<1>1. fate \in [Calls -> [{1, 2} -> Fates]]
  BY DEF ClientInv, TypeOK
<1>2. CASE UNCHANGED fate
  BY <1>1, <1>2 DEF News
<1>3. CASE /\ n = attempt[c] /\ at[c] = "sent" /\ fate[c][n] = "none"
           /\ fate' = [fate EXCEPT ![c] = [fate[c] EXCEPT ![n] = f]]
  <2>1. [fate[c] EXCEPT ![n] = f] \in [{1, 2} -> Fates]
    BY <1>1
  <2>2. fate' \in [Calls -> [{1, 2} -> Fates]]
    BY <1>1, <1>3, <2>1
  <2>3. \A d \in Calls, m \in {1, 2} : fate'[d][m] = IF d = c /\ m = n THEN f ELSE fate[d][m]
    BY <1>1, <1>3
  <2> QED BY <1>3, <2>2, <2>3 DEF News
<1> QED BY <1>2, <1>3 DEF Heard

(* The worker is done with a request, does it or not, or the client is     *)
(* told of nothing: what it was refused stays undone.                      *)
LEMMA NewsKeeps ==
  ASSUME ClientInv, NEW c \in Calls, NEW f \in Fates, News(c, f),
         UNCHANGED <<breaker, shuttingDown, at, attempt, tried, result, up, gen>>,
         jobs' \subseteq jobs, jobs' \cup runs' \subseteq jobs \cup runs, jobs' \cap runs' = {},
         trouble \subseteq trouble', trouble' \subseteq Calls,
         f = "refused" => <<c, attempt[c]>> \notin jobs' \cup runs',
         f \in {"broken", "refused"} => c \in trouble'
  PROVE  ClientInv'
<1> USE DEF ClientInv
<1>1. TypeOK'
  <2>1. jobs' \in SUBSET (Calls \X {1, 2}) /\ runs' \in SUBSET (Calls \X {1, 2})
    BY DEF TypeOK
  <2> QED BY <2>1 DEF TypeOK, News, breaker
<1>2. Counted'
  BY DEF Counted
<1>3. Numbered'
  <2> SUFFICES ASSUME NEW d \in Calls, NEW n \in {1, 2},
                      <<d, n>> \in jobs' \cup runs' \/ fate'[d][n] # "none"
               PROVE  n <= attempt[d]
    BY DEF Numbered
  <2>1. CASE d = c /\ n = attempt[c]
    BY <2>1
  <2>2. CASE ~(d = c /\ n = attempt[c])
    <3>1. <<d, n>> \in jobs \cup runs \/ fate[d][n] # "none"
      BY <2>2 DEF News
    <3> QED BY <3>1 DEF Numbered
  <2> QED BY <2>1, <2>2
<1>4. SecondForLost'
  <2> SUFFICES ASSUME NEW d \in Calls, attempt[d] = 2 \/ (attempt[d] = 1 /\ at[d] \in Waiting)
               PROVE  fate'[d][1] \in {"broken", "refused"}
    BY DEF SecondForLost
  <2>1. fate[d][1] \in {"broken", "refused"}
    BY DEF SecondForLost
  <2> QED BY <2>1 DEF News
<1>5. RefusedIsUndone'
  <2> SUFFICES ASSUME NEW d \in Calls, NEW n \in {1, 2}
               PROVE  /\ <<d, n>> \in jobs' => <<d, n>> \notin runs'
                      /\ fate'[d][n] = "refused" => <<d, n>> \notin jobs' \cup runs'
    BY DEF RefusedIsUndone
  <2>1. <<d, n>> \in jobs' => <<d, n>> \notin runs'
    OBVIOUS
  <2>2. CASE fate'[d][n] = fate[d][n]
    BY <2>1, <2>2 DEF RefusedIsUndone
  <2>3. CASE d = c /\ n = attempt[c] /\ fate'[d][n] = f
    BY <2>1, <2>3
  <2> QED BY <2>2, <2>3 DEF News
<1>6. TroubleIsNoted'
  <2>1. \A d \in Calls, n \in {1, 2} : fate'[d][n] \in {"broken", "refused"} => d \in trouble'
    BY DEF News, TroubleIsNoted
  <2> QED BY <2>1 DEF TroubleIsNoted
<1> QED BY <1>1, <1>2, <1>3, <1>4, <1>5, <1>6

(* A request is pending or done, not both.                                 *)
LEMMA PendingIsUndone == ASSUME ClientInv PROVE jobs \cap runs = {} /\ trouble \subseteq Calls
<1>1. jobs \subseteq Calls \X {1, 2} /\ trouble \subseteq Calls
  BY DEF ClientInv, TypeOK
<1>2. ASSUME NEW j \in jobs, j \in runs PROVE FALSE
  <2>1. PICK d \in Calls, n \in {1, 2} : j = <<d, n>>
    BY <1>1
  <2> QED BY <1>2, <2>1 DEF ClientInv, RefusedIsUndone
<1> QED BY <1>1, <1>2

(* The timer of a command, a lost connection, and the worker's answers.    *)
LEMMA AbortKeeps == ASSUME ClientInv, NEW c \in Calls, Abort(c) PROVE ClientInv'
<1>1. News(c, "aborted")
  <2>1. /\ at[c] = "sent" /\ fate[c][attempt[c]] = "none"
        /\ fate' = [fate EXCEPT ![c][attempt[c]] = "aborted"]
    BY DEF Abort
  <2>2. attempt[c] \in {1, 2}
    BY <2>1 DEF ClientInv, TypeOK, Counted
  <2> QED BY <2>1, <2>2, OneNews DEF Fates
<1>2. jobs \cap runs = {} /\ trouble \subseteq Calls
  BY PendingIsUndone
<1>3. UNCHANGED <<breaker, shuttingDown, at, attempt, tried, result, up, gen, jobs, runs,
                  trouble>>
  BY DEF Abort, worker
<1> QED BY <1>1, <1>2, <1>3, NewsKeeps DEF Fates

LEMMA BreakKeeps == ASSUME ClientInv, NEW c \in Calls, Break(c) PROVE ClientInv'
<1>1. News(c, "broken")
  <2>1. /\ at[c] = "sent" /\ fate[c][attempt[c]] = "none"
        /\ fate' = [fate EXCEPT ![c][attempt[c]] = "broken"]
    BY DEF Break
  <2>2. attempt[c] \in {1, 2}
    BY <2>1 DEF ClientInv, TypeOK, Counted
  <2> QED BY <2>1, <2>2, OneNews DEF Fates
<1>2. jobs \cap runs = {} /\ trouble \subseteq Calls
  BY PendingIsUndone
<1>3. /\ UNCHANGED <<breaker, shuttingDown, at, attempt, tried, result, up, gen, jobs, runs>>
      /\ trouble' = trouble \cup {c}
  BY DEF Break, worker
<1> QED BY <1>1, <1>2, <1>3, NewsKeeps DEF Fates

LEMMA WorkKeeps ==
  ASSUME ClientInv, NEW c \in Calls, NEW n \in {1, 2}, Work(c, n) PROVE ClientInv'
<1>1. PICK f \in {"ok", "error"} : Heard(c, n, f)
  BY DEF Work
<1>2. News(c, f)
  BY <1>1, OneNews DEF Fates
<1>3. jobs \cap runs = {} /\ trouble \subseteq Calls
  BY PendingIsUndone
<1>4. /\ UNCHANGED <<breaker, shuttingDown, at, attempt, tried, result, up, gen, trouble>>
      /\ <<c, n>> \in jobs /\ jobs' = jobs \ {<<c, n>>} /\ runs' = runs \cup {<<c, n>>}
  BY DEF Work
<1> QED BY <1>2, <1>3, <1>4, NewsKeeps DEF Fates

LEMMA TurnAwayKeeps ==
  ASSUME ClientInv, NEW c \in Calls, NEW n \in {1, 2}, TurnAway(c, n) PROVE ClientInv'
<1>1. jobs \cap runs = {} /\ trouble \subseteq Calls
  BY PendingIsUndone
<1>2. /\ UNCHANGED <<breaker, shuttingDown, at, attempt, tried, result, up, gen, runs>>
      /\ <<c, n>> \in jobs /\ jobs' = jobs \ {<<c, n>>} /\ trouble' = trouble \cup {c}
      /\ Heard(c, n, "refused")
  BY DEF TurnAway
<1>3. CASE n = attempt[c]
  <2>1. News(c, "refused")
    BY <1>2, OneNews DEF Fates
  <2>2. <<c, attempt[c]>> \notin jobs' \cup runs'
    BY <1>1, <1>2, <1>3
  <2> QED BY <1>1, <1>2, <2>1, <2>2, NewsKeeps DEF Fates
<1>4. CASE n # attempt[c]
  <2>1. News(c, "ok")
    BY <1>2, <1>4 DEF Heard, News, ClientInv, TypeOK
  <2> QED BY <1>1, <1>2, <2>1, NewsKeeps DEF Fates
<1> QED BY <1>3, <1>4

(* A call's place is taken by a new one.                                   *)
LEMMA RenewKeeps == ASSUME ClientInv, NEW c \in Calls, Renew(c) PROVE ClientInv'
<1> USE DEF ClientInv
<1>1. /\ UNCHANGED <<breaker, shuttingDown, up, gen, jobs>>
      /\ at' = [at EXCEPT ![c] = "idle"] /\ attempt' = [attempt EXCEPT ![c] = 0]
      /\ tried' = [tried EXCEPT ![c] = FALSE] /\ fate' = [fate EXCEPT ![c] = Unsent]
      /\ result' = [result EXCEPT ![c] = "none"]
      /\ \A d \in Calls, n \in {1, 2} :
           /\ <<d, n>> \in runs' <=> (<<d, n>> \in runs /\ d # c)
           /\ d = c => <<d, n>> \notin jobs
      /\ runs' \subseteq runs /\ trouble' = trouble \ {c}
  BY DEF Renew
<1>2. Unsent \in [{1, 2} -> Fates] /\ \A n \in {1, 2} : Unsent[n] = "none"
  BY DEF Unsent, Fates
<1>3. \A d \in Calls, n \in {1, 2} : fate'[d][n] = IF d = c THEN "none" ELSE fate[d][n]
  BY <1>1, <1>2 DEF TypeOK
<1>4. TypeOK'
  <2>1. fate' \in [Calls -> [{1, 2} -> Fates]]
    BY <1>1, <1>2 DEF TypeOK
  <2>2. /\ at' \in [Calls -> {"idle", "wait", "probing", "found", "ready", "sent", "ended"}]
        /\ attempt' \in [Calls -> 0..2]
    BY <1>1 DEF TypeOK
  <2>3. /\ tried' \in [Calls -> BOOLEAN] /\ result' \in [Calls -> Results]
        /\ runs' \in SUBSET (Calls \X {1, 2})
    BY <1>1 DEF TypeOK, Results
  <2> QED BY <1>1, <2>1, <2>2, <2>3 DEF TypeOK, breaker
<1>5. Counted'
  BY <1>1 DEF TypeOK, Counted, Waiting
<1>6. Numbered'
  <2> SUFFICES ASSUME NEW d \in Calls, NEW n \in {1, 2},
                      <<d, n>> \in jobs' \cup runs' \/ fate'[d][n] # "none"
               PROVE  n <= attempt'[d]
    BY DEF Numbered
  <2>1. d # c /\ (<<d, n>> \in jobs \cup runs \/ fate[d][n] # "none")
    BY <1>1, <1>3
  <2>2. attempt'[d] = attempt[d]
    BY <1>1, <2>1 DEF TypeOK
  <2> QED BY <2>1, <2>2 DEF Numbered
<1>7. SecondForLost'
  BY <1>1, <1>3 DEF TypeOK, SecondForLost, Waiting
<1>8. RefusedIsUndone'
  BY <1>1, <1>3 DEF RefusedIsUndone
<1>9. TroubleIsNoted'
  BY <1>1, <1>3 DEF TypeOK, TroubleIsNoted
<1> QED BY <1>4, <1>5, <1>6, <1>7, <1>8, <1>9

(* The worker dies: whoever waits for it learns, and is in trouble.        *)
LEMMA DieKeeps == ASSUME ClientInv, Die PROVE ClientInv'
<1> USE DEF ClientInv
<1>1. /\ UNCHANGED <<breaker, shuttingDown, attempt, tried, result, gen, runs>>
      /\ jobs' = {} /\ up' = FALSE
      /\ trouble' = trouble \cup {c \in Calls : at[c] # "idle"}
      /\ at' = [c \in Calls |-> IF at[c] = "probing" THEN "wait" ELSE at[c]]
  BY DEF Die
<1>2. \A c \in Calls : at'[c] = at[c] \/ (at[c] = "probing" /\ at'[c] = "wait")
  BY <1>1
<1>3. ASSUME NEW c \in Calls
      PROVE  /\ fate'[c] \in [{1, 2} -> Fates]
             /\ \A n \in {1, 2} : \/ fate'[c][n] = fate[c][n]
                                  \/ /\ at[c] = "sent" /\ n = attempt[c]
                                     /\ fate[c][n] = "none" /\ fate'[c][n] = "broken"
  <2>1. fate[c] \in [{1, 2} -> Fates]
    BY DEF TypeOK
  <2>2. CASE at[c] = "sent" /\ fate[c][attempt[c]] = "none"
    <3>1. fate'[c] = [fate[c] EXCEPT ![attempt[c]] = "broken"]
      BY <2>2 DEF Die
    <3> QED BY <2>1, <2>2, <3>1 DEF Fates
  <2>3. CASE ~(at[c] = "sent" /\ fate[c][attempt[c]] = "none")
    <3>1. fate'[c] = fate[c]
      BY <2>3 DEF Die
    <3> QED BY <2>1, <3>1
  <2> QED BY <2>2, <2>3
<1>4. TypeOK'
  <2>1. DOMAIN fate' = Calls /\ fate' = [c \in Calls |-> fate'[c]]
    BY DEF Die
  <2>2. fate' \in [Calls -> [{1, 2} -> Fates]]
    BY <1>3, <2>1
  <2>3. at' \in [Calls -> {"idle", "wait", "probing", "found", "ready", "sent", "ended"}]
    BY <1>1 DEF TypeOK
  <2> QED BY <1>1, <2>2, <2>3 DEF TypeOK, breaker
<1>5. Counted'
  BY <1>1, <1>2 DEF Counted, Waiting
<1>6. Numbered'
  <2> SUFFICES ASSUME NEW c \in Calls, NEW n \in {1, 2},
                      <<c, n>> \in runs \/ fate'[c][n] # "none"
               PROVE  n <= attempt[c]
    BY <1>1 DEF Numbered
  <2>1. CASE n = attempt[c]
    BY <2>1
  <2>2. CASE n # attempt[c]
    <3>1. <<c, n>> \in jobs \cup runs \/ fate[c][n] # "none"
      BY <1>3, <2>2
    <3> QED BY <3>1 DEF Numbered
  <2>3. attempt[c] \in 0..2
    BY DEF TypeOK
  <2> QED BY <2>1, <2>2, <2>3
<1>7. SecondForLost'
  <2> SUFFICES ASSUME NEW c \in Calls, attempt[c] = 2 \/ (attempt[c] = 1 /\ at'[c] \in Waiting)
               PROVE  fate'[c][1] \in {"broken", "refused"}
    BY <1>1 DEF SecondForLost
  <2>1. fate[c][1] \in {"broken", "refused"}
    BY <1>2 DEF SecondForLost, Waiting
  <2> QED BY <1>3, <2>1
<1>8. RefusedIsUndone'
  <2> SUFFICES ASSUME NEW c \in Calls, NEW n \in {1, 2}, fate'[c][n] = "refused"
               PROVE  <<c, n>> \notin runs
    BY <1>1 DEF RefusedIsUndone
  <2>1. fate[c][n] = "refused"
    BY <1>3
  <2> QED BY <2>1 DEF RefusedIsUndone
<1>9. TroubleIsNoted'
  <2>1. \A c \in Calls : at'[c] # "idle" => c \in trouble'
    BY <1>1, <1>2
  <2>2. \A c \in Calls, n \in {1, 2} : fate'[c][n] \in {"broken", "refused"} => c \in trouble'
    BY <1>1, <1>3 DEF TroubleIsNoted
  <2>3. \A c \in Calls : result'[c] = "unavailable" => c \in trouble'
    BY <1>1 DEF TroubleIsNoted
  <2> QED BY <2>1, <2>2, <2>3 DEF TroubleIsNoted
<1> QED BY <1>4, <1>5, <1>6, <1>7, <1>8, <1>9

(* A new worker, a notice, and steps that change nothing.                  *)
LEMMA OthersKeep == ASSUME ClientInv, Restart \/ SetWorkerShuttingDown \/ UNCHANGED vars
                    PROVE  ClientInv'
<1> USE DEF ClientInv
<1>1. /\ UNCHANGED <<breaker, calls, jobs, runs, trouble>>
      /\ up => up'
      /\ up' \in BOOLEAN /\ shuttingDown' \in BOOLEAN
      /\ gen' \in 1..MaxGen
  <2>1. MaxGen \in Nat /\ gen \in 1..MaxGen
        /\ up \in BOOLEAN /\ shuttingDown \in BOOLEAN
    BY ClientAssumption DEF ClientAssumption, TypeOK
  <2>2. CASE Restart
    BY <2>1, <2>2 DEF Restart
  <2>3. CASE SetWorkerShuttingDown
    BY <2>1, <2>3 DEF SetWorkerShuttingDown, worker
  <2>4. CASE UNCHANGED vars
    BY <2>1, <2>4 DEF vars, worker
  <2> QED BY <2>2, <2>3, <2>4
<1>2. TypeOK'
  BY <1>1 DEF TypeOK, breaker, calls
<1>3. Counted' /\ Numbered' /\ SecondForLost' /\ RefusedIsUndone'
  BY <1>1 DEF Counted, Numbered, SecondForLost, RefusedIsUndone, calls
<1>4. TroubleIsNoted'
  BY <1>1 DEF TroubleIsNoted, TypeOK, calls
<1> QED BY <1>2, <1>3, <1>4

-----------------------------------------------------------------------------
(* Every reachable state of the client and of its requests is as ClientInv *)
(* says: calls are counted, no failure goes unnoted (withCircuitBreaker,   *)
(* waitForRecovery).                                                       *)
THEOREM ClientCorrect == Spec => []ClientInv
<1>1. ClientInv /\ [Next]_vars => ClientInv'
  <2> SUFFICES ASSUME ClientInv, [Next]_vars PROVE ClientInv'
    OBVIOUS
  <2>1. ASSUME NEW c \in Calls, Begin(c) PROVE ClientInv'
    BY <2>1, BeginKeeps
  <2>2. ASSUME NEW c \in Calls, Client(c) PROVE ClientInv'
    BY <2>2, WaitingKeeps, SendAfterWaitKeeps, HearKeeps DEF Client
  <2>3. ASSUME NEW c \in Calls, Abort(c) \/ Renew(c) PROVE ClientInv'
    BY <2>3, AbortKeeps, RenewKeeps
  <2>4. ASSUME NEW c \in Calls, Answer(c) PROVE ClientInv'
    BY <2>4, BreakKeeps, WaitingKeeps, WorkKeeps, TurnAwayKeeps DEF Answer
  <2>5. CASE SetWorkerShuttingDown \/ Restart \/ UNCHANGED vars
    BY <2>5, OthersKeep
  <2>6. CASE Die
    BY <2>6, DieKeeps
  <2> QED BY <2>1, <2>2, <2>3, <2>4, <2>5, <2>6 DEF Next
<1> QED BY <1>1, InitClient, PTL DEF Spec

(* The worker does one request of the client twice only if the first       *)
(* sending lost its connection: never after an answer, a refusal, or the   *)
(* timer of a command (isConnectionError).                                 *)
THEOREM TwiceOnlyIfLost == Spec => []DoneTwiceOnlyIfLost
<1>1. ClientInv => DoneTwiceOnlyIfLost
  <2> SUFFICES ASSUME ClientInv, NEW c \in Calls, {<<c, 1>>, <<c, 2>>} \subseteq runs
               PROVE  fate[c][1] = "broken"
    BY DEF DoneTwiceOnlyIfLost
  <2>1. 2 <= attempt[c] /\ attempt[c] \in 0..2
    BY DEF ClientInv, Numbered, TypeOK
  <2>2. fate[c][1] \in {"broken", "refused"}
    BY <2>1 DEF ClientInv, SecondForLost
  <2> QED BY <2>2 DEF ClientInv, RefusedIsUndone
<1> QED BY <1>1, ClientCorrect, PTL

(* Who is told that the worker is unavailable met a worker that was down,  *)
(* or turned it away, during the call (waitForRecovery's one probe).       *)
THEOREM UnavailableIsNoRumour == Spec => []UnavailableIsTrue
<1>1. ClientInv => UnavailableIsTrue
  BY DEF ClientInv, TroubleIsNoted, UnavailableIsTrue
<1> QED BY <1>1, ClientCorrect, PTL

-----------------------------------------------------------------------------
(* The streak the client counts never exceeds the run of fast answers: a   *)
(* slow answer ends both, and so the streak cannot outlive one.            *)
StreakIsRun == fastStreak <= fastRun

(* Only an answer that is heard, and a probe that found the worker, touch  *)
(* the streak; only the first of them lengthens it.                        *)
LEMMA StreakKeeps == TypeOK /\ StreakIsRun /\ [Next]_vars => StreakIsRun'
<1> SUFFICES ASSUME TypeOK, StreakIsRun, [Next]_vars PROVE StreakIsRun'
  OBVIOUS
<1>1. /\ RecoveryStreak \in Nat \ {0} /\ fastStreak \in 0..(RecoveryStreak - 1)
      /\ fastRun \in 0..RecoveryStreak
  BY ClientAssumption DEF ClientAssumption, TypeOK
<1>2. ASSUME UNCHANGED breaker PROVE StreakIsRun'
  BY <1>2 DEF breaker, StreakIsRun
<1>3. ASSUME NEW c \in Calls, Hear(c) PROVE StreakIsRun'
  <2>1. CASE UNCHANGED <<fastStreak, fastRun>>
    BY <2>1 DEF StreakIsRun
  <2>2. ASSUME NEW slow \in BOOLEAN, Answered(slow) PROVE StreakIsRun'
    BY <1>1, <2>2 DEF Answered, Streaks, StreakIsRun
  <2> QED BY <1>3, <2>1, <2>2 DEF Hear, breaker
<1>4. ASSUME NEW c \in Calls, Found(c) PROVE StreakIsRun'
  BY <1>1, <1>4 DEF Found, StreakIsRun
<1>5. ASSUME NEW c \in Calls, Client(c) PROVE StreakIsRun'
  BY <1>2, <1>3, <1>4, <1>5 DEF Client, Probe, GiveUp, SendAfterWait
<1>6. ASSUME NEW c \in Calls, Answer(c) PROVE StreakIsRun'
  BY <1>2, <1>6 DEF Answer, Break, HealthAnswers, Work, TurnAway
<1>7. ASSUME NEW c \in Calls, Begin(c) \/ Abort(c) \/ Renew(c) PROVE StreakIsRun'
  BY <1>2, <1>7 DEF Begin, Abort, Renew
<1>8. ASSUME SetWorkerShuttingDown \/ Die \/ Restart \/ UNCHANGED vars PROVE StreakIsRun'
  BY <1>2, <1>8 DEF SetWorkerShuttingDown, Die, Restart, vars
<1> QED BY <1>5, <1>6, <1>7, <1>8 DEF Next

(* One step from degraded to healthy ends a run, or is a found worker.     *)
LEMMA LeftByStreak ==
  ASSUME TypeOK, StreakIsRun, [Next]_vars, state = "degraded", state' = "healthy"
  PROVE  fastRun' = RecoveryStreak \/ \E c \in Calls : at[c] = "found" /\ at'[c] = "ready"
<1>1. /\ RecoveryStreak \in Nat \ {0} /\ fastStreak \in 0..(RecoveryStreak - 1)
      /\ fastRun \in 0..RecoveryStreak
  BY ClientAssumption DEF ClientAssumption, TypeOK
<1>2. ~UNCHANGED breaker
  BY DEF breaker
<1>3. ASSUME NEW c \in Calls, Hear(c) PROVE fastRun' = RecoveryStreak
  <2>1. ASSUME NEW slow \in BOOLEAN, Answered(slow) PROVE fastRun' = RecoveryStreak
    BY <1>1, <2>1 DEF Answered, Streaks, StreakIsRun
  <2> QED BY <1>2, <1>3, <2>1 DEF Hear
<1>4. ASSUME NEW c \in Calls, Found(c) PROVE at[c] = "found" /\ at'[c] = "ready"
  BY <1>4 DEF Found, TypeOK
<1>5. ASSUME NEW c \in Calls, Client(c)
      PROVE  Hear(c) \/ Found(c)
  BY <1>2, <1>5 DEF Client, Probe, GiveUp, SendAfterWait
<1>6. ASSUME NEW c \in Calls, Answer(c) PROVE FALSE
  BY <1>2, <1>6 DEF Answer, Break, HealthAnswers, Work, TurnAway
<1>7. ASSUME NEW c \in Calls, Begin(c) \/ Abort(c) \/ Renew(c) PROVE FALSE
  BY <1>2, <1>7 DEF Begin, Abort, Renew
<1>8. ASSUME SetWorkerShuttingDown \/ Die \/ Restart \/ UNCHANGED vars PROVE FALSE
  BY <1>2, <1>8 DEF SetWorkerShuttingDown, Die, Restart, vars
<1> QED BY <1>3, <1>4, <1>5, <1>6, <1>7, <1>8 DEF Next

(* Answers alone lift the circuit from degraded only when the last         *)
(* RecoveryStreak answers, whoever got them, were fast: a slow answer in   *)
(* between starts the count again (withCircuitBreaker's two streaks).      *)
THEOREM DegradedUntilStreak == Spec => DegradedIsLeftByStreak
<1>1. Init => StreakIsRun
  BY DEF Init, StreakIsRun
<1>2. ClientInv => TypeOK
  BY DEF ClientInv
<1>3. TypeOK /\ StreakIsRun /\ [Next]_vars =>
        [(state = "degraded" /\ state' = "healthy")
          => (fastRun' = RecoveryStreak \/ \E c \in Calls : at[c] = "found" /\ at'[c] = "ready")]_vars
  BY LeftByStreak
<1>4. Spec => []TypeOK
  BY <1>2, ClientCorrect, PTL
<1> QED BY <1>1, <1>3, <1>4, StreakKeeps, PTL DEF Spec, DegradedIsLeftByStreak

(*---------------------------- code generation ----------------------------*)
(* Sequences of anything.                                                  *)
Listed(s) == s \in Seq(Range(s))

LEMMA ListedIs ==
  ASSUME NEW s, Listed(s)
  PROVE  Len(s) \in Nat /\ DOMAIN s = 1..Len(s) /\ s = [i \in 1..Len(s) |-> s[i]]
BY DEF Listed

LEMMA ListFrom ==
  ASSUME NEW n \in Nat, NEW s, s = [i \in 1..n |-> s[i]]
  PROVE  Listed(s) /\ Len(s) = n /\ DOMAIN s = 1..n
<1>1. DOMAIN s = 1..n
  OBVIOUS
<1>2. \A i \in 1..n : s[i] \in Range(s)
  BY <1>1 DEF Range
<1>3. s \in [1..n -> Range(s)]
  BY <1>2
<1>4. s \in Seq(Range(s))
  BY <1>3
<1> QED BY <1>1, <1>4 DEF Listed

LEMMA SequenceIs ==
  ASSUME NEW S, NEW s \in Seq(S)
  PROVE  s \in [1..Len(s) -> S] /\ Len(s) \in Nat
OBVIOUS

LEMMA InEither ==
  ASSUME NEW m \in Nat, NEW n \in Nat, NEW i \in 1..(m + n)
  PROVE  i \in 1..m \/ (i - m \in 1..n /\ i = m + (i - m) /\ i \notin 1..m)
OBVIOUS

LEMMA ListJoined ==
  ASSUME NEW s, NEW t, Listed(s), Listed(t)
  PROVE  /\ Listed(s \o t) /\ Len(s \o t) = Len(s) + Len(t)
         /\ \A i \in 1..Len(s) : (s \o t)[i] = s[i]
         /\ \A i \in 1..Len(t) : (s \o t)[Len(s) + i] = t[i]
         /\ Range(s \o t) = Range(s) \cup Range(t)
<1> DEFINE S == Range(s) \cup Range(t)
<1>1. s \in Seq(S) /\ t \in Seq(S)
  <2>1. s \in [1..Len(s) -> S] /\ Len(s) \in Nat BY DEF Listed
  <2>2. t \in [1..Len(t) -> S] /\ Len(t) \in Nat BY DEF Listed
  <2> QED BY <2>1, <2>2
<1> HIDE DEF S
<1>2. /\ s \o t \in Seq(S) /\ Len(s \o t) = Len(s) + Len(t)
      /\ \A i \in 1..Len(s) : (s \o t)[i] = s[i]
      /\ \A i \in 1..Len(t) : (s \o t)[Len(s) + i] = t[i]
  BY <1>1
<1>3. /\ DOMAIN s = 1..Len(s) /\ DOMAIN t = 1..Len(t) /\ DOMAIN (s \o t) = 1..(Len(s) + Len(t))
      /\ Len(s) \in Nat /\ Len(t) \in Nat
  BY <1>1, <1>2
<1>4. \A i \in 1..(Len(s) + Len(t)) : i \in 1..Len(s) \/ (i - Len(s) \in 1..Len(t) /\ i = Len(s) + (i - Len(s)))
  BY <1>3
<1>5. Range(s \o t) = Range(s) \cup Range(t)
  <2>1. ASSUME NEW x \in Range(s \o t) PROVE x \in Range(s) \cup Range(t)
    <3>1. PICK i \in 1..(Len(s) + Len(t)) : x = (s \o t)[i] BY <2>1, <1>3 DEF Range
    <3>2. CASE i \in 1..Len(s) BY <3>1, <3>2, <1>2, <1>3 DEF Range
    <3>3. CASE i - Len(s) \in 1..Len(t) /\ i = Len(s) + (i - Len(s)) BY <3>1, <3>3, <1>2, <1>3 DEF Range
    <3> QED BY <3>2, <3>3, <1>4
  <2>2. \A i \in 1..Len(s) : i \in 1..(Len(s) + Len(t)) BY <1>3
  <2>3. \A i \in 1..Len(t) : Len(s) + i \in 1..(Len(s) + Len(t)) BY <1>3
  <2>4. ASSUME NEW x \in Range(s) \cup Range(t) PROVE x \in Range(s \o t)
    BY <1>2, <1>3, <2>2, <2>3, ZenonT(40) DEF Range
  <2> QED BY <2>1, <2>4
<1>6. Listed(s \o t)
  <2>0. s \o t \in [1..Len(s \o t) -> S] BY <1>2, SequenceIs
  <2>1. s \o t \in [1..(Len(s) + Len(t)) -> S] BY <2>0, <1>2, Zenon
  <2>2. s \o t = [i \in 1..(Len(s) + Len(t)) |-> (s \o t)[i]] BY <2>1
  <2>3. Len(s) + Len(t) \in Nat BY <1>3
  <2> QED BY <2>2, <2>3, ListFrom
<1> QED BY <1>2, <1>5, <1>6

LEMMA ListTail ==
  ASSUME NEW s, Listed(s), s # <<>>
  PROVE  /\ Listed(Tail(s)) /\ Len(s) \in Nat \ {0} /\ Len(Tail(s)) = Len(s) - 1
         /\ \A i \in 1..(Len(s) - 1) : Tail(s)[i] = s[i + 1]
         /\ Head(s) = s[1] /\ Range(s) = Range(Tail(s)) \cup {Head(s)}
<1>1. s \in Seq(Range(s)) /\ Len(s) \in Nat \ {0} /\ DOMAIN s = 1..Len(s) BY DEF Listed
<1>2. /\ Tail(s) \in Seq(Range(s)) /\ Len(Tail(s)) = Len(s) - 1 /\ Head(s) = s[1]
      /\ \A i \in 1..(Len(s) - 1) : Tail(s)[i] = s[i + 1]
  BY <1>1
<1>3. DOMAIN Tail(s) = 1..(Len(s) - 1) /\ Len(s) - 1 \in Nat BY <1>1, <1>2
<1>4. Listed(Tail(s))
  <2>0. Tail(s) \in [1..Len(Tail(s)) -> Range(s)] BY <1>2, SequenceIs
  <2>1. Tail(s) = [i \in 1..(Len(s) - 1) |-> Tail(s)[i]] BY <2>0, <1>2
  <2> QED BY <2>1, <1>3, ListFrom
<1>5. \A i \in 1..Len(s) : i = 1 \/ (i - 1 \in 1..(Len(s) - 1) /\ i = (i - 1) + 1) BY <1>1
<1>6. \A i \in 1..(Len(s) - 1) : i + 1 \in 1..Len(s) BY <1>1
<1>7. Range(s) = Range(Tail(s)) \cup {Head(s)}
  <2>1. ASSUME NEW x \in Range(s) PROVE x \in Range(Tail(s)) \cup {Head(s)}
    <3>1. PICK i \in 1..Len(s) : x = s[i] BY <2>1, <1>1 DEF Range
    <3>2. CASE i = 1 BY <3>1, <3>2, <1>2
    <3>3. CASE i - 1 \in 1..(Len(s) - 1) /\ i = (i - 1) + 1 BY <3>1, <3>3, <1>2, <1>3, ZenonT(40) DEF Range
    <3> QED BY <3>2, <3>3, <1>5
  <2>2. ASSUME NEW x \in Range(Tail(s)) \cup {Head(s)} PROVE x \in Range(s)
    <3>1. 1 \in 1..Len(s) BY <1>1
    <3> QED BY <3>1, <1>1, <1>2, <1>3, <1>6 DEF Range
  <2> QED BY <2>1, <2>2
<1> QED BY <1>1, <1>2, <1>4, <1>7

LEMMA ListOne ==
  ASSUME NEW x
  PROVE  Listed(<<x>>) /\ Len(<<x>>) = 1 /\ <<x>>[1] = x /\ Range(<<x>>) = {x} /\ <<x>> # <<>>
BY DEF Listed, Range

LEMMA ListNone == Listed(<<>>) /\ Range(<<>>) = {} /\ Len(<<>>) = 0
BY DEF Listed, Range

(* The n-th of a set of numbers is one of them, and each is one of these:  *)
(* counting those up to x gives each x a number of its own.                *)
LEMMA NthIsOne ==
  ASSUME NEW m \in Nat, NEW set \in SUBSET (1 .. m)
  PROVE  /\ IsFiniteSet(set) /\ Cardinality(set) \in 0 .. m
         /\ \A n \in 1 .. Cardinality(set) : Nth(set, n) \in set
         /\ \A x \in set : \E n \in 1 .. Cardinality(set) : Nth(set, n) = x
<1> DEFINE Upto(x) == {y \in set : y <= x}
           Count == [x \in set |-> Cardinality(Upto(x))]
           C == Cardinality(set)
<1>1. IsFiniteSet(1 .. m) /\ Cardinality(1 .. m) = m
  <2>1. 1 \in Int /\ m \in Int OBVIOUS
  <2>2. QED BY <2>1, FS_Interval
<1>2. IsFiniteSet(set) /\ C \in Nat /\ C <= m
  BY <1>1, FS_Subset, FS_CardinalityType
<1>3. \A x \in set : /\ IsFiniteSet(Upto(x)) /\ Count[x] = Cardinality(Upto(x))
                     /\ Count[x] \in Nat /\ Count[x] <= C /\ Upto(x) # {}
  <2> TAKE x \in set
  <2>1. Upto(x) \in SUBSET set OBVIOUS
  <2>2. IsFiniteSet(Upto(x)) /\ Cardinality(Upto(x)) <= C BY <2>1, <1>2, FS_Subset
  <2>3. x \in Upto(x) OBVIOUS
  <2>4. QED BY <2>2, <2>3, FS_CardinalityType
<1>4. Count \in [set -> 1 .. C]
  <2>1. \A x \in set : Count[x] # 0 BY <1>3, FS_EmptySet
  <2>2. \A x \in set : Count[x] \in 1 .. C BY <2>1, <1>3, <1>2
  <2>3. QED BY <2>2
<1>5. \A x, y \in set : x < y => Count[x] # Count[y]
  <2> TAKE x, y \in set
  <2> HAVE x < y
  <2>0. \A z \in set : z <= x => z <= y OBVIOUS
  <2>1. Upto(x) \in SUBSET Upto(y) BY <2>0, Zenon
  <2>2. y \in Upto(y) /\ y \notin Upto(x) OBVIOUS
  <2>3. IsFiniteSet(Upto(y)) BY <1>3
  <2>4. Cardinality(Upto(x)) # Cardinality(Upto(y)) BY <2>1, <2>2, <2>3, FS_Subset
  <2>5. QED BY <2>4, <1>3
<1>6. \A x, y \in set : Count[x] = Count[y] => x = y
  <2>1. \A x, y \in set : x < y \/ y < x \/ x = y OBVIOUS
  <2>2. QED BY <2>1, <1>5
<1> HIDE DEF Count
<1>7. Count \in Injection(set, 1 .. C) BY <1>4, <1>6, Zenon DEF Injection, IsInjective
<1>8. IsFiniteSet(1 .. C) /\ Cardinality(1 .. C) = C
  <2>1. 1 \in Int /\ C \in Int BY <1>2
  <2>2. QED BY <2>1, <1>2, FS_Interval
<1>9. Count \in Surjection(set, 1 .. C) BY <1>7, <1>8, FS_Injection
<1>10. \A n \in 1 .. C : \E x \in set : Count[x] = n BY <1>9 DEF Surjection
<1>11. \A n \in 1 .. C : Nth(set, n) \in set /\ Count[Nth(set, n)] = n
  <2> TAKE n \in 1 .. C
  <2>1. PICK x \in set : Count[x] = n BY <1>10
  <2>2. Cardinality({y \in set : y <= x}) = n BY <2>1, <1>3
  <2>3. Nth(set, n) \in set /\ Cardinality({y \in set : y <= Nth(set, n)}) = n BY <2>2 DEF Nth
  <2>4. QED BY <2>3, <1>3
<1>12. ASSUME NEW x \in set PROVE \E n \in 1 .. C : Nth(set, n) = x
  <2>1. Count[x] \in 1 .. C BY <1>4
  <2>2. Nth(set, Count[x]) = x BY <2>1, <1>11, <1>6
  <2>3. QED BY <2>1, <2>2
<1>13. QED BY <1>2, <1>11, <1>12

-----------------------------------------------------------------------------
(* What is written compiles.                                               *)
(* The place of a ref is its only one, so its field is the first of its name.*)
LEMMA FieldOfOne ==
  ASSUME NEW po, RefsUnique(po), IsSequence(po.elements), NEW i \in DOMAIN po.elements
  PROVE  /\ \A j \in DOMAIN po.elements : po.elements[j].ref = po.elements[i].ref => j = i
         /\ FieldOf(po, po.elements[i].ref)[1] = FieldName(po.elements[i])
<1>1. \A j \in DOMAIN po.elements : po.elements[j].ref = po.elements[i].ref => j = i
  BY DEF RefsUnique, IsInjective
<1>2. {j \in DOMAIN po.elements : po.elements[j].ref = po.elements[i].ref} = {i}
  BY <1>1
<1>3. i \in Nat
  BY DEF IsSequence
<1>4. Max({i}) = i
  BY <1>3 DEF Max
<1> QED BY <1>1, <1>2, <1>4 DEF FieldOf

LEMMA FieldsDiffer ==
  ASSUME NEW po, NEW barrel, PageShape(po), RefsUnique(po)
  PROVE  LET fields == PageFile(po, barrel).fields
         IN IsInjective([i \in DOMAIN fields |-> fields[i].name])
<1> DEFINE E == po.elements
           Name(i) == FieldOf(po, E[i].ref)
           fields == PageFile(po, barrel).fields
<1>1. fields = [i \in DOMAIN E |-> [name |-> Name(i), params |-> E[i].dynamic,
                                   reads |-> WrittenHoles(E[i])]]
  BY DEF PageFile
<1>2. \A i \in DOMAIN E : Name(i)[1] = FieldName(E[i])
  BY FieldOfOne DEF PageShape
<1>3. \A i, j \in DOMAIN E : FieldName(E[i]) = FieldName(E[j]) => i = j
  BY DEF RefsUnique, IsInjective
<1> HIDE DEF Name
<1>4. \A i, j \in DOMAIN E : Name(i) = Name(j) => i = j
  BY <1>2, <1>3
<1>5. \A i \in DOMAIN E : fields[i].name = Name(i)
  BY <1>1
<1>6. DOMAIN fields = DOMAIN E
  BY <1>1
<1> QED BY <1>4, <1>5, <1>6 DEF IsInjective

LEMMA MethodsDiffer ==
  ASSUME NEW po, NEW barrel, PageShape(po), MethodNamesUnique(po)
  PROVE  IsInjective(PageFile(po, barrel).methods)
<1> DEFINE s == [i \in DOMAIN po.steps |-> po.steps[i].name]
           v == [i \in DOMAIN po.verifies |-> po.verifies[i].name]
<1>1. /\ DOMAIN po.steps = 1..Len(po.steps) /\ Len(po.steps) \in Nat
      /\ DOMAIN po.verifies = 1..Len(po.verifies) /\ Len(po.verifies) \in Nat
  BY DEF PageShape, IsSequence
<1>2. Listed(s) /\ Len(s) = Len(po.steps)
  <2>1. s = [i \in 1..Len(po.steps) |-> s[i]] BY <1>1
  <2> QED BY <2>1, <1>1, ListFrom
<1>3. Listed(v) /\ Len(v) = Len(po.verifies)
  <2>1. v = [i \in 1..Len(po.verifies) |-> v[i]] BY <1>1
  <2> QED BY <2>1, <1>1, ListFrom
<1>4. \A i \in 1..Len(s) : s[i] \in StepNames
  BY <1>1, <1>2 DEF PageShape, StepShape, Range
<1>5. \A i \in 1..Len(v) : v[i] \in VerifyNames
  BY <1>1, <1>3 DEF PageShape, VerifyShape, Range
<1>6. (\A i, j \in 1..Len(s) : s[i] = s[j] => i = j) /\ \A i, j \in 1..Len(v) : v[i] = v[j] => i = j
  BY <1>1, <1>2, <1>3 DEF MethodNamesUnique, IsInjective
<1>7. PageFile(po, barrel).methods = s \o v
  BY DEF PageFile
<1> HIDE DEF s, v
<1>8. /\ DOMAIN (s \o v) = 1..(Len(s) + Len(v))
      /\ \A i \in 1..Len(s) : (s \o v)[i] = s[i]
      /\ \A i \in 1..Len(v) : (s \o v)[Len(s) + i] = v[i]
  <2>1. Listed(s \o v) /\ Len(s \o v) = Len(s) + Len(v) BY <1>2, <1>3, ListJoined
  <2> QED BY <2>1, <1>2, <1>3, ListJoined, ListedIs, ZenonT(40)
<1>9. \A i \in 1..(Len(s) + Len(v)) :
        \/ i \in 1..Len(s) /\ (s \o v)[i] = s[i]
        \/ i - Len(s) \in 1..Len(v) /\ (s \o v)[i] = v[i - Len(s)] /\ i \notin 1..Len(s)
  <2> TAKE i \in 1..(Len(s) + Len(v))
  <2>1. i \in 1..Len(s) \/ (i - Len(s) \in 1..Len(v) /\ i = Len(s) + (i - Len(s)) /\ i \notin 1..Len(s))
    <3>1. Len(s) \in Nat /\ Len(v) \in Nat BY <1>1, <1>2, <1>3
    <3> QED BY <3>1, InEither
  <2> QED BY <2>1, <1>8
<1>10. ASSUME NEW i \in 1..(Len(s) + Len(v)), NEW j \in 1..(Len(s) + Len(v)), (s \o v)[i] = (s \o v)[j]
       PROVE  i = j
  <2>1. StepNames \cap VerifyNames = {} BY NamesAssumption
  <2>2. CASE i \in 1..Len(s) /\ j \in 1..Len(s) BY <2>2, <1>9, <1>10, <1>6
  <2>3. CASE i \notin 1..Len(s) /\ j \notin 1..Len(s)
    <3>1. i - Len(s) = j - Len(s) BY <2>3, <1>9, <1>10, <1>6
    <3> QED BY <3>1, <1>1, <1>2
  <2>4. CASE i \in 1..Len(s) /\ j \notin 1..Len(s) BY <2>1, <2>4, <1>9, <1>10, <1>4, <1>5
  <2>5. CASE i \notin 1..Len(s) /\ j \in 1..Len(s) BY <2>1, <2>5, <1>9, <1>10, <1>4, <1>5
  <2> QED BY <2>2, <2>3, <2>4, <2>5
<1> QED BY <1>7, <1>8, <1>10 DEF IsInjective

(* Every ref a page uses was looked up among its elements.                 *)
LEMMA UsesFit ==
  ASSUME NEW po, PageFits(po), NEW use \in RefUses(po)
  PROVE  use[1] \in Refs(po) /\ RefArgsFit(po, use[1], use[2])
<1>1. ASSUME NEW a \in Actions(po)
      PROVE  \E step : ActionFits(po, step, a)
  <2>1. PICK i \in DOMAIN po.steps : \E j \in DOMAIN po.steps[i].actions : a = po.steps[i].actions[j]
    BY <1>1 DEF Actions, Range
  <2> QED BY <2>1 DEF PageFits
<1>2. ASSUME NEW a \in Assertions(po)
      PROVE  AssertionFits(po, a)
  <2>1. PICK i \in DOMAIN po.verifies : \E j \in DOMAIN po.verifies[i].assertions : a = po.verifies[i].assertions[j]
    BY <1>2 DEF Assertions, Range
  <2> QED BY <2>1 DEF PageFits
<1>3. CASE use \in {<<a.ref, a.args>> : a \in {x \in Actions(po) : x.ref # None}}
  <2>1. PICK a \in Actions(po) : a.ref # None /\ use = <<a.ref, a.args>> BY <1>3
  <2> QED BY <2>1, <1>1 DEF ActionFits
<1>4. CASE use \in {<<a.to, a.toArgs>> : a \in {x \in Actions(po) : x.do = "drag"}}
  <2>1. PICK a \in Actions(po) : a.do = "drag" /\ use = <<a.to, a.toArgs>> BY <1>4
  <2> QED BY <2>1, <1>1 DEF ActionFits
<1>5. CASE use \in {<<a.ref, a.args>> : a \in {x \in Assertions(po) : x.subject = "element"}}
  <2>1. PICK a \in Assertions(po) : a.subject = "element" /\ use = <<a.ref, a.args>> BY <1>5
  <2> QED BY <2>1, <1>2 DEF AssertionFits
<1> QED BY <1>3, <1>4, <1>5 DEF RefUses

LEMMA UsesAreFields ==
  ASSUME NEW po, NEW barrel, PageShape(po), PageFits(po), NEW use \in RefUses(po)
  PROVE  Located(po, use) \in {<<f.name, Len(f.params)>> : f \in Range(PageFile(po, barrel).fields)}
<1> DEFINE E == po.elements
           fields == PageFile(po, barrel).fields
<1>1. use[1] \in Refs(po) /\ RefArgsFit(po, use[1], use[2])
  BY UsesFit
<1>2. PICK i \in DOMAIN E : E[i].ref = use[1]
  BY <1>1 DEF Refs
<1>3. Len(use[2]) = Len(E[i].dynamic)
  BY <1>1, <1>2 DEF RefArgsFit
<1>4. \A j \in DOMAIN E : E[j].ref = use[1] => j = i
  BY <1>2, FieldOfOne DEF PageFits, PageShape
<1>5. (\E e \in Range(E) : e.ref = use[1] /\ IsDynamic(e)) <=> E[i].dynamic # <<>>
  BY <1>2, <1>4 DEF Range, IsDynamic
<1>6. Located(po, use) = <<FieldOf(po, E[i].ref), Len(E[i].dynamic)>>
  <2>1. E[i].dynamic = <<>> => Len(E[i].dynamic) = 0 OBVIOUS
  <2> QED BY <1>1, <1>2, <1>3, <1>5, <2>1 DEF Located
<1>7. /\ DOMAIN fields = DOMAIN E /\ fields[i].name = FieldOf(po, E[i].ref)
      /\ fields[i].params = E[i].dynamic
  BY DEF PageFile
<1>8. fields[i] \in Range(fields)
  BY <1>7 DEF Range
<1> QED BY <1>6, <1>7, <1>8

(* A page object that is written compiles, as far as the validator looks.  *)
LEMMA PagesCompile ==
  ASSUME NEW po, NEW barrel, PageShape(po), PageFits(po),
         KeysIn(AssertionArgs(po)) # {} => barrel # None
  PROVE  PageCompiles(PageFile(po, barrel)) \/ PageUnlooked(PageFile(po, barrel))
<1> DEFINE file == PageFile(po, barrel)
<1>1. IsInjective([i \in DOMAIN file.fields |-> file.fields[i].name])
  BY FieldsDiffer DEF PageFits
<1>2. IsInjective(file.methods)
  BY MethodsDiffer DEF PageFits
<1>3. file.uses \subseteq {<<f.name, Len(f.params)>> : f \in Range(file.fields)}
  <2>1. file.uses = {Located(po, use) : use \in RefUses(po)} BY DEF PageFile
  <2> QED BY <2>1, UsesAreFields
<1>4. file.bound
  <2>1. ASSUME NEW step \in Range(po.steps), Unbound(step) PROVE FALSE
    <3>1. PICK a \in Range(step.actions) :
             /\ a.do \in {"fill", "select", "type"}
             /\ IF a.param = None THEN a.value = None ELSE a.param \notin Range(step.params)
      BY <2>1 DEF Unbound
    <3>2. ActionFits(po, step, a)
      BY <3>1 DEF PageFits, Range
    <3>3. ValueOrParam(step, a)
      BY <3>1, <3>2 DEF ActionFits
    <3> QED BY <3>1, <3>3 DEF ValueOrParam, Range
  <2>2. file.bound = \A step \in Range(po.steps) : ~Unbound(step) BY DEF PageFile
  <2> QED BY <2>1, <2>2
<1>5. file.parses
  <2>1. ASSUME NEW e \in AssertionArgs(po) PROVE Parses(e)
    <3>1. PICK i \in DOMAIN po.verifies :
             \E j \in DOMAIN po.verifies[i].assertions :
               e = po.verifies[i].assertions[j].arg /\ e # None
      BY <2>1 DEF AssertionArgs, Range
    <3> QED BY <3>1 DEF PageFits, AssertionFits
  <2>2. ASSUME NEW e \in DynamicArgs(po) PROVE Parses(e)
    <3>1. PICK use \in RefUses(po) : e \in Range(use[2])
      BY <2>2 DEF DynamicArgs
    <3>2. use[1] \in Refs(po) /\ RefArgsFit(po, use[1], use[2])
      BY UsesFit
    <3> QED BY <3>1, <3>2 DEF RefArgsFit, Refs, Range
  <2>3. file.parses = \A e \in AssertionArgs(po) \cup DynamicArgs(po) : Parses(e) BY DEF PageFile
  <2> QED BY <2>1, <2>2, <2>3
<1>6. file.keys # {} => file.imports # None
  BY DEF PageFile
<1>7. CASE file.refKeys # {} /\ file.imports = None
  BY <1>7 DEF PageUnlooked
<1>8. CASE \E f \in Range(file.fields) : ~(f.reads \subseteq Range(f.params))
  BY <1>8 DEF PageUnlooked
<1> HIDE DEF file
<1>9. CASE /\ ~(file.refKeys # {} /\ file.imports = None)
           /\ \A f \in Range(file.fields) : f.reads \subseteq Range(f.params)
  <2>1. \A f \in Range(file.fields) : f.reads \subseteq Range(f.params) BY <1>9
  <2>2. file.keys \cup file.refKeys # {} => file.imports # None BY <1>6, <1>9
  <2>3. PageCompiles(file) BY <1>1, <1>2, <1>3, <1>4, <1>5, <2>1, <2>2 DEF PageCompiles
  <2> QED BY <2>3 DEF file
<1> QED BY <1>7, <1>8, <1>9

LEMMA ClientsCompile ==
  ASSUME NEW client,
         IsInjective([i \in DOMAIN client.methods |-> client.methods[i].name]),
         \A method \in Range(client.methods) : NoLeadingSlash(method) /\ PathParamsAgree(method)
  PROVE  ClientCompiles(ClientFile(client))
BY DEF ClientCompiles, ClientFile, NoLeadingSlash, PathParamsAgree

LEMMA BuildersCompile ==
  ASSUME NEW builder,
         \A field \in Range(builder.fields) :
           /\ field.string => StringExpression(field.default)
           /\ Parses(field.default)
  PROVE  BuilderCompiles(BuilderFile(builder)) \/ BuilderUnlooked(BuilderFile(builder))
BY DEF BuilderCompiles, BuilderFile, BuilderUnlooked, StringExpression

-----------------------------------------------------------------------------
(* What a call writes: the code first, then the loader, the config, the    *)
(* spec, and what may come after it.                                       *)
CodeDirs == {"pages", "panels", "clients", "builders"}

Turn(path) == IF path[1] \in CodeDirs THEN 1
              ELSE IF path[1] \notin Layers THEN 5
              ELSE IF path[2] = "loader" THEN 2
              ELSE IF path[2] = "config" THEN 3 ELSE 4

Before(e, f) == \/ Turn(e.path) < Turn(f.path)
                \/ Turn(e.path) = Turn(f.path) /\ Turn(e.path) \in {1, 5}
Ranked(w) == \A i, j \in DOMAIN w : i < j => Before(w[i], w[j])

BuildersIn(input) ==
  IF input.mode = "create_api" THEN input.schema.builders ELSE <<>>

CodePaths(input) ==
  {PagePath(p) : p \in Range(PagesIn(input))} \cup {ClientPath(c) : c \in Range(ClientsIn(input))}
    \cup {BuilderPath(b) : b \in Range(BuildersIn(input))}

NewLoader(input, loader) ==
  IF LayerOf(input) = "ui"
  THEN WithPages(loader, PagesIn(input), input.feature,
                 input.mode = "create" /\ HasExpected(input.schema.expected))
  ELSE WithClients(loader, ClientsIn(input))

NewConfig(input, config) ==
  IF LayerOf(input) = "ui" THEN WithPageFixtures(config, PagesIn(input))
  ELSE IF input.mode = "create_api"
       THEN WithAuth(WithClientFixtures(config, ClientsIn(input)), input.schema.spec.auth)
       ELSE WithClientFixtures(config, ClientsIn(input))

NewSpec(input) ==
  IF input.mode = "create" THEN SpecFile(input.schema, input.feature)
                           ELSE ApiSpecFile(input.schema, input.feature)

LEMMA PathRanks ==
  /\ \A p : PagePath(p)[1] \in {"pages", "panels"} /\ Turn(PagePath(p)) = 1
  /\ \A c : ClientPath(c)[1] = "clients" /\ Turn(ClientPath(c)) = 1
  /\ \A b : BuilderPath(b)[1] = "builders" /\ Turn(BuilderPath(b)) = 1
  /\ \A l \in Layers : /\ LoaderPath(l)[1] = l /\ Turn(LoaderPath(l)) = 2
                       /\ ConfigPath(l)[1] = l /\ Turn(ConfigPath(l)) = 3
                       /\ \A f : SpecPath(l, f)[1] = l /\ Turn(SpecPath(l, f)) = 4
  /\ SetupPath[1] = "auth.setup" /\ Turn(SetupPath) = 5
  /\ \A f : DataPath(f)[1] = "data" /\ Turn(DataPath(f)) = 5
BY DEF PagePath, ClientPath, BuilderPath, LoaderPath, ConfigPath, SpecPath, SetupPath, DataPath,
       Turn, CodeDirs, Layers

LEMMA RankedJoined ==
  ASSUME NEW s, NEW t, Listed(s), Listed(t), Ranked(s), Ranked(t),
         \A e \in Range(s), f \in Range(t) : Before(e, f)
  PROVE  Ranked(s \o t)
<1>1. /\ Listed(s \o t) /\ Len(s \o t) = Len(s) + Len(t)
      /\ \A i \in 1..Len(s) : (s \o t)[i] = s[i]
      /\ \A i \in 1..Len(t) : (s \o t)[Len(s) + i] = t[i]
  BY ListJoined
<1>2. /\ DOMAIN s = 1..Len(s) /\ Len(s) \in Nat /\ DOMAIN t = 1..Len(t) /\ Len(t) \in Nat
      /\ DOMAIN (s \o t) = 1..(Len(s) + Len(t))
  BY <1>1, ListedIs
<1> SUFFICES ASSUME NEW i \in 1..(Len(s) + Len(t)), NEW j \in 1..(Len(s) + Len(t)), i < j
             PROVE  Before((s \o t)[i], (s \o t)[j])
  BY <1>2 DEF Ranked
<1>3. i \in 1..Len(s) \/ (i - Len(s) \in 1..Len(t) /\ i = Len(s) + (i - Len(s)) /\ i \notin 1..Len(s))
  BY <1>2, InEither
<1>4. j \in 1..Len(s) \/ (j - Len(s) \in 1..Len(t) /\ j = Len(s) + (j - Len(s)) /\ j \notin 1..Len(s))
  BY <1>2, InEither
<1>5. CASE i \in 1..Len(s) /\ j \in 1..Len(s)
  BY <1>5, <1>1, <1>2 DEF Ranked
<1>6. CASE i \in 1..Len(s) /\ j \notin 1..Len(s)
  <2>1. (s \o t)[i] \in Range(s) BY <1>6, <1>1, <1>2 DEF Range
  <2>2. (s \o t)[j] = t[j - Len(s)] BY <1>6, <1>4, <1>1
  <2>3. (s \o t)[j] \in Range(t) BY <2>2, <1>6, <1>4, <1>2 DEF Range
  <2> QED BY <2>1, <2>3
<1>7. CASE i \notin 1..Len(s) /\ j \notin 1..Len(s)
  <2>1. i - Len(s) \in 1..Len(t) /\ j - Len(s) \in 1..Len(t) BY <1>3, <1>4, <1>7
  <2>2. i - Len(s) < j - Len(s) BY <1>2
  <2>3. (s \o t)[i] = t[i - Len(s)] BY <1>7, <1>3, <1>1
  <2>4. (s \o t)[j] = t[j - Len(s)] BY <1>7, <1>4, <1>1
  <2> QED BY <2>1, <2>2, <2>3, <2>4, <1>2 DEF Ranked
<1>8. CASE i \notin 1..Len(s) /\ j \in 1..Len(s)
  <2>1. FALSE BY <1>8, <1>2
  <2> QED BY <2>1
<1> QED BY <1>5, <1>6, <1>7, <1>8

(* A list of files all of one kind. *)
LEMMA RankedCode ==
  ASSUME NEW n \in Nat, NEW s, s = [i \in 1..n |-> s[i]],
         \A i \in 1..n : Turn(s[i].path) = 1
  PROVE  Listed(s) /\ Ranked(s) /\ \A e \in Range(s) : Turn(e.path) = 1
<1>1. Listed(s) /\ DOMAIN s = 1..n BY ListFrom
<1>2. Ranked(s) BY <1>1 DEF Ranked, Before
<1> QED BY <1>1, <1>2 DEF Range

LEMMA OwnedAre ==
  ASSUME NEW input, IsSequence(input.schema.pages)
  PROVE  /\ Listed(OwnedPages(input))
         /\ Range(OwnedPages(input)) = {p \in Range(input.schema.pages) : p.owner = input.feature}
<1> DEFINE pages == input.schema.pages
           owned == {i \in DOMAIN pages : pages[i].owner = input.feature}
           own == OwnedPages(input)
<1>1. DOMAIN pages = 1..Len(pages) /\ Len(pages) \in Nat BY DEF IsSequence
<1>2. owned \in SUBSET (1..Len(pages)) BY <1>1
<1>3. /\ Cardinality(owned) \in Nat
      /\ \A n \in 1..Cardinality(owned) : Nth(owned, n) \in owned
      /\ \A x \in owned : \E n \in 1..Cardinality(owned) : Nth(owned, n) = x
  <2>1. Len(pages) \in Nat BY <1>1
  <2> HIDE DEF owned
  <2> QED BY <1>2, <2>1, NthIsOne
<1>4. own = [m \in 1..Cardinality(owned) |-> pages[Nth(owned, m)]] BY DEF OwnedPages
<1> HIDE DEF own
<1>5. DOMAIN own = 1..Cardinality(owned) /\ \A m \in 1..Cardinality(owned) : own[m] = pages[Nth(owned, m)]
  BY <1>4
<1>6. Listed(own)
  <2>1. own = [m \in 1..Cardinality(owned) |-> own[m]] BY <1>4
  <2> QED BY <2>1, <1>3, ListFrom
<1>7. Range(own) = {p \in Range(pages) : p.owner = input.feature}
  <2>1. ASSUME NEW p \in Range(own) PROVE p \in Range(pages) /\ p.owner = input.feature
    <3>1. PICK m \in 1..Cardinality(owned) : p = pages[Nth(owned, m)] BY <2>1, <1>5 DEF Range
    <3>2. Nth(owned, m) \in owned BY <1>3
    <3> QED BY <3>1, <3>2 DEF Range
  <2>2. ASSUME NEW p \in Range(pages), p.owner = input.feature PROVE p \in Range(own)
    <3>1. PICK i \in DOMAIN pages : p = pages[i] BY DEF Range
    <3>2. i \in owned BY <3>1, <2>2
    <3>3. PICK n \in 1..Cardinality(owned) : Nth(owned, n) = i BY <3>2, <1>3
    <3> QED BY <3>1, <3>3, <1>5 DEF Range
  <2> QED BY <2>1, <2>2
<1> QED BY <1>6, <1>7 DEF own

LEMMA EntryParts == \A path, content : FileEntry(path, content).path = path
                                       /\ FileEntry(path, content).content = content
BY DEF FileEntry

LEMMA ThreeRanked ==
  ASSUME NEW a, NEW b, NEW c, Before(a, b), Before(b, c), Before(a, c)
  PROVE  Listed(<<a, b, c>>) /\ Ranked(<<a, b, c>>) /\ Range(<<a, b, c>>) = {a, b, c}
<1>1. /\ DOMAIN <<a, b, c>> = 1..3
      /\ <<a, b, c>>[1] = a /\ <<a, b, c>>[2] = b /\ <<a, b, c>>[3] = c
  OBVIOUS
<1>2. Listed(<<a, b, c>>) BY DEF Listed, Range
<1>3. Ranked(<<a, b, c>>) BY <1>1 DEF Ranked
<1>4. Range(<<a, b, c>>) = {a, b, c} BY <1>1 DEF Range
<1> QED BY <1>2, <1>3, <1>4

LEMMA OneRanked ==
  ASSUME NEW a
  PROVE  Listed(<<a>>) /\ Ranked(<<a>>) /\ Range(<<a>>) = {a}
<1>1. DOMAIN <<a>> = 1..1 OBVIOUS
<1>2. Ranked(<<a>>) BY <1>1 DEF Ranked
<1> QED BY <1>2, ListOne

LEMMA NoneRanked == Listed(<<>>) /\ Ranked(<<>>) /\ Range(<<>>) = {}
BY ListNone DEF Ranked

LayerEntries(input, loader, config) ==
  {FileEntry(LoaderPath(LayerOf(input)), NewLoader(input, loader)),
   FileEntry(ConfigPath(LayerOf(input)), NewConfig(input, config))}
SpecEntry(input) == FileEntry(SpecPath(LayerOf(input), input.feature), NewSpec(input))

(* expected.json is written last. *)
LEMMA ExpectedRanked ==
  ASSUME NEW input
  PROVE  /\ Listed(ExpectedEntry(input)) /\ Ranked(ExpectedEntry(input))
         /\ Range(ExpectedEntry(input)) =
              IF HasExpected(input.schema.expected)
              THEN {FileEntry(DataPath(input.feature), DOMAIN input.schema.expected)} ELSE {}
BY OneRanked, NoneRanked DEF ExpectedEntry

LEMMA NotEmpty ==
  ASSUME NEW s, Range(s) # {} PROVE s # <<>>
BY DEF Range

LEMMA CreateWritesAre ==
  ASSUME NEW input, InputShape(input), input.mode = "create", NEW loader, NEW config,
         NEW w, w = Writes(input, loader, config)
  PROVE  /\ Listed(w) /\ Ranked(w) /\ w # <<>>
         /\ Range(w) =
              {FileEntry(PagePath(p), PageFile(p, BarrelFor(input.schema, input.feature))) :
                  p \in Range(OwnedPages(input))}
              \cup LayerEntries(input, loader, config) \cup {SpecEntry(input)}
              \cup (IF input.schema.spec.setup
                    THEN {FileEntry(SetupPath, AuthSetupFile(input.schema, input.feature))} ELSE {})
              \cup (IF HasExpected(input.schema.expected)
                    THEN {FileEntry(DataPath(input.feature), DOMAIN input.schema.expected)} ELSE {})
<1> DEFINE own == OwnedPages(input)
           Of(p) == FileEntry(PagePath(p), PageFile(p, BarrelFor(input.schema, input.feature)))
           code == [i \in DOMAIN own |-> Of(own[i])]
           L == FileEntry(LoaderPath("ui"), NewLoader(input, loader))
           K == FileEntry(ConfigPath("ui"), NewConfig(input, config))
           S == FileEntry(SpecPath("ui", input.feature), NewSpec(input))
           A == FileEntry(SetupPath, AuthSetupFile(input.schema, input.feature))
           auth == IF input.schema.spec.setup THEN <<A>> ELSE <<>>
           last == ExpectedEntry(input)
<1>0. LayerOf(input) = "ui" /\ "ui" \in Layers BY DEF LayerOf, Layers
<1>1. w = ((code \o <<L, K, S>>) \o auth) \o last
  <2>1. Writes(input, loader, config) = CreateWrites(input, loader, config) BY DEF Writes
  <2>2. PagesIn(input) = own BY DEF PagesIn
  <2>3. L = FileEntry(LoaderPath("ui"), WithPages(loader, own, input.feature,
                                                  HasExpected(input.schema.expected)))
    <3>1. (input.mode = "create" /\ HasExpected(input.schema.expected)) = HasExpected(input.schema.expected)
      BY DEF HasExpected
    <3> QED BY <3>1, <2>2, <1>0 DEF NewLoader
  <2>4. K = FileEntry(ConfigPath("ui"), WithPageFixtures(config, own)) BY <1>0, <2>2 DEF NewConfig
  <2>5. S = FileEntry(SpecPath("ui", input.feature), SpecFile(input.schema, input.feature)) BY DEF NewSpec
  <2> HIDE DEF L, K, S, last
  <2> QED BY <2>1, <2>3, <2>4, <2>5 DEF CreateWrites, last
<1>2. Listed(own) BY OwnedAre DEF InputShape, Appending, SchemaShape
<1>3. DOMAIN own = 1..Len(own) /\ Len(own) \in Nat BY <1>2, ListedIs
<1>4. /\ Listed(code) /\ Ranked(code) /\ \A e \in Range(code) : Turn(e.path) = 1
  <2>1. code = [i \in 1..Len(own) |-> code[i]] BY <1>3
  <2>2. \A i \in 1..Len(own) : Turn(code[i].path) = 1 BY <1>3, PathRanks, EntryParts
  <2> HIDE DEF code
  <2> QED BY <2>1, <2>2, <1>3, RankedCode
<1>5. Range(code) = {Of(p) : p \in Range(own)}
  <2>1. DOMAIN code = DOMAIN own /\ \A i \in DOMAIN own : code[i] = Of(own[i]) OBVIOUS
  <2> HIDE DEF code, Of
  <2> QED BY <2>1 DEF Range
<1>6. Turn(L.path) = 2 /\ Turn(K.path) = 3 /\ Turn(S.path) = 4 /\ Turn(A.path) = 5
  BY <1>0, PathRanks, EntryParts
<1>7. Listed(<<L, K, S>>) /\ Ranked(<<L, K, S>>) /\ Range(<<L, K, S>>) = {L, K, S}
  <2> HIDE DEF L, K, S
  <2>1. Before(L, K) /\ Before(K, S) /\ Before(L, S) BY <1>6 DEF Before
  <2> QED BY <2>1, ThreeRanked
<1>8. Listed(auth) /\ Ranked(auth) /\ Range(auth) = IF input.schema.spec.setup THEN {A} ELSE {}
  BY OneRanked, NoneRanked
<1>9. /\ Listed(last) /\ Ranked(last)
      /\ Range(last) = IF HasExpected(input.schema.expected)
                       THEN {FileEntry(DataPath(input.feature), DOMAIN input.schema.expected)} ELSE {}
  BY ExpectedRanked
<1>10. \A e \in Range(last) : Turn(e.path) = 5 BY <1>9, PathRanks, EntryParts
<1>11. \A e \in Range(auth) : Turn(e.path) = 5 BY <1>8, <1>6
<1> HIDE DEF code, L, K, S, A, auth, last
<1>12. /\ Listed(code \o <<L, K, S>>) /\ Ranked(code \o <<L, K, S>>)
       /\ Range(code \o <<L, K, S>>) = Range(code) \cup {L, K, S}
  <2>1. \A e \in Range(code), f \in {L, K, S} : Before(e, f) BY <1>4, <1>6 DEF Before
  <2> QED BY <2>1, <1>4, <1>7, ListJoined, RankedJoined
<1>13. \A e \in Range(code \o <<L, K, S>>) : Turn(e.path) \in 1..4 BY <1>12, <1>4, <1>6
<1>14. /\ Listed((code \o <<L, K, S>>) \o auth) /\ Ranked((code \o <<L, K, S>>) \o auth)
       /\ Range((code \o <<L, K, S>>) \o auth) = Range(code) \cup {L, K, S} \cup Range(auth)
  <2>1. \A e \in Range(code \o <<L, K, S>>), f \in Range(auth) : Before(e, f) BY <1>13, <1>11 DEF Before
  <2> QED BY <2>1, <1>12, <1>8, ListJoined, RankedJoined
<1>15. /\ Listed(w) /\ Ranked(w)
       /\ Range(w) = Range(code) \cup {L, K, S} \cup Range(auth) \cup Range(last)
  <2>1. \A e \in Range((code \o <<L, K, S>>) \o auth) : Turn(e.path) \in 1..5
    BY <1>14, <1>4, <1>6, <1>11
  <2>2. \A e \in Range((code \o <<L, K, S>>) \o auth), f \in Range(last) : Before(e, f)
    BY <2>1, <1>10 DEF Before
  <2> DEFINE most == (code \o <<L, K, S>>) \o auth
  <2> HIDE DEF most
  <2>3. /\ Listed(most \o last) /\ Ranked(most \o last)
        /\ Range(most \o last) = Range(most) \cup Range(last)
    BY <2>2, <1>14, <1>9, ListJoined, RankedJoined DEF most
  <2> QED BY <2>3, <1>1, <1>14 DEF most
<1>16. LayerEntries(input, loader, config) = {L, K} /\ SpecEntry(input) = S
  BY <1>0 DEF LayerEntries, SpecEntry, L, K, S
<1>17. Range(w) = Range(code) \cup LayerEntries(input, loader, config) \cup {SpecEntry(input)} \cup Range(auth) \cup Range(last)
  BY <1>15, <1>16
<1>18. w # <<>> BY <1>17, NotEmpty
<1> QED BY <1>5, <1>8, <1>9, <1>15, <1>17, <1>18 DEF A

LEMMA ApiWritesAre ==
  ASSUME NEW input, InputShape(input), input.mode = "create_api", NEW loader, NEW config,
         NEW w, w = Writes(input, loader, config)
  PROVE  /\ Listed(w) /\ Ranked(w) /\ w # <<>>
         /\ Range(w) =
              {FileEntry(ClientPath(c), ClientFile(c)) : c \in Range(input.schema.clients)}
              \cup {FileEntry(BuilderPath(b), BuilderFile(b)) : b \in Range(input.schema.builders)}
              \cup LayerEntries(input, loader, config) \cup {SpecEntry(input)}
              \cup (IF HasExpected(input.schema.expected)
                    THEN {FileEntry(DataPath(input.feature), DOMAIN input.schema.expected)} ELSE {})
<1> DEFINE cl == input.schema.clients
           bl == input.schema.builders
           OfC(c) == FileEntry(ClientPath(c), ClientFile(c))
           OfB(b) == FileEntry(BuilderPath(b), BuilderFile(b))
           clients == [i \in DOMAIN cl |-> OfC(cl[i])]
           builders == [i \in DOMAIN bl |-> OfB(bl[i])]
           L == FileEntry(LoaderPath("api"), NewLoader(input, loader))
           K == FileEntry(ConfigPath("api"), NewConfig(input, config))
           S == FileEntry(SpecPath("api", input.feature), NewSpec(input))
           last == ExpectedEntry(input)
<1>0. LayerOf(input) = "api" /\ "api" \in Layers BY DEF LayerOf, Layers
<1>1. w = ((clients \o builders) \o <<L, K, S>>) \o last
  <2>1. Writes(input, loader, config) = CreateApiWrites(input, loader, config) BY DEF Writes
  <2>2. ClientsIn(input) = cl BY DEF ClientsIn
  <2>3. L = FileEntry(LoaderPath("api"), WithClients(loader, cl)) BY <1>0, <2>2 DEF NewLoader
  <2>4. K = FileEntry(ConfigPath("api"), WithAuth(WithClientFixtures(config, cl), input.schema.spec.auth))
    BY <1>0, <2>2 DEF NewConfig
  <2>5. S = FileEntry(SpecPath("api", input.feature), ApiSpecFile(input.schema, input.feature)) BY DEF NewSpec
  <2> HIDE DEF L, K, S, last
  <2> QED BY <2>1, <2>3, <2>4, <2>5 DEF CreateApiWrites, last
<1>2. /\ DOMAIN cl = 1..Len(cl) /\ Len(cl) \in Nat /\ DOMAIN bl = 1..Len(bl) /\ Len(bl) \in Nat
  BY DEF InputShape, Appending, ApiSchemaShape, IsSequence
<1>3. /\ Listed(clients) /\ Ranked(clients) /\ \A e \in Range(clients) : Turn(e.path) = 1
  <2>1. clients = [i \in 1..Len(cl) |-> clients[i]] BY <1>2
  <2>2. \A i \in 1..Len(cl) : Turn(clients[i].path) = 1 BY <1>2, PathRanks, EntryParts
  <2> HIDE DEF clients
  <2> QED BY <2>1, <2>2, <1>2, RankedCode
<1>4. /\ Listed(builders) /\ Ranked(builders) /\ \A e \in Range(builders) : Turn(e.path) = 1
  <2>1. builders = [i \in 1..Len(bl) |-> builders[i]] BY <1>2
  <2>2. \A i \in 1..Len(bl) : Turn(builders[i].path) = 1 BY <1>2, PathRanks, EntryParts
  <2> HIDE DEF builders
  <2> QED BY <2>1, <2>2, <1>2, RankedCode
<1>5. Range(clients) = {OfC(c) : c \in Range(cl)} /\ Range(builders) = {OfB(b) : b \in Range(bl)}
  <2>1. DOMAIN clients = DOMAIN cl /\ \A i \in DOMAIN cl : clients[i] = OfC(cl[i]) OBVIOUS
  <2>2. DOMAIN builders = DOMAIN bl /\ \A i \in DOMAIN bl : builders[i] = OfB(bl[i]) OBVIOUS
  <2> HIDE DEF clients, builders, OfC, OfB
  <2> QED BY <2>1, <2>2 DEF Range
<1>6. Turn(L.path) = 2 /\ Turn(K.path) = 3 /\ Turn(S.path) = 4
  BY <1>0, PathRanks, EntryParts
<1>7. Listed(<<L, K, S>>) /\ Ranked(<<L, K, S>>) /\ Range(<<L, K, S>>) = {L, K, S}
  <2> HIDE DEF L, K, S
  <2>1. Before(L, K) /\ Before(K, S) /\ Before(L, S) BY <1>6 DEF Before
  <2> QED BY <2>1, ThreeRanked
<1>8. /\ Listed(last) /\ Ranked(last)
      /\ Range(last) = IF HasExpected(input.schema.expected)
                       THEN {FileEntry(DataPath(input.feature), DOMAIN input.schema.expected)} ELSE {}
  BY ExpectedRanked
<1>9. \A e \in Range(last) : Turn(e.path) = 5 BY <1>8, PathRanks, EntryParts
<1> HIDE DEF clients, builders, L, K, S, last
<1> DEFINE code == clients \o builders
<1>10. /\ Listed(code) /\ Ranked(code) /\ Range(code) = Range(clients) \cup Range(builders)
  <2>1. \A e \in Range(clients), f \in Range(builders) : Before(e, f) BY <1>3, <1>4 DEF Before
  <2> QED BY <2>1, <1>3, <1>4, ListJoined, RankedJoined
<1>11. \A e \in Range(code) : Turn(e.path) = 1 BY <1>10, <1>3, <1>4
<1> HIDE DEF code
<1> DEFINE most == code \o <<L, K, S>>
<1>12. /\ Listed(most) /\ Ranked(most) /\ Range(most) = Range(code) \cup {L, K, S}
  <2>1. \A e \in Range(code), f \in {L, K, S} : Before(e, f) BY <1>11, <1>6 DEF Before
  <2> QED BY <2>1, <1>10, <1>7, ListJoined, RankedJoined, SMTT(30)
<1>13. \A e \in Range(most) : Turn(e.path) \in 1..4 BY <1>12, <1>11, <1>6
<1> HIDE DEF most
<1>14. /\ Listed(most \o last) /\ Ranked(most \o last)
       /\ Range(most \o last) = Range(most) \cup Range(last)
  <2>1. \A e \in Range(most), f \in Range(last) : Before(e, f) BY <1>13, <1>9 DEF Before
  <2> QED BY <2>1, <1>12, <1>8, ListJoined, RankedJoined
<1>15. w = most \o last BY <1>1 DEF most, code
<1>16. LayerEntries(input, loader, config) = {L, K} /\ SpecEntry(input) = S
  BY <1>0 DEF LayerEntries, SpecEntry, L, K, S
<1>17. Range(w) = Range(clients) \cup Range(builders) \cup LayerEntries(input, loader, config)
                    \cup {SpecEntry(input)} \cup Range(last)
  BY <1>15, <1>14, <1>12, <1>10, <1>16
<1>18. w # <<>> BY <1>17, NotEmpty
<1> QED BY <1>5, <1>8, <1>14, <1>15, <1>17, <1>18

LEMMA RegisterWritesAre ==
  ASSUME NEW input, input.mode \in {"register_page", "register_client"}, NEW loader, NEW config,
         NEW w, w = Writes(input, loader, config)
  PROVE  /\ Listed(w) /\ Ranked(w) /\ w # <<>>
         /\ Range(w) =
              {FileEntry(PagePath(p), PageFile(p, None)) : p \in Range(PagesIn(input))}
              \cup {FileEntry(ClientPath(c), ClientFile(c)) : c \in Range(ClientsIn(input))}
              \cup LayerEntries(input, loader, config)
<1> DEFINE layer == LayerOf(input)
           C == IF input.mode = "register_page" THEN FileEntry(PagePath(input.page), PageFile(input.page, None))
                ELSE FileEntry(ClientPath(input.client), ClientFile(input.client))
           L == FileEntry(LoaderPath(layer), NewLoader(input, loader))
           K == FileEntry(ConfigPath(layer), NewConfig(input, config))
<1>0. layer \in Layers BY DEF LayerOf, Layers
<1>1. w = <<C, L, K>>
  <2>1. CASE input.mode = "register_page"
    <3>1. layer = "ui" /\ PagesIn(input) = <<input.page>> BY <2>1 DEF LayerOf, PagesIn
    <3>2. (input.mode = "create" /\ HasExpected(input.schema.expected)) = FALSE BY <2>1
    <3>3. NewLoader(input, loader) = WithPages(loader, <<input.page>>, input.feature, FALSE)
      BY <3>1, <3>2 DEF NewLoader
    <3>4. NewConfig(input, config) = WithPageFixtures(config, <<input.page>>) BY <3>1 DEF NewConfig
    <3>5. C = FileEntry(PagePath(input.page), PageFile(input.page, None)) BY <2>1
    <3>6. w = RegisterPageWrites(input, loader, config) BY <2>1 DEF Writes
    <3> HIDE DEF C
    <3> QED BY <3>1, <3>3, <3>4, <3>5, <3>6 DEF RegisterPageWrites
  <2>2. CASE input.mode = "register_client"
    <3>1. layer = "api" /\ ClientsIn(input) = <<input.client>> BY <2>2 DEF LayerOf, ClientsIn
    <3>2. NewLoader(input, loader) = WithClients(loader, <<input.client>>)
      BY <3>1 DEF NewLoader
    <3>3. NewConfig(input, config) = WithClientFixtures(config, <<input.client>>) BY <2>2, <3>1 DEF NewConfig
    <3>4. C = FileEntry(ClientPath(input.client), ClientFile(input.client)) BY <2>2
    <3>5. w = RegisterClientWrites(input, loader, config) BY <2>2 DEF Writes
    <3> HIDE DEF C
    <3> QED BY <3>1, <3>2, <3>3, <3>4, <3>5 DEF RegisterClientWrites
  <2> QED BY <2>1, <2>2
<1>2. Turn(C.path) = 1 /\ Turn(L.path) = 2 /\ Turn(K.path) = 3
  BY <1>0, PathRanks, EntryParts
<1>3. {FileEntry(PagePath(p), PageFile(p, None)) : p \in Range(PagesIn(input))}
        \cup {FileEntry(ClientPath(c), ClientFile(c)) : c \in Range(ClientsIn(input))} = {C}
  BY ListOne, ListNone DEF PagesIn, ClientsIn
<1>4. LayerEntries(input, loader, config) = {L, K} BY DEF LayerEntries
<1> HIDE DEF C, L, K
<1>5. Listed(w) /\ Ranked(w) /\ Range(w) = {C, L, K}
  <2>1. Before(C, L) /\ Before(L, K) /\ Before(C, K) BY <1>2 DEF Before
  <2> QED BY <2>1, <1>1, ThreeRanked
<1>6. w # <<>> BY <1>5, NotEmpty
<1> QED BY <1>3, <1>4, <1>5, <1>6

LEMMA CreatedPagesCompile ==
  ASSUME NEW input, InputShape(input), input.mode = "create", Accepted(input),
         NEW p \in Range(OwnedPages(input))
  PROVE  Compiles(PagePath(p), PageFile(p, BarrelFor(input.schema, input.feature)))
<1> DEFINE schema == input.schema
           barrel == BarrelFor(schema, input.feature)
<1>1. SchemaShape(schema) /\ input.feature \in DOMAIN CamelOf BY DEF InputShape, Appending
<1>2. p \in Range(schema.pages) BY <1>1, OwnedAre DEF SchemaShape
<1>3. Valid(schema, input.feature) BY DEF Accepted
<1>4. PageShape(p) BY <1>1, <1>2 DEF SchemaShape
<1>5. PageFits(p) BY <1>2, <1>3 DEF Valid, StructureFits, Range
<1>6. KeysIn(AssertionArgs(p)) # {} => barrel # None
  <2>1. ASSUME NEW expr \in AssertionArgs(p), expr.keys # {} PROVE schema.expected # None
    BY <2>1, <1>2, <1>3 DEF Valid, ExpectedFits, ExpectedRefsFit
  <2>2. schema.expected # None => barrel # None
    BY <1>1, NamesAssumption DEF BarrelFor
  <2> QED BY <2>1, <2>2 DEF KeysIn
<1> QED BY <1>4, <1>5, <1>6, PagesCompile, PathRanks DEF Compiles

LEMMA RegisteredPageCompiles ==
  ASSUME NEW input, InputShape(input), input.mode = "register_page", Accepted(input)
  PROVE  Compiles(PagePath(input.page), PageFile(input.page, None))
<1> DEFINE po == input.page
           schema == PageAlone(po)
<1>1. PageShape(po) BY DEF InputShape, Appending
<1>2. Valid(schema, input.feature) BY DEF Accepted, PageRegistrable
<1>3. schema.pages = <<po>> /\ schema.expected = None BY DEF PageAlone
<1> HIDE DEF schema
<1>4. PageFits(po) BY <1>2, <1>3 DEF Valid, StructureFits
<1>5. po \in Range(schema.pages) BY <1>3, ListOne
<1>6. KeysIn(AssertionArgs(po)) = {}
  <2>1. ASSUME NEW expr \in AssertionArgs(po), expr.keys # {} PROVE FALSE
    BY <2>1, <1>5, <1>2, <1>3 DEF Valid, ExpectedFits, ExpectedRefsFit
  <2> QED BY <2>1 DEF KeysIn
<1> QED BY <1>1, <1>4, <1>6, PagesCompile, PathRanks DEF Compiles

LEMMA WrittenClientsCompile ==
  ASSUME NEW input, InputShape(input), Accepted(input), NEW c \in Range(ClientsIn(input))
  PROVE  Compiles(ClientPath(c), ClientFile(c))
<1>1. CASE input.mode = "create_api"
  <2>1. ClientsFit(input.schema, input.feature) BY <1>1 DEF Accepted, ApiValid
  <2>2. c \in Range(input.schema.clients) BY <1>1 DEF ClientsIn
  <2>3. ClientCompiles(ClientFile(c)) BY <2>1, <2>2, ClientsCompile DEF ClientsFit
  <2> QED BY <2>3, PathRanks DEF Compiles
<1>2. CASE input.mode = "register_client"
  <2>1. ClientsFit(ClientAlone(input.client), input.feature)
    BY <1>2 DEF Accepted, ClientRegistrable, ApiValid
  <2>2. c = input.client
    <3>1. ClientsIn(input) = <<input.client>> BY <1>2 DEF ClientsIn
    <3> QED BY <3>1, ListOne
  <2>3. c \in Range(ClientAlone(input.client).clients)
    <3>1. ClientAlone(input.client).clients = <<input.client>> BY DEF ClientAlone
    <3> QED BY <3>1, <2>2, ListOne
  <2>4. ClientCompiles(ClientFile(c)) BY <2>1, <2>3, ClientsCompile DEF ClientsFit
  <2> QED BY <2>4, PathRanks DEF Compiles
<1>3. CASE input.mode \notin {"create_api", "register_client"}
  BY <1>3, ListNone DEF ClientsIn
<1> QED BY <1>1, <1>2, <1>3

LEMMA WrittenBuildersCompile ==
  ASSUME NEW input, Accepted(input), input.mode = "create_api", NEW b \in Range(input.schema.builders)
  PROVE  Compiles(BuilderPath(b), BuilderFile(b))
<1>1. BuildersFit(input.schema) BY DEF Accepted, ApiValid
<1>2. BuilderCompiles(BuilderFile(b)) \/ BuilderUnlooked(BuilderFile(b))
  BY <1>1, BuildersCompile DEF BuildersFit
<1> QED BY <1>2, PathRanks DEF Compiles

(* Each entry is one of these.                                             *)
EntryIs(input, loader, config, e) ==
  LET layer == LayerOf(input)
  IN  \/ Turn(e.path) = 1 /\ e.path \in CodePaths(input) /\ Compiles(e.path, e.content)
      \/ e.path = LoaderPath(layer) /\ e.content = NewLoader(input, loader)
      \/ e.path = ConfigPath(layer) /\ e.content = NewConfig(input, config)
      \/ Creates(input) /\ e.path = SpecPath(layer, input.feature) /\ e.content = NewSpec(input)
      \/ e.path = SetupPath
      \/ /\ Creates(input) /\ HasExpected(input.schema.expected)
         /\ e.path = DataPath(input.feature)

LEMMA WritesAre ==
  ASSUME NEW input, InputShape(input), Accepted(input), ~Appends(input), NEW loader, NEW config,
         NEW w, w = Writes(input, loader, config)
  PROVE  /\ Listed(w) /\ Ranked(w) /\ w # <<>>
         /\ \A e \in Range(w) : EntryIs(input, loader, config, e)
         /\ \A path \in CodePaths(input) : \E e \in Range(w) : e.path = path
         /\ LayerEntries(input, loader, config) \subseteq Range(w)
         /\ Creates(input) => SpecEntry(input) \in Range(w)
<1>0. \A e \in LayerEntries(input, loader, config) : EntryIs(input, loader, config, e)
  BY EntryParts DEF LayerEntries, EntryIs
<1>1. CASE input.mode = "create"
  <2>1. /\ Listed(w) /\ Ranked(w) /\ w # <<>>
        /\ Range(w) =
              {FileEntry(PagePath(p), PageFile(p, BarrelFor(input.schema, input.feature))) :
                  p \in Range(OwnedPages(input))}
              \cup LayerEntries(input, loader, config) \cup {SpecEntry(input)}
              \cup (IF input.schema.spec.setup
                    THEN {FileEntry(SetupPath, AuthSetupFile(input.schema, input.feature))} ELSE {})
              \cup (IF HasExpected(input.schema.expected)
                    THEN {FileEntry(DataPath(input.feature), DOMAIN input.schema.expected)} ELSE {})
    BY <1>1, CreateWritesAre
  <2>2. CodePaths(input) = {PagePath(p) : p \in Range(OwnedPages(input))}
    <3>1. PagesIn(input) = OwnedPages(input) /\ ClientsIn(input) = <<>> /\ BuildersIn(input) = <<>>
      BY <1>1 DEF PagesIn, ClientsIn, BuildersIn
    <3> QED BY <3>1, ListNone DEF CodePaths
  <2>3. Creates(input) BY <1>1 DEF Creates, Creating
  <2>4. \A p \in Range(OwnedPages(input)) :
          EntryIs(input, loader, config,
                  FileEntry(PagePath(p), PageFile(p, BarrelFor(input.schema, input.feature))))
    BY <1>1, <2>2, CreatedPagesCompile, EntryParts, PathRanks DEF EntryIs
  <2>5. EntryIs(input, loader, config, SpecEntry(input)) BY <2>3, EntryParts DEF EntryIs, SpecEntry
  <2>6. /\ EntryIs(input, loader, config, FileEntry(SetupPath, AuthSetupFile(input.schema, input.feature)))
        /\ HasExpected(input.schema.expected) =>
             EntryIs(input, loader, config, FileEntry(DataPath(input.feature), DOMAIN input.schema.expected))
    BY <2>3, EntryParts DEF EntryIs
  <2>7. \A e \in Range(w) : EntryIs(input, loader, config, e)
    BY <2>1, <2>4, <2>5, <2>6, <1>0
  <2>8. \A path \in CodePaths(input) : \E e \in Range(w) : e.path = path
    BY <2>1, <2>2, EntryParts
  <2> QED BY <2>1, <2>7, <2>8
<1>2. CASE input.mode = "create_api"
  <2>1. /\ Listed(w) /\ Ranked(w) /\ w # <<>>
        /\ Range(w) =
              {FileEntry(ClientPath(c), ClientFile(c)) : c \in Range(input.schema.clients)}
              \cup {FileEntry(BuilderPath(b), BuilderFile(b)) : b \in Range(input.schema.builders)}
              \cup LayerEntries(input, loader, config) \cup {SpecEntry(input)}
              \cup (IF HasExpected(input.schema.expected)
                    THEN {FileEntry(DataPath(input.feature), DOMAIN input.schema.expected)} ELSE {})
    BY <1>2, ApiWritesAre
  <2>0. PagesIn(input) = <<>> /\ ClientsIn(input) = input.schema.clients /\ BuildersIn(input) = input.schema.builders
    BY <1>2 DEF PagesIn, ClientsIn, BuildersIn
  <2>2. CodePaths(input) = {ClientPath(c) : c \in Range(input.schema.clients)}
                             \cup {BuilderPath(b) : b \in Range(input.schema.builders)}
    BY <2>0, ListNone DEF CodePaths
  <2>3. Creates(input) BY <1>2 DEF Creates, Creating
  <2>4. \A c \in Range(input.schema.clients) : EntryIs(input, loader, config, FileEntry(ClientPath(c), ClientFile(c)))
    BY <2>0, <2>2, WrittenClientsCompile, EntryParts, PathRanks DEF EntryIs
  <2>5. \A b \in Range(input.schema.builders) : EntryIs(input, loader, config, FileEntry(BuilderPath(b), BuilderFile(b)))
    BY <1>2, <2>2, WrittenBuildersCompile, EntryParts, PathRanks DEF EntryIs
  <2>6. EntryIs(input, loader, config, SpecEntry(input)) BY <2>3, EntryParts DEF EntryIs, SpecEntry
  <2>7. HasExpected(input.schema.expected) =>
          EntryIs(input, loader, config, FileEntry(DataPath(input.feature), DOMAIN input.schema.expected))
    BY <2>3, EntryParts DEF EntryIs
  <2>8. \A e \in Range(w) : EntryIs(input, loader, config, e)
    BY <2>1, <2>4, <2>5, <2>6, <2>7, <1>0
  <2>9. \A path \in CodePaths(input) : \E e \in Range(w) : e.path = path
    BY <2>1, <2>2, EntryParts
  <2> QED BY <2>1, <2>8, <2>9
<1>3. CASE input.mode \in Registering
  <2>1. /\ Listed(w) /\ Ranked(w) /\ w # <<>>
        /\ Range(w) =
              {FileEntry(PagePath(p), PageFile(p, None)) : p \in Range(PagesIn(input))}
              \cup {FileEntry(ClientPath(c), ClientFile(c)) : c \in Range(ClientsIn(input))}
              \cup LayerEntries(input, loader, config)
    BY <1>3, RegisterWritesAre DEF Registering
  <2>2. CodePaths(input) = {PagePath(p) : p \in Range(PagesIn(input))} \cup {ClientPath(c) : c \in Range(ClientsIn(input))}
    <3>1. BuildersIn(input) = <<>> BY <1>3 DEF BuildersIn, Registering
    <3> QED BY <3>1, ListNone DEF CodePaths
  <2>3. ~Creates(input) BY <1>3 DEF Creates, Creating, Registering
  <2>4. \A p \in Range(PagesIn(input)) : EntryIs(input, loader, config, FileEntry(PagePath(p), PageFile(p, None)))
    <3> TAKE p \in Range(PagesIn(input))
    <3>1. input.mode = "register_page" /\ p = input.page
      BY <1>3, ListOne, ListNone DEF PagesIn, Registering
    <3>2. Compiles(PagePath(p), PageFile(p, None)) BY <3>1, RegisteredPageCompiles
    <3> QED BY <3>2, <2>2, EntryParts, PathRanks DEF EntryIs
  <2>5. \A c \in Range(ClientsIn(input)) : EntryIs(input, loader, config, FileEntry(ClientPath(c), ClientFile(c)))
    BY <2>2, WrittenClientsCompile, EntryParts, PathRanks DEF EntryIs
  <2>6. \A e \in Range(w) : EntryIs(input, loader, config, e) BY <2>1, <2>4, <2>5, <1>0
  <2>7. \A path \in CodePaths(input) : \E e \in Range(w) : e.path = path
    <3> TAKE path \in CodePaths(input)
    <3>1. CASE \E p \in Range(PagesIn(input)) : path = PagePath(p)
      <4>1. PICK p \in Range(PagesIn(input)) : path = PagePath(p) BY <3>1
      <4>2. FileEntry(PagePath(p), PageFile(p, None)) \in Range(w) BY <2>1
      <4> QED BY <4>1, <4>2, EntryParts
    <3>2. CASE \E c \in Range(ClientsIn(input)) : path = ClientPath(c)
      <4>1. PICK c \in Range(ClientsIn(input)) : path = ClientPath(c) BY <3>2
      <4>2. FileEntry(ClientPath(c), ClientFile(c)) \in Range(w) BY <2>1
      <4> QED BY <4>1, <4>2, EntryParts
    <3> QED BY <3>1, <3>2, <2>2
  <2> QED BY <2>1, <2>3, <2>6, <2>7
<1> QED BY <1>1, <1>2, <1>3 DEF InputShape, Appends, Creating

-----------------------------------------------------------------------------
(* What is so of files and calls at any time.                              *)
SpecRecord(s) == {"kind", "imports", "builders"} \subseteq DOMAIN s /\ s.kind = "spec"

(* What the loader exports is there, and what a spec imports to build with. *)
Led(loader, known) ==
  /\ "exports" \in DOMAIN loader
  /\ \A e \in loader.exports : e[2] \in known /\ Turn(e[2]) = 1
Built(spec, known) == \A class \in spec.builders : <<"builders", class>> \in known

Fits(path, content, known) ==
  /\ Compiles(path, content)
  /\ \A layer \in Layers : path = LoaderPath(layer) => Led(content, known)
  /\ \A layer \in Layers, feature \in Features : path = SpecPath(layer, feature) =>
       /\ SpecRecord(content) /\ Built(content, known)
       /\ layer = "api" => content.imports \in {None, feature}

Earlier(w, i) == {w[j].path : j \in 1..(i - 1)}

CallTyped(k) ==
  /\ k = [pc |-> k.pc, input |-> k.input, todo |-> k.todo, loader |-> k.loader,
          writes |-> k.writes, met |-> k.met]
  /\ k.pc \in {"idle", "check", "config", "append", "write"} /\ k.met \in BOOLEAN
  /\ Listed(k.todo) /\ Listed(k.writes)
  /\ (k.pc = "write") = (k.writes # <<>>)
  /\ IF k.pc = "idle" THEN k.input = None ELSE k.input \in AcceptedNames
  /\ k.pc \in {"check", "config"} => ~Appends(Inputs[k.input])
  /\ k.pc = "append" => Appends(Inputs[k.input])

CallFits(k) ==
  /\ k.pc = "config" => Led(k.loader, DOMAIN files)
  /\ \A i \in DOMAIN k.writes :
       Fits(k.writes[i].path, k.writes[i].content, DOMAIN files \cup Earlier(k.writes, i))

CodegenInd ==
  /\ doing = [c \in Callers |-> doing[c]]
  /\ \A c \in Callers : CallTyped(doing[c]) /\ CallFits(doing[c])
  /\ \A layer \in Layers : {LoaderPath(layer), ConfigPath(layer)} \subseteq DOMAIN files
  /\ \A path \in DOMAIN files : Fits(path, files[path], DOMAIN files)
  /\ left \in 0..MaxCalls /\ faults \in 0..MaxFaults

(* A call nobody came beside is the only one.  What it found free is free, *)
(* and what it read is as it was.                                          *)
Unused(path) ==
  /\ \A layer \in Layers : \A e \in files[LoaderPath(layer)].exports : e[2] # path
  /\ \A layer \in Layers, feature \in Features : SpecPath(layer, feature) \in DOMAIN files =>
       \A class \in files[SpecPath(layer, feature)].builders : <<"builders", class>> # path

(* What is written over the loader and the config keeps what is there. What *)
(* it brings is the call's own.                                            *)
Adds(input, e) ==
  \A layer \in Layers :
    /\ e.path = LoaderPath(layer) =>
         /\ files[e.path].exports \subseteq e.content.exports
         /\ files[e.path].data \subseteq e.content.data
         /\ \A new \in e.content.exports \ files[e.path].exports : new[2] \in CodePaths(input)
         /\ \A new \in e.content.data \ files[e.path].data :
              /\ new = input.feature /\ Creates(input) /\ HasExpected(input.schema.expected)
              /\ layer = "ui" /\ LayerOf(input) = "ui"
    /\ e.path = ConfigPath(layer) =>
         /\ files[e.path] \subseteq e.content
         /\ layer = LayerOf(input)
         /\ \A new \in e.content \ files[e.path], old \in files[e.path] :
              new[1] = old[1] => new \in Binds(input)

Fresh(e) ==
  /\ Turn(e.path) = 1 => Unused(e.path)
  /\ Turn(e.path) = 4 => e.path \notin DOMAIN files

(* The content of each file is one that the call has for it, once written, *)
(* and the file is whole, unless it was made from what was read torn.      *)
Paths(w) == {e.path : e \in Range(w)}
Landed(path, cut) == path \in DOMAIN files /\ (path \notin torn \/ path \in cut)

Delivered(k, cut) ==
  LET input == Inputs[k.input]
  IN  \E loader, config :
        LET all == Range(Writes(input, loader, config))
        IN  /\ cut = {} => ~FixtureCollides(config, ClientsIn(input))
            /\ "exports" \in DOMAIN loader
            /\ Range(k.writes) \subseteq all
            /\ \A e \in all : \/ e.path \in Paths(k.writes)
                              \/ /\ Landed(e.path, cut)
                                 /\ \E f \in all : f.path = e.path /\ files[e.path] = f.content

EndsLate(w) == \A i \in DOMAIN w : i = Len(w) => Turn(w[i].path) \in {4, 5}

AloneFits(k, cut) ==
  LET input == Inputs[k.input]
      layer == LayerOf(input)
  IN  /\ cut \subseteq {LoaderPath(layer), ConfigPath(layer), SpecPath(layer, input.feature)}
      /\ k.pc = "check" /\ ~Overwrites(input) =>
           \A path \in Range(Guarded(input)) : path \in Range(k.todo) \/ path \notin DOMAIN files
      /\ k.pc = "config" =>
           /\ k.loader = files[LoaderPath(layer)]
           /\ ~Overwrites(input) => \A path \in Range(Guarded(input)) : path \notin DOMAIN files
      /\ k.pc = "write" /\ ~Appends(input) =>
           /\ Ranked(k.writes) /\ (Creates(input) => EndsLate(k.writes))
           /\ \A e \in Range(k.writes) : Adds(input, e) /\ (~Overwrites(input) => Fresh(e))
           /\ Delivered(k, cut)
      /\ k.pc = "write" /\ Appends(input) =>
           \A e \in Range(k.writes) : e.path = SpecPath(layer, input.feature)

AloneInd ==
  \A c \in Callers : Busy(c) /\ ~doing[c].met =>
    /\ \A d \in Callers : Busy(d) => d = c
    /\ c \notin mixed
    /\ AloneFits(doing[c], notes[c].cut)

(* What is looked at first: all the code and the spec, unless overwritten. *)
LEMMA GuardedIs ==
  ASSUME NEW input, InputShape(input), ~Appends(input)
  PROVE  /\ Listed(Guarded(input))
         /\ ~(input.mode \in Creating /\ input.overwrite) =>
              /\ CodePaths(input) \subseteq Range(Guarded(input))
              /\ Creates(input) => SpecPath(LayerOf(input), input.feature) \in Range(Guarded(input))
<1> DEFINE spec == SpecPath(LayerOf(input), input.feature)
<1>1. Listed(<<spec>>) /\ Range(<<spec>>) = {spec} BY ListOne
<1>2. CASE input.mode = "create"
  <2> DEFINE own == OwnedPages(input)
             code == [i \in DOMAIN own |-> PagePath(own[i])]
  <2>1. Listed(own) BY <1>2, OwnedAre DEF InputShape, Appending, SchemaShape
  <2>2. DOMAIN own = 1..Len(own) /\ Len(own) \in Nat BY <2>1, ListedIs
  <2>3. Listed(code)
    <3>1. code = [i \in 1..Len(own) |-> code[i]] BY <2>2
    <3> HIDE DEF code
    <3> QED BY <3>1, <2>2, ListFrom
  <2>4. CodePaths(input) = {PagePath(p) : p \in Range(own)}
    <3>1. PagesIn(input) = own /\ ClientsIn(input) = <<>> /\ BuildersIn(input) = <<>>
      BY <1>2 DEF PagesIn, ClientsIn, BuildersIn
    <3> QED BY <3>1, ListNone DEF CodePaths
  <2>5. CodePaths(input) = Range(code)
    <3>1. DOMAIN code = DOMAIN own /\ \A i \in DOMAIN own : code[i] = PagePath(own[i]) OBVIOUS
    <3> HIDE DEF code, own
    <3> QED BY <3>1, <2>4 DEF Range
  <2>6. Guarded(input) = IF input.overwrite THEN <<>> ELSE <<spec>> \o code
    BY <1>2 DEF Guarded
  <2> HIDE DEF code
  <2>7. Listed(<<spec>> \o code) /\ Range(<<spec>> \o code) = {spec} \cup Range(code)
    BY <1>1, <2>3, ListJoined
  <2> QED BY <1>2, <2>5, <2>6, <2>7, ListNone DEF Creating
<1>3. CASE input.mode = "create_api"
  <2> DEFINE cl == input.schema.clients
             bl == input.schema.builders
             clients == [i \in DOMAIN cl |-> ClientPath(cl[i])]
             builders == [i \in DOMAIN bl |-> BuilderPath(bl[i])]
  <2>1. DOMAIN cl = 1..Len(cl) /\ Len(cl) \in Nat /\ DOMAIN bl = 1..Len(bl) /\ Len(bl) \in Nat
    BY <1>3 DEF InputShape, Appending, ApiSchemaShape, IsSequence
  <2>2. Listed(clients) /\ Listed(builders)
    <3>1. clients = [i \in 1..Len(cl) |-> clients[i]] /\ builders = [i \in 1..Len(bl) |-> builders[i]] BY <2>1
    <3> HIDE DEF clients, builders
    <3> QED BY <3>1, <2>1, ListFrom
  <2>3. CodePaths(input) = {ClientPath(c) : c \in Range(cl)} \cup {BuilderPath(b) : b \in Range(bl)}
    <3>1. PagesIn(input) = <<>> /\ ClientsIn(input) = cl /\ BuildersIn(input) = bl
      BY <1>3 DEF PagesIn, ClientsIn, BuildersIn
    <3> QED BY <3>1, ListNone DEF CodePaths
  <2>4. CodePaths(input) = Range(clients) \cup Range(builders)
    <3>1. DOMAIN clients = DOMAIN cl /\ \A i \in DOMAIN cl : clients[i] = ClientPath(cl[i]) OBVIOUS
    <3>2. DOMAIN builders = DOMAIN bl /\ \A i \in DOMAIN bl : builders[i] = BuilderPath(bl[i]) OBVIOUS
    <3> HIDE DEF clients, builders, cl, bl
    <3> QED BY <3>1, <3>2, <2>3 DEF Range
  <2>5. Guarded(input) = IF input.overwrite THEN <<>> ELSE <<spec>> \o (clients \o builders)
    BY <1>3 DEF Guarded
  <2> HIDE DEF clients, builders
  <2>6. Listed(clients \o builders) /\ Range(clients \o builders) = Range(clients) \cup Range(builders)
    BY <2>2, ListJoined
  <2> DEFINE code == clients \o builders
  <2> HIDE DEF code
  <2>7. Listed(<<spec>> \o code) /\ Range(<<spec>> \o code) = {spec} \cup Range(code)
    BY <1>1, <2>6, ListJoined DEF code
  <2>8. Guarded(input) = IF input.overwrite THEN <<>> ELSE <<spec>> \o code BY <2>5 DEF code
  <2>9. Range(code) = CodePaths(input) BY <2>4, <2>6 DEF code
  <2> QED BY <1>3, <2>7, <2>8, <2>9, ListNone DEF Creating
<1>4. CASE input.mode = "register_page"
  <2>1. Guarded(input) = <<PagePath(input.page)>> BY <1>4 DEF Guarded
  <2>2. PagesIn(input) = <<input.page>> /\ ClientsIn(input) = <<>> /\ BuildersIn(input) = <<>>
    BY <1>4 DEF PagesIn, ClientsIn, BuildersIn
  <2>3. CodePaths(input) = {PagePath(input.page)} BY <2>2, ListOne, ListNone DEF CodePaths
  <2> QED BY <1>4, <2>1, <2>3, ListOne DEF Creates, Creating
<1>5. CASE input.mode = "register_client"
  <2>1. Guarded(input) = <<ClientPath(input.client)>> BY <1>5 DEF Guarded
  <2>2. PagesIn(input) = <<>> /\ ClientsIn(input) = <<input.client>> /\ BuildersIn(input) = <<>>
    BY <1>5 DEF PagesIn, ClientsIn, BuildersIn
  <2>3. CodePaths(input) = {ClientPath(input.client)} BY <2>2, ListOne, ListNone DEF CodePaths
  <2> QED BY <1>5, <2>1, <2>3, ListOne DEF Creates, Creating
<1> QED BY <1>2, <1>3, <1>4, <1>5 DEF InputShape, Appends, Creating, Registering

LEMMA FitsMore ==
  ASSUME NEW path, NEW content, NEW known, NEW more, known \subseteq more, Fits(path, content, known)
  PROVE  Fits(path, content, more)
BY DEF Fits, Led, Built

LEMMA IdleFits == CallTyped(Idle) /\ CallFits(Idle) /\ CallFits(Idle)'
<1>1. Listed(<<>>) /\ DOMAIN <<>> = {} BY ListNone
<1> QED BY <1>1 DEF CallTyped, CallFits, Idle

LEMMA CodegenStarts == FilesInit => CodegenInd
<1> SUFFICES ASSUME FilesInit PROVE CodegenInd OBVIOUS
<1>1. \A c \in Callers : doing[c] = Idle BY DEF FilesInit
<1>2. doing = [c \in Callers |-> doing[c]] BY DEF FilesInit
<1>3. \A c \in Callers : CallTyped(doing[c]) /\ CallFits(doing[c]) BY <1>1, IdleFits
<1>4. DOMAIN files = {LoaderPath(l) : l \in Layers} \cup {ConfigPath(l) : l \in Layers}
  BY DEF FilesInit
<1>5. \A path \in DOMAIN files : Fits(path, files[path], DOMAIN files)
  <2> TAKE path \in DOMAIN files
  <2>1. PICK l \in Layers : path = LoaderPath(l) \/ path = ConfigPath(l) BY <1>4
  <2>2. path[1] \in Layers /\ Turn(path) # 4 BY <2>1, PathRanks
  <2>3. Compiles(path, files[path]) BY <2>2 DEF Compiles, Layers
  <2>4. \A layer \in Layers : path = LoaderPath(layer) => Led(files[path], DOMAIN files)
    BY DEF FilesInit, Led, LoaderPath
  <2>5. \A layer \in Layers, feature \in Features : path # SpecPath(layer, feature)
    BY <2>2, PathRanks
  <2> QED BY <2>3, <2>4, <2>5 DEF Fits
<1>6. left \in 0..MaxCalls /\ faults \in 0..MaxFaults BY InputsAssumption DEF FilesInit
<1> QED BY <1>2, <1>3, <1>4, <1>5, <1>6 DEF CodegenInd

(* A step that changes one call and no file. *)
LEMMA CallChanges ==
  ASSUME CodegenInd, NEW c \in Callers, NEW k, CallTyped(k), CallFits(k),
         doing' = [doing EXCEPT ![c] = k], files' = files,
         left' \in 0..MaxCalls, faults' \in 0..MaxFaults
  PROVE  CodegenInd'
<1>1. doing' = [d \in Callers |-> doing'[d]] BY DEF CodegenInd
<1>2. \A d \in Callers : doing'[d] = IF d = c THEN k ELSE doing[d] BY DEF CodegenInd
<1>3. \A d \in Callers : CallTyped(doing'[d]) /\ CallFits(doing'[d]) BY <1>2 DEF CodegenInd
<1>4. \A d \in Callers : CallFits(doing[d])' <=> CallFits(doing'[d]) BY DEF CallFits
<1>5. /\ \A layer \in Layers : {LoaderPath(layer), ConfigPath(layer)} \subseteq DOMAIN files'
      /\ \A path \in DOMAIN files' : Fits(path, files'[path], DOMAIN files')
  BY DEF CodegenInd
<1> QED BY <1>1, <1>3, <1>4, <1>5 DEF CodegenInd

LEMMA EnterKeeps ==
  ASSUME CodegenInd, NEW c \in Callers, NEW name \in AcceptedNames, Enter(c, name)
  PROVE  CodegenInd'
<1> DEFINE others == {d \in Callers : Busy(d)}
           new == [pc     |-> IF Appends(Inputs[name]) THEN "append" ELSE "check",
                   input  |-> name,
                   todo   |-> IF Appends(Inputs[name]) THEN <<>> ELSE Guarded(Inputs[name]),
                   loader |-> None, writes |-> <<>>, met |-> others # {}]
<1>1. /\ doing' = [d \in Callers |-> IF d = c THEN new ELSE [doing[d] EXCEPT !.met = @ \/ d \in others]]
      /\ files' = files /\ faults' = faults /\ left > 0 /\ left' = left - 1
  <2>1. left > (IF others = {} THEN 0 ELSE LastAlone) BY DEF Enter
  <2>2. left \in Nat /\ LastAlone \in Nat BY InputsAssumption DEF CodegenInd
  <2>3. left > 0
    <3> HIDE DEF others
    <3> QED BY <2>1, <2>2
  <2> QED BY <2>3 DEF Enter
<1>2. CallTyped(new)
  <2>1. Listed(new.todo)
    <3>1. CASE Appends(Inputs[name]) BY <3>1, ListNone DEF Idle
    <3>2. CASE ~Appends(Inputs[name])
      <4>1. InputShape(Inputs[name]) BY InputsAssumption DEF AcceptedNames
      <4>2. Listed(Guarded(Inputs[name])) BY <4>1, <3>2, GuardedIs
      <4> QED BY <3>2, <4>2 DEF Idle
    <3> QED BY <3>1, <3>2
  <2>2. new.writes = <<>> /\ Listed(<<>>) BY ListNone DEF Idle
  <2>3. name # None BY InputsAssumption DEF AcceptedNames
  <2>4. /\ new.pc = IF Appends(Inputs[name]) THEN "append" ELSE "check"
        /\ new.input = name
    BY DEF Idle
  <2>5. new = [pc |-> new.pc, input |-> new.input, todo |-> new.todo, loader |-> new.loader,
               writes |-> new.writes, met |-> new.met]
    OBVIOUS
  <2>6. new.met \in BOOLEAN
    <3>1. new.met = (others # {}) OBVIOUS
    <3> QED BY <3>1
  <2> HIDE DEF new
  <2> QED BY <2>1, <2>2, <2>3, <2>4, <2>5, <2>6 DEF CallTyped
<1>3. CallFits(new) BY DEF CallFits, Idle
<1>4. ASSUME NEW d \in Callers, d # c
      PROVE  CallTyped(doing'[d]) /\ CallFits(doing'[d])
  <2> DEFINE k == doing[d]
             m == [k EXCEPT !.met = @ \/ d \in others]
  <2>1. doing'[d] = m BY <1>1, <1>4
  <2>2. CallTyped(k) /\ CallFits(k) BY DEF CodegenInd
  <2>3. /\ m.pc = k.pc /\ m.input = k.input /\ m.todo = k.todo /\ m.loader = k.loader
        /\ m.writes = k.writes /\ m.met \in BOOLEAN
        /\ m = [pc |-> m.pc, input |-> m.input, todo |-> m.todo, loader |-> m.loader,
                writes |-> m.writes, met |-> m.met]
    BY <2>2 DEF CallTyped
  <2> HIDE DEF m, k
  <2> QED BY <2>1, <2>2, <2>3 DEF CallTyped, CallFits
<1>5. \A d \in Callers : CallTyped(doing'[d]) /\ CallFits(doing'[d])
  BY <1>1, <1>2, <1>3, <1>4
<1>6. \A d \in Callers : CallFits(doing[d])' <=> CallFits(doing'[d]) BY <1>1 DEF CallFits
<1>7. left' \in 0..MaxCalls /\ faults' \in 0..MaxFaults
  <2>1. left \in 0..MaxCalls /\ faults \in 0..MaxFaults BY DEF CodegenInd
  <2>2. MaxCalls \in Nat BY InputsAssumption
  <2>3. left' = left - 1 /\ left > 0 /\ faults' = faults BY <1>1
  <2> QED BY <2>1, <2>2, <2>3
<1>8. doing' = [d \in Callers |-> doing'[d]] BY <1>1
<1>9. /\ \A layer \in Layers : {LoaderPath(layer), ConfigPath(layer)} \subseteq DOMAIN files'
      /\ \A path \in DOMAIN files' : Fits(path, files'[path], DOMAIN files')
  BY <1>1 DEF CodegenInd
<1> QED BY <1>5, <1>6, <1>7, <1>8, <1>9 DEF CodegenInd

(* What is known of the input of a call under way. *)
LEMMA InputKnown ==
  ASSUME NEW c \in Callers, CallTyped(doing[c]), Busy(c)
  PROVE  /\ doing[c].input \in AcceptedNames /\ doing[c].input \in DOMAIN Inputs
         /\ InputShape(InputOf(c)) /\ Accepted(InputOf(c))
         /\ InputOf(c).feature \in Features /\ LayerOf(InputOf(c)) \in Layers
<1>1. doing[c].input \in AcceptedNames BY DEF CallTyped, Busy
<1>2. doing[c].input \in DOMAIN Inputs /\ Accepted(InputOf(c)) BY <1>1 DEF AcceptedNames, InputOf
<1>3. InputShape(InputOf(c)) BY <1>2, InputsAssumption DEF InputOf
<1>4. InputOf(c).feature \in Features BY <1>3 DEF InputShape, Features
<1> QED BY <1>1, <1>2, <1>3, <1>4 DEF LayerOf, Layers

LEMMA CheckKeeps ==
  ASSUME CodegenInd, NEW c \in Callers, Check(c)
  PROVE  CodegenInd'
<1> DEFINE k == doing[c]
           new == IF Head(k.todo) \in Present THEN Idle ELSE [k EXCEPT !.todo = Tail(k.todo)]
<1>1. CallTyped(k) /\ CallFits(k) /\ k.pc = "check" /\ k.todo # <<>> BY DEF CodegenInd, Check
<1>2. doing' = [doing EXCEPT ![c] = new] /\ files' = files /\ left' = left /\ faults' = faults
  BY DEF Check
<1>3. CallTyped(new) /\ CallFits(new)
  <2>1. CASE Head(k.todo) \in Present BY <2>1, IdleFits
  <2>2. CASE Head(k.todo) \notin Present
    <3>1. Listed(Tail(k.todo)) BY <1>1, ListTail DEF CallTyped
    <3>2. new = [k EXCEPT !.todo = Tail(k.todo)] BY <2>2
    <3>3. /\ new.pc = k.pc /\ new.input = k.input /\ new.todo = Tail(k.todo) /\ new.loader = k.loader
          /\ new.writes = k.writes /\ new.met = k.met
          /\ new = [pc |-> new.pc, input |-> new.input, todo |-> new.todo, loader |-> new.loader,
                    writes |-> new.writes, met |-> new.met]
      BY <3>2, <1>1 DEF CallTyped
    <3> HIDE DEF new, k
    <3> QED BY <3>1, <3>3, <1>1 DEF CallTyped, CallFits
  <2> QED BY <2>1, <2>2
<1>4. left' \in 0..MaxCalls /\ faults' \in 0..MaxFaults BY <1>2 DEF CodegenInd
<1> HIDE DEF new
<1> QED BY <1>2, <1>3, <1>4, CallChanges

LEMMA ReadLoaderKeeps ==
  ASSUME CodegenInd, NEW c \in Callers, ReadLoader(c)
  PROVE  CodegenInd'
<1> DEFINE k == doing[c]
           loader == files[LoaderPath(LayerOf(InputOf(c)))]
           full == [k EXCEPT !.pc = "config", !.loader = loader]
<1>1. CallTyped(k) /\ CallFits(k) /\ k.pc = "check" BY DEF CodegenInd, ReadLoader
<1>2. /\ doing' = [doing EXCEPT ![c] = full] \/ doing' = [doing EXCEPT ![c] = Idle]
      /\ files' = files /\ left' = left /\ faults' = faults
  <2>1. DOMAIN doing = Callers BY DEF CodegenInd
  <2>2. \/ doing' = [doing EXCEPT ![c].pc = "config", ![c].loader = loader]
        \/ doing' = [doing EXCEPT ![c] = Idle]
    BY DEF ReadLoader
  <2>3. full = [[k EXCEPT !.pc = "config"] EXCEPT !.loader = loader] OBVIOUS
  <2>4. files' = files /\ left' = left /\ faults' = faults BY DEF ReadLoader
  <2> HIDE DEF loader
  <2> QED BY <2>1, <2>2, <2>4
<1>3. Led(loader, DOMAIN files)
  <2>1. LayerOf(InputOf(c)) \in Layers BY DEF LayerOf, Layers
  <2> QED BY <2>1 DEF CodegenInd, Fits
<1>4. CallTyped(full) /\ CallFits(full)
  <2> HIDE DEF loader
  <2>1. /\ full.pc = "config" /\ full.input = k.input /\ full.todo = k.todo /\ full.loader = loader
        /\ full.writes = k.writes /\ full.met = k.met
    BY <1>1 DEF CallTyped
  <2>2. full = [pc |-> full.pc, input |-> full.input, todo |-> full.todo, loader |-> full.loader,
               writes |-> full.writes, met |-> full.met]
    <3> DEFINE mid == [k EXCEPT !.pc = "config"]
    <3>1. mid = [pc |-> mid.pc, input |-> mid.input, todo |-> mid.todo, loader |-> mid.loader,
                 writes |-> mid.writes, met |-> mid.met]
      BY <1>1 DEF CallTyped
    <3>2. full = [mid EXCEPT !.loader = loader] OBVIOUS
    <3> HIDE DEF mid, full
    <3> QED BY <3>1, <3>2
  <2> HIDE DEF full, k
  <2> QED BY <2>1, <2>2, <1>1, <1>3 DEF CallTyped, CallFits
<1>5. left' \in 0..MaxCalls /\ faults' \in 0..MaxFaults BY <1>2 DEF CodegenInd
<1> HIDE DEF full
<1>6. CASE doing' = [doing EXCEPT ![c] = full] BY <1>2, <1>4, <1>5, <1>6, CallChanges
<1>7. CASE doing' = [doing EXCEPT ![c] = Idle] BY <1>2, <1>5, <1>7, IdleFits, CallChanges
<1> QED BY <1>2, <1>6, <1>7

(* A new loader leads to what is there, and to what the same call writes.  *)
LEMMA NewLoaderLeads ==
  ASSUME NEW input, NEW loader, NEW known, Led(loader, known), NEW e \in NewLoader(input, loader).exports
  PROVE  (e[2] \in known \/ e[2] \in CodePaths(input)) /\ Turn(e[2]) = 1
<1>1. CASE LayerOf(input) = "ui"
  <2>1. e \in loader.exports \/ \E p \in Range(PagesIn(input)) : e = <<p.class, PagePath(p)>>
    BY <1>1 DEF NewLoader, WithPages
  <2> QED BY <2>1, PathRanks DEF Led, CodePaths
<1>2. CASE LayerOf(input) # "ui"
  <2>1. e \in WithClients(loader, ClientsIn(input)).exports BY <1>2 DEF NewLoader
  <2>2. e \in loader.exports \/ \E p \in Range(ClientsIn(input)) : e = <<p.class, ClientPath(p)>>
    <3>1. CASE "exports" \in DOMAIN loader BY <3>1, <2>1 DEF WithClients
    <3>2. CASE "exports" \notin DOMAIN loader BY <3>2, <2>1 DEF WithClients
    <3> QED BY <3>1, <3>2
  <2> QED BY <2>2, PathRanks DEF Led, CodePaths
<1> QED BY <1>1, <1>2

LEMMA NewLoaderIs ==
  ASSUME NEW input, NEW loader, "exports" \in DOMAIN loader
  PROVE  /\ "exports" \in DOMAIN NewLoader(input, loader)
         /\ LayerOf(input) # "ui" =>
              NewLoader(input, loader).exports =
                loader.exports \cup {<<c.class, ClientPath(c)>> : c \in Range(ClientsIn(input))}
<1>1. CASE LayerOf(input) = "ui"
  <2> DEFINE has == input.mode = "create" /\ HasExpected(input.schema.expected)
  <2>1. NewLoader(input, loader) = WithPages(loader, PagesIn(input), input.feature, has)
    BY <1>1 DEF NewLoader
  <2> HIDE DEF has
  <2> QED BY <2>1, <1>1 DEF WithPages
<1>2. CASE LayerOf(input) # "ui"
  <2> DEFINE more == {<<c.class, ClientPath(c)>> : c \in Range(ClientsIn(input))}
  <2> HIDE DEF more
  <2>1. NewLoader(input, loader) = [loader EXCEPT !.exports = loader.exports \cup more]
    BY <1>2 DEF NewLoader, WithClients, more
  <2> QED BY <2>1 DEF more
<1> QED BY <1>1, <1>2

(* A record of a call with its last parts changed. *)
LEMMA CallRecord ==
  ASSUME NEW k, NEW go, NEW writes,
         k = [pc |-> k.pc, input |-> k.input, todo |-> k.todo, loader |-> k.loader,
              writes |-> k.writes, met |-> k.met]
  PROVE  /\ [k EXCEPT !.pc = go, !.writes = writes] =
              [pc |-> go, input |-> k.input, todo |-> k.todo, loader |-> k.loader,
               writes |-> writes, met |-> k.met]
         /\ [k EXCEPT !.pc = go, !.writes = writes, !.loader = None] =
              [pc |-> go, input |-> k.input, todo |-> k.todo, loader |-> None,
               writes |-> writes, met |-> k.met]
         /\ [k EXCEPT !.writes = writes] =
              [pc |-> k.pc, input |-> k.input, todo |-> k.todo, loader |-> k.loader,
               writes |-> writes, met |-> k.met]
<1> DEFINE a == [k EXCEPT !.pc = go]
           b == [a EXCEPT !.writes = writes]
           d == [b EXCEPT !.loader = None]
<1>1. a = [pc |-> go, input |-> k.input, todo |-> k.todo, loader |-> k.loader,
           writes |-> k.writes, met |-> k.met]
  OBVIOUS
<1>2. [k EXCEPT !.pc = go, !.writes = writes] = b OBVIOUS
<1>3. [k EXCEPT !.pc = go, !.writes = writes, !.loader = None] = d OBVIOUS
<1> HIDE DEF a
<1>4. b = [pc |-> go, input |-> k.input, todo |-> k.todo, loader |-> k.loader,
           writes |-> writes, met |-> k.met]
  BY <1>1
<1> HIDE DEF b
<1>5. d = [pc |-> go, input |-> k.input, todo |-> k.todo, loader |-> None,
           writes |-> writes, met |-> k.met]
  BY <1>4
<1>6. [k EXCEPT !.writes = writes] =
        [pc |-> k.pc, input |-> k.input, todo |-> k.todo, loader |-> k.loader,
         writes |-> writes, met |-> k.met]
  OBVIOUS
<1> HIDE DEF d
<1> QED BY <1>2, <1>3, <1>4, <1>5, <1>6

(* What a call will write fits, when it read a loader that led somewhere.  *)
LEMMA NewWritesFit ==
  ASSUME NEW input, InputShape(input), Accepted(input), ~Appends(input), NEW loader, NEW config,
         NEW known, Led(loader, known),
         NEW w, w = Writes(input, loader, config), NEW i \in DOMAIN w
  PROVE  Fits(w[i].path, w[i].content, known \cup Earlier(w, i))
<1> DEFINE e == w[i]
           layer == LayerOf(input)
           more == known \cup Earlier(w, i)
<1>1. /\ Listed(w) /\ Ranked(w) /\ \A f \in Range(w) : EntryIs(input, loader, config, f)
      /\ \A path \in CodePaths(input) : \E f \in Range(w) : f.path = path
  BY WritesAre
<1>2. e \in Range(w) /\ EntryIs(input, loader, config, e) BY <1>1 DEF Range
<1>3. layer \in Layers /\ input.feature \in Features BY DEF LayerOf, Layers, InputShape, Features
<1>4. ASSUME NEW path \in CodePaths(input), Turn(e.path) \in {2, 4} PROVE path \in more
  <2>1. PICK j \in DOMAIN w : w[j].path = path BY <1>1 DEF Range
  <2>2. Turn(path) = 1 BY PathRanks DEF CodePaths
  <2>3. i \in Nat /\ j \in Nat /\ j # 0
    <3>1. DOMAIN w = 1..Len(w) /\ Len(w) \in Nat BY <1>1, ListedIs
    <3> QED BY <3>1
  <2>4. ~(i < j)
    <3>1. ASSUME i < j PROVE Before(w[i], w[j]) BY <3>1, <2>1, <1>1 DEF Ranked
    <3> QED BY <3>1, <2>1, <2>2, <1>4 DEF Before
  <2>5. i # j BY <2>1, <2>2, <1>4
  <2>6. j \in 1..(i - 1) BY <2>3, <2>4, <2>5
  <2> QED BY <2>1, <2>6 DEF Earlier
<1>5. CASE Turn(e.path) = 1 /\ Compiles(e.path, e.content)
  BY <1>5, PathRanks DEF Fits
<1>6. CASE e.path = LoaderPath(layer) /\ e.content = NewLoader(input, loader)
  <2>1. Turn(e.path) = 2 /\ e.path[1] \in Layers BY <1>3, <1>6, PathRanks
  <2>2. Led(e.content, more) BY <1>6, <2>1, <1>4, NewLoaderLeads, NewLoaderIs DEF Led
  <2>3. Compiles(e.path, e.content) BY <2>1 DEF Compiles, Layers
  <2>4. \A l \in Layers, f \in Features : e.path # SpecPath(l, f) BY <2>1, PathRanks
  <2> QED BY <2>2, <2>3, <2>4 DEF Fits
<1>7. CASE e.path = ConfigPath(layer)
  <2>1. Turn(e.path) = 3 /\ e.path[1] \in Layers BY <1>3, <1>7, PathRanks
  <2>2. Compiles(e.path, e.content) BY <2>1 DEF Compiles, Layers
  <2>3. \A l \in Layers : e.path # LoaderPath(l) /\ \A f \in Features : e.path # SpecPath(l, f)
    BY <2>1, PathRanks
  <2> QED BY <2>2, <2>3 DEF Fits
<1>8. CASE Creates(input) /\ e.path = SpecPath(layer, input.feature) /\ e.content = NewSpec(input)
  <2>1. Turn(e.path) = 4 /\ e.path[1] \in Layers BY <1>3, <1>8, PathRanks
  <2>2. Compiles(e.path, e.content) BY <2>1 DEF Compiles, Layers
  <2>3. \A l \in Layers : e.path # LoaderPath(l) BY <2>1, PathRanks
  <2>4. SpecRecord(e.content)
    BY <1>8 DEF NewSpec, SpecFile, ApiSpecFile, SpecRecord
  <2>5. Built(e.content, more)
    <3>1. CASE input.mode = "create"
      <4>1. e.content.builders = {} BY <3>1, <1>8 DEF NewSpec, SpecFile
      <4> QED BY <4>1 DEF Built
    <3>2. CASE input.mode = "create_api"
      <4>1. e.content.builders \subseteq Classes(input.schema.builders)
        BY <3>2, <1>8 DEF NewSpec, ApiSpecFile
      <4>2. ASSUME NEW class \in Classes(input.schema.builders) PROVE <<"builders", class>> \in CodePaths(input)
        <5>1. BuildersIn(input) = input.schema.builders BY <3>2 DEF BuildersIn
        <5>2. PICK b \in Range(input.schema.builders) : class = b.class BY DEF Classes
        <5>3. BuilderPath(b) = <<"builders", class>> BY <5>2 DEF BuilderPath
        <5> QED BY <5>1, <5>2, <5>3 DEF CodePaths
      <4> QED BY <4>1, <4>2, <2>1, <1>4 DEF Built
    <3> QED BY <3>1, <3>2, <1>8 DEF Creates, Creating
  <2>6. ASSUME NEW l \in Layers, NEW f \in Features, e.path = SpecPath(l, f), l = "api"
        PROVE  e.content.imports \in {None, f}
    <3>1. layer = "api" /\ f = input.feature BY <2>6, <1>8 DEF SpecPath
    <3>2. input.mode # "create" BY <3>1 DEF LayerOf
    <3> QED BY <3>1, <3>2, <1>8 DEF NewSpec, ApiSpecFile
  <2> QED BY <2>2, <2>3, <2>4, <2>5, <2>6 DEF Fits
<1>9. CASE e.path = SetupPath \/ e.path = DataPath(input.feature)
  <2>1. Turn(e.path) = 5 /\ e.path[1] \in {"auth.setup", "data"} BY <1>9, PathRanks
  <2>2. Compiles(e.path, e.content) BY <2>1 DEF Compiles
  <2>3. \A l \in Layers : e.path # LoaderPath(l) /\ \A f \in Features : e.path # SpecPath(l, f)
    BY <2>1, PathRanks
  <2> QED BY <2>2, <2>3 DEF Fits
<1> QED BY <1>2, <1>5, <1>6, <1>7, <1>8, <1>9 DEF EntryIs

LEMMA ReadConfigKeeps ==
  ASSUME CodegenInd, NEW c \in Callers, ReadConfig(c)
  PROVE  CodegenInd'
<1> DEFINE k == doing[c]
           input == InputOf(c)
           config == files[ConfigPath(LayerOf(input))]
           w == Writes(input, k.loader, config)
           full == [k EXCEPT !.pc = "write", !.writes = w, !.loader = None]
<1>1. CallTyped(k) /\ CallFits(k) /\ k.pc = "config" BY DEF CodegenInd, ReadConfig
<1>2. /\ doing' = [doing EXCEPT ![c] = full] \/ doing' = [doing EXCEPT ![c] = Idle]
      /\ files' = files /\ left' = left /\ faults' = faults
  <2>1. PICK refused : doing' = [doing EXCEPT ![c] = IF refused THEN Idle ELSE full]
    BY DEF ReadConfig
  <2>2. files' = files /\ left' = left /\ faults' = faults BY DEF ReadConfig
  <2> HIDE DEF full
  <2> QED BY <2>1, <2>2
<1>3. InputShape(input) /\ Accepted(input) /\ ~Appends(input)
  <2>1. Busy(c) BY <1>1 DEF Busy
  <2> QED BY <1>1, <2>1, InputKnown DEF CallTyped, InputOf
<1>4. CallTyped(full) /\ CallFits(full)
  <2>1. Listed(w) /\ w # <<>> BY <1>3, WritesAre
  <2>2. \A i \in DOMAIN w : Fits(w[i].path, w[i].content, DOMAIN files \cup Earlier(w, i))
    <3>1. Led(k.loader, DOMAIN files) BY <1>1 DEF CallFits
    <3> HIDE DEF w, k, input
    <3> QED BY <3>1, <1>3, NewWritesFit DEF w
  <2>3. full = [pc |-> "write", input |-> k.input, todo |-> k.todo, loader |-> None,
                writes |-> w, met |-> k.met]
    <3>1. k = [pc |-> k.pc, input |-> k.input, todo |-> k.todo, loader |-> k.loader,
               writes |-> k.writes, met |-> k.met]
      BY <1>1 DEF CallTyped
    <3> HIDE DEF w, k
    <3> QED BY <3>1, CallRecord, ZenonT(60)
  <2> HIDE DEF w, full
  <2>4. full.pc = "write" /\ full.input = k.input /\ full.todo = k.todo /\ full.writes = w /\ full.met = k.met
    BY <2>3
  <2>5. full = [pc |-> full.pc, input |-> full.input, todo |-> full.todo, loader |-> full.loader,
                writes |-> full.writes, met |-> full.met]
    BY <2>3
  <2> HIDE DEF k
  <2> QED BY <2>1, <2>2, <2>4, <2>5, <1>1 DEF CallTyped, CallFits
<1>5. left' \in 0..MaxCalls /\ faults' \in 0..MaxFaults BY <1>2 DEF CodegenInd
<1> HIDE DEF full
<1>6. CASE doing' = [doing EXCEPT ![c] = full] BY <1>2, <1>4, <1>5, <1>6, CallChanges
<1>7. CASE doing' = [doing EXCEPT ![c] = Idle] BY <1>2, <1>5, <1>7, IdleFits, CallChanges
<1> QED BY <1>2, <1>6, <1>7

(* What is appended to a spec leaves its imports as they are.              *)
LEMMA AppendedSpec ==
  ASSUME NEW spec, SpecRecord(spec)
  PROVE  /\ \A more, ids : LET s == AppendCases(spec, more, ids)
                           IN SpecRecord(s) /\ s.imports = spec.imports /\ s.builders = spec.builders
         /\ \A cases : LET s == AppendApiCases(spec, cases)
                       IN SpecRecord(s) /\ s.imports = spec.imports /\ s.builders = spec.builders
BY DEF AppendCases, AppendApiCases, SpecRecord

LEMMA ReadSpecKeeps ==
  ASSUME CodegenInd, NEW c \in Callers, ReadSpec(c)
  PROVE  CodegenInd'
<1> DEFINE k == doing[c]
           input == InputOf(c)
           layer == LayerOf(input)
           path == SpecPath(layer, input.feature)
           grown == IF layer = "ui"
                    THEN AppendCases(files[path], UNION {Range(x.body) : x \in Range(input.cases)},
                                     [i \in DOMAIN input.cases |-> input.cases[i].id])
                    ELSE AppendApiCases(files[path], input.cases)
           w == <<FileEntry(path, grown)>>
           full == [k EXCEPT !.pc = "write", !.writes = w]
<1>1. CallTyped(k) /\ CallFits(k) /\ k.pc = "append" BY DEF CodegenInd, ReadSpec
<1>2. /\ \/ doing' = [doing EXCEPT ![c] = full] /\ path \in DOMAIN files
         \/ doing' = [doing EXCEPT ![c] = Idle]
      /\ files' = files /\ left' = left /\ faults' = faults
  <2>1. PICK refused \in {path \notin DOMAIN files} \cup (IF path \in torn THEN {TRUE} ELSE {}) :
          doing' = [doing EXCEPT ![c] = IF refused THEN Idle ELSE full]
    BY DEF ReadSpec
  <2>2. files' = files /\ left' = left /\ faults' = faults BY DEF ReadSpec
  <2>3. refused = (path \notin DOMAIN files) \/ refused = TRUE BY <2>1
  <2> HIDE DEF full, path
  <2> QED BY <2>1, <2>2, <2>3
<1>3. layer \in Layers /\ input.feature \in Features
  <2>1. Busy(c) BY <1>1 DEF Busy
  <2> QED BY <1>1, <2>1, InputKnown
<1>4. ASSUME path \in DOMAIN files PROVE CallTyped(full) /\ CallFits(full)
  <2>1. Fits(path, files[path], DOMAIN files) BY <1>4 DEF CodegenInd
  <2>2. /\ SpecRecord(files[path]) /\ Built(files[path], DOMAIN files)
        /\ layer = "api" => files[path].imports \in {None, input.feature}
    BY <2>1, <1>3 DEF Fits
  <2>3. SpecRecord(grown) /\ grown.imports = files[path].imports /\ grown.builders = files[path].builders
    BY <2>2, AppendedSpec
  <2> HIDE DEF grown
  <2>4. Fits(path, grown, DOMAIN files)
    <3>1. path[1] \in Layers /\ Turn(path) = 4 BY <1>3, PathRanks
    <3>2. Compiles(path, grown) BY <3>1 DEF Compiles, Layers
    <3>3. \A l \in Layers : path # LoaderPath(l) BY <3>1, PathRanks
    <3>4. \A l \in Layers, f \in Features : path = SpecPath(l, f) => l = layer /\ f = input.feature
      BY DEF SpecPath
    <3>5. Built(grown, DOMAIN files) BY <2>2, <2>3 DEF Built
    <3> HIDE DEF path
    <3> QED BY <3>2, <3>3, <3>4, <3>5, <2>2, <2>3 DEF Fits
  <2>5. Listed(w) /\ w # <<>> /\ DOMAIN w = {1} /\ w[1].path = path /\ w[1].content = grown
    BY ListOne, EntryParts
  <2>6. \A i \in DOMAIN w : Fits(w[i].path, w[i].content, DOMAIN files \cup Earlier(w, i))
    BY <2>4, <2>5, FitsMore
  <2>7. full = [pc |-> "write", input |-> k.input, todo |-> k.todo, loader |-> k.loader,
                writes |-> w, met |-> k.met]
    <3>1. k = [pc |-> k.pc, input |-> k.input, todo |-> k.todo, loader |-> k.loader,
               writes |-> k.writes, met |-> k.met]
      BY <1>1 DEF CallTyped
    <3> HIDE DEF w, k
    <3> QED BY <3>1, CallRecord, ZenonT(60)
  <2> HIDE DEF w, full
  <2>8. full.pc = "write" /\ full.input = k.input /\ full.todo = k.todo /\ full.writes = w /\ full.met = k.met
    BY <2>7
  <2>9. full = [pc |-> full.pc, input |-> full.input, todo |-> full.todo, loader |-> full.loader,
                writes |-> full.writes, met |-> full.met]
    BY <2>7
  <2> HIDE DEF k
  <2> QED BY <2>5, <2>6, <2>8, <2>9, <1>1 DEF CallTyped, CallFits
<1>5. left' \in 0..MaxCalls /\ faults' \in 0..MaxFaults BY <1>2 DEF CodegenInd
<1> HIDE DEF full, path
<1>6. CASE doing' = [doing EXCEPT ![c] = full] /\ path \in DOMAIN files
  BY <1>2, <1>4, <1>5, <1>6, CallChanges
<1>7. CASE doing' = [doing EXCEPT ![c] = Idle] BY <1>2, <1>5, <1>7, IdleFits, CallChanges
<1> QED BY <1>2, <1>6, <1>7

LEMMA PutIs ==
  ASSUME NEW fs, NEW path, NEW content
  PROVE  /\ DOMAIN Put(fs, path, content) = DOMAIN fs \cup {path}
         /\ Put(fs, path, content)[path] = content
         /\ \A p \in DOMAIN fs : p # path => Put(fs, path, content)[p] = fs[p]
BY DEF Put

(* The first of the files is written. *)
LEMMA WriteIs ==
  ASSUME CodegenInd, NEW c \in Callers, Write(c)
  PROVE  /\ Listed(doing[c].writes) /\ doing[c].writes # <<>> /\ doing[c].pc = "write"
         /\ files' = Put(files, doing[c].writes[1].path, doing[c].writes[1].content)
         /\ Head(doing[c].writes) = doing[c].writes[1]
         /\ \A d \in Callers : d # c => doing'[d] = doing[d]
         /\ doing' = [d \in Callers |-> doing'[d]]
         /\ \/ Len(doing[c].writes) = 1 /\ doing'[c] = Idle
            \/ /\ Tail(doing[c].writes) # <<>>
               /\ doing'[c] = [pc |-> "write", input |-> doing[c].input, todo |-> doing[c].todo,
                               loader |-> doing[c].loader, writes |-> Tail(doing[c].writes),
                               met |-> doing[c].met]
         /\ left' = left /\ faults' = faults
<1> DEFINE k == doing[c]
           w == k.writes
<1>1. CallTyped(k) /\ k.pc = "write" BY DEF CodegenInd, Write
<1>2. Listed(w) /\ w # <<>> BY <1>1 DEF CallTyped
<1>3. /\ Listed(Tail(w)) /\ Len(w) \in Nat \ {0} /\ Len(Tail(w)) = Len(w) - 1 /\ Head(w) = w[1]
  BY <1>2, ListTail
<1>4. /\ files' = Put(files, Head(w).path, Head(w).content) /\ left' = left /\ faults' = faults
      /\ doing' = [doing EXCEPT ![c] = IF Len(w) = 1 THEN Idle ELSE [k EXCEPT !.writes = Tail(w)]]
  BY DEF Write
<1>5. [k EXCEPT !.writes = Tail(w)] =
        [pc |-> "write", input |-> k.input, todo |-> k.todo, loader |-> k.loader,
         writes |-> Tail(w), met |-> k.met]
  <2>1. k = [pc |-> k.pc, input |-> k.input, todo |-> k.todo, loader |-> k.loader,
             writes |-> k.writes, met |-> k.met]
    BY <1>1 DEF CallTyped
  <2>2. [k EXCEPT !.writes = Tail(w)] =
          [pc |-> k.pc, input |-> k.input, todo |-> k.todo, loader |-> k.loader,
           writes |-> Tail(w), met |-> k.met]
    <3> HIDE DEF k
    <3> DEFINE t == Tail(w)
    <3> HIDE DEF t
    <3>1. [k EXCEPT !.writes = t] =
            [pc |-> k.pc, input |-> k.input, todo |-> k.todo, loader |-> k.loader,
             writes |-> t, met |-> k.met]
      BY <2>1, CallRecord, ZenonT(60)
    <3> QED BY <3>1 DEF t
  <2> QED BY <2>2, <1>1
<1>6. Len(w) # 1 => Tail(w) # <<>>
  <2>1. Len(w) # 1 => Len(Tail(w)) # 0 BY <1>3
  <2> QED BY <2>1, ListNone
<1>7. doing = [d \in Callers |-> doing[d]] BY DEF CodegenInd
<1>8. doing' = [d \in Callers |-> doing'[d]] BY <1>4, <1>7
<1>9. \A d \in Callers : d # c => doing'[d] = doing[d] BY <1>4, <1>7
<1>10. doing'[c] = IF Len(w) = 1 THEN Idle ELSE [k EXCEPT !.writes = Tail(w)] BY <1>4, <1>7
<1> QED BY <1>1, <1>2, <1>3, <1>4, <1>5, <1>6, <1>8, <1>9, <1>10

LEMMA WriteKeeps ==
  ASSUME CodegenInd, NEW c \in Callers, Write(c)
  PROVE  CodegenInd'
<1> DEFINE k == doing[c]
           w == k.writes
           known == DOMAIN files \cup {w[1].path}
<1>1. /\ Listed(w) /\ w # <<>> /\ k.pc = "write"
      /\ files' = Put(files, w[1].path, w[1].content)
      /\ \A d \in Callers : d # c => doing'[d] = doing[d]
      /\ doing' = [d \in Callers |-> doing'[d]]
      /\ \/ Len(w) = 1 /\ doing'[c] = Idle
         \/ /\ Tail(w) # <<>>
            /\ doing'[c] = [pc |-> "write", input |-> k.input, todo |-> k.todo,
                            loader |-> k.loader, writes |-> Tail(w), met |-> k.met]
      /\ left' = left /\ faults' = faults
  BY WriteIs
<1>2. /\ DOMAIN files' = known /\ files'[w[1].path] = w[1].content
      /\ \A p \in DOMAIN files : p # w[1].path => files'[p] = files[p]
  <2>1. files' = Put(files, w[1].path, w[1].content) BY <1>1
  <2> DEFINE path == w[1].path
             content == w[1].content
  <2>2. files' = Put(files, path, content) BY <2>1
  <2> HIDE DEF path, content, w
  <2>3. /\ DOMAIN files' = DOMAIN files \cup {path} /\ files'[path] = content
        /\ \A p \in DOMAIN files : p # path => files'[p] = files[p]
    BY <2>2 DEF Put
  <2> QED BY <2>3 DEF path, content
<1>3. CallTyped(k) /\ CallFits(k) BY DEF CodegenInd
<1>4. /\ Listed(Tail(w)) /\ Len(w) \in Nat \ {0} /\ Len(Tail(w)) = Len(w) - 1
      /\ \A i \in 1..(Len(w) - 1) : Tail(w)[i] = w[i + 1]
      /\ DOMAIN w = 1..Len(w) /\ DOMAIN Tail(w) = 1..(Len(w) - 1)
  BY <1>1, ListTail, ListedIs
<1>5. Fits(w[1].path, w[1].content, known)
  <2>1. 1 \in DOMAIN w BY <1>4
  <2>2. Fits(w[1].path, w[1].content, DOMAIN files \cup Earlier(w, 1)) BY <2>1, <1>3 DEF CallFits
  <2>3. Earlier(w, 1) = {} BY DEF Earlier
  <2> QED BY <2>2, <2>3, FitsMore
<1>6. \A path \in DOMAIN files' : Fits(path, files'[path], DOMAIN files')
  <2> TAKE path \in DOMAIN files'
  <2>1. CASE path = w[1].path BY <2>1, <1>2, <1>5
  <2>2. CASE path # w[1].path
    <3>1. path \in DOMAIN files /\ files'[path] = files[path] BY <2>2, <1>2
    <3>2. Fits(path, files[path], DOMAIN files) BY <3>1 DEF CodegenInd
    <3>3. Fits(path, files[path], known) BY <3>2, FitsMore
    <3> QED BY <3>1, <3>3, <1>2
  <2> QED BY <2>1, <2>2
<1>7. ASSUME NEW d \in Callers, d # c
      PROVE  CallTyped(doing'[d]) /\ CallFits(doing[d])'
  <2>1. doing'[d] = doing[d] /\ CallTyped(doing[d]) /\ CallFits(doing[d]) BY <1>1, <1>7 DEF CodegenInd
  <2>2. ASSUME NEW i \in DOMAIN doing[d].writes
        PROVE  Fits(doing[d].writes[i].path, doing[d].writes[i].content,
                    DOMAIN files' \cup Earlier(doing[d].writes, i))
    <3>1. Fits(doing[d].writes[i].path, doing[d].writes[i].content,
               DOMAIN files \cup Earlier(doing[d].writes, i)) BY <2>1 DEF CallFits
    <3> QED BY <3>1, <1>2, FitsMore
  <2>3. doing[d].pc = "config" => Led(doing[d].loader, DOMAIN files') BY <2>1, <1>2 DEF CallFits, Led
  <2> QED BY <2>1, <2>2, <2>3 DEF CallFits
<1>8. CallTyped(doing'[c]) /\ CallFits(doing[c])'
  <2>1. CASE Len(w) = 1 /\ doing'[c] = Idle
    <3>1. CallFits(Idle)' BY IdleFits
    <3>2. CallFits(doing[c])' BY <2>1, <3>1 DEF CallFits
    <3> QED BY <2>1, <3>2, IdleFits
  <2>2. CASE /\ Tail(w) # <<>>
             /\ doing'[c] = [pc |-> "write", input |-> k.input, todo |-> k.todo,
                             loader |-> k.loader, writes |-> Tail(w), met |-> k.met]
    <3> DEFINE t == Tail(w)
               n == doing'[c]
    <3>1. ASSUME NEW i \in DOMAIN t
          PROVE  Fits(t[i].path, t[i].content, DOMAIN files' \cup Earlier(t, i))
      <4>1. i + 1 \in DOMAIN w /\ t[i] = w[i + 1] /\ i \in Nat BY <1>4
      <4>2. Fits(t[i].path, t[i].content, DOMAIN files \cup Earlier(w, i + 1))
        BY <4>1, <1>3 DEF CallFits
      <4>3. Earlier(w, i + 1) \subseteq {w[1].path} \cup Earlier(t, i)
        <5> SUFFICES ASSUME NEW j \in 1..i, j # 1 PROVE w[j].path \in Earlier(t, i)
          BY <4>1 DEF Earlier
        <5>1. j - 1 \in 1..(i - 1) /\ j - 1 \in 1..(Len(w) - 1) /\ (j - 1) + 1 = j BY <4>1, <1>4
        <5>2. t[j - 1] = w[j] BY <5>1, <1>4
        <5> QED BY <5>1, <5>2 DEF Earlier
      <4> QED BY <4>2, <4>3, <1>2, FitsMore
    <3>2. /\ n.pc = "write" /\ n.input = k.input /\ n.todo = k.todo /\ n.writes = t /\ n.met = k.met
          /\ n = [pc |-> n.pc, input |-> n.input, todo |-> n.todo, loader |-> n.loader,
                  writes |-> n.writes, met |-> n.met]
      BY <2>2
    <3> HIDE DEF t, n, k
    <3>3. CallTyped(n) BY <3>2, <1>3, <1>1, <1>4, <2>2 DEF CallTyped, t, k
    <3>4. CallFits(doing[c])' BY <3>1, <3>2 DEF CallFits, n
    <3> QED BY <3>3, <3>4 DEF n
  <2> QED BY <2>1, <2>2, <1>1
<1>9. \A layer \in Layers : {LoaderPath(layer), ConfigPath(layer)} \subseteq DOMAIN files'
  BY <1>2 DEF CodegenInd
<1>10. left' \in 0..MaxCalls /\ faults' \in 0..MaxFaults BY <1>1 DEF CodegenInd
<1> QED BY <1>1, <1>6, <1>7, <1>8, <1>9, <1>10 DEF CodegenInd

LEMMA FaultKeeps ==
  ASSUME CodegenInd, NEW c \in Callers, Fault(c)
  PROVE  CodegenInd'
<1>1. doing' = [doing EXCEPT ![c] = Idle] /\ files' = files /\ left' = left /\ faults' = faults + 1 /\ faults < MaxFaults
  BY DEF Fault
<1>2. left' \in 0..MaxCalls BY <1>1 DEF CodegenInd
<1>3. faults' \in 0..MaxFaults
  <2>1. faults \in 0..MaxFaults BY DEF CodegenInd
  <2>2. MaxFaults \in Nat BY InputsAssumption
  <2> QED BY <2>1, <2>2, <1>1
<1> QED BY <1>1, <1>2, <1>3, IdleFits, CallChanges

LEMMA CodegenKeeps == CodegenInd /\ [FilesNext]_filesVars => CodegenInd'
<1> SUFFICES ASSUME CodegenInd, [FilesNext]_filesVars PROVE CodegenInd' OBVIOUS
<1>1. CASE UNCHANGED filesVars BY <1>1 DEF filesVars, CodegenInd, CallFits
<1>2. ASSUME NEW c \in Callers, NEW name \in AcceptedNames, Enter(c, name) PROVE CodegenInd' BY <1>2, EnterKeeps
<1>3. ASSUME NEW c \in Callers, Check(c) PROVE CodegenInd' BY <1>3, CheckKeeps
<1>4. ASSUME NEW c \in Callers, ReadLoader(c) PROVE CodegenInd' BY <1>4, ReadLoaderKeeps
<1>5. ASSUME NEW c \in Callers, ReadConfig(c) PROVE CodegenInd' BY <1>5, ReadConfigKeeps
<1>6. ASSUME NEW c \in Callers, ReadSpec(c) PROVE CodegenInd' BY <1>6, ReadSpecKeeps
<1>7. ASSUME NEW c \in Callers, Write(c) PROVE CodegenInd' BY <1>7, WriteKeeps
<1>8. ASSUME NEW c \in Callers, Fault(c) PROVE CodegenInd' BY <1>8, FaultKeeps
<1>9. ASSUME NEW c \in Callers, Open(c) PROVE CodegenInd' BY <1>9 DEF Open, CodegenInd, CallFits
<1> QED BY <1>1, <1>2, <1>3, <1>4, <1>5, <1>6, <1>7, <1>8, <1>9 DEF FilesNext

-----------------------------------------------------------------------------
(* What is being written, and by whom.                                     *)
NotesOK ==
  /\ notes = [c \in Callers |-> notes[c]]
  /\ \A c \in Callers : DOMAIN notes[c] = {"cut", "ran"}

DiskInd ==
  /\ open \subseteq Callers /\ mixed \subseteq open
  /\ \A c \in open : doing[c].pc = "write" /\ Head(doing[c].writes).path \in torn
  /\ NotesOK

LEMMA NotesAre ==
  ASSUME DiskInd, NEW c \in Callers, NEW read, Notes(c, read)
  PROVE  /\ NotesOK'
         /\ \A d \in Callers : d # c => notes'[d] = notes[d]
         /\ doing'[c] = Idle => notes'[c] = NoNotes
         /\ doing'[c] # Idle =>
              notes'[c] = [notes[c] EXCEPT !.cut = notes[c].cut \cup (torn \cap read)]
<1> DEFINE new == IF doing'[c] = Idle THEN NoNotes
                  ELSE [notes[c] EXCEPT !.cut = notes[c].cut \cup (torn \cap read)]
<1>1. notes' = [notes EXCEPT ![c] = new] BY DEF Notes
<1>2. NotesOK BY DEF DiskInd
<1>3. DOMAIN new = {"cut", "ran"}
  <2>1. DOMAIN notes[c] = {"cut", "ran"} BY <1>2 DEF NotesOK
  <2> QED BY <2>1 DEF NoNotes
<1> HIDE DEF new
<1>4. /\ NotesOK' /\ notes'[c] = new
      /\ \A d \in Callers : d # c => notes'[d] = notes[d]
  BY <1>1, <1>2, <1>3 DEF NotesOK
<1> QED BY <1>4 DEF new

(* A step of a call that is in the midst of no file, or ends there. *)
LEMMA StepDisk ==
  ASSUME DiskInd, NEW c \in Callers, \A d \in Callers : d # c => doing'[d] = doing[d],
         torn' = torn, open' = open \ {c}, mixed' = mixed \ {c},
         NotesOK'
  PROVE  DiskInd'
BY DEF DiskInd

(* What the steps have in common that are not a write. *)
LEMMA ReadStep ==
  ASSUME CodegenInd, DiskInd, NEW c \in Callers,
         Check(c) \/ ReadLoader(c) \/ ReadConfig(c) \/ ReadSpec(c)
  PROVE  /\ Busy(c) /\ doing[c].pc # "write" /\ doing[c].writes = <<>> /\ c \notin open
         /\ files' = files /\ torn' = torn /\ open' = open /\ mixed' = mixed /\ faults' = faults
         /\ \A d \in Callers : d # c => doing'[d] = doing[d] /\ notes'[d] = notes[d]
         /\ NotesOK'
         /\ doing'[c] = Idle => notes'[c] = NoNotes
         /\ doing'[c] # Idle => \E read :
              /\ Notes(c, read)
              /\ notes'[c] = [notes[c] EXCEPT !.cut = notes[c].cut \cup (torn \cap read)]
<1>1. doing = [d \in Callers |-> doing[d]] /\ CallTyped(doing[c]) BY DEF CodegenInd
<1>2. Busy(c) /\ doing[c].pc # "write" BY DEF Check, ReadLoader, ReadConfig, ReadSpec, Busy
<1>3. doing[c].writes = <<>> BY <1>1, <1>2 DEF CallTyped
<1>4. c \notin open BY <1>2 DEF DiskInd
<1>5. files' = files /\ torn' = torn /\ open' = open /\ mixed' = mixed /\ faults' = faults
  BY DEF Check, ReadLoader, ReadConfig, ReadSpec
<1>6. \A d \in Callers : d # c => doing'[d] = doing[d]
  BY <1>1 DEF Check, ReadLoader, ReadConfig, ReadSpec
<1>7. PICK read : Notes(c, read) BY DEF Check, ReadLoader, ReadConfig, ReadSpec
<1>8. /\ NotesOK'
      /\ \A d \in Callers : d # c => notes'[d] = notes[d]
      /\ doing'[c] = Idle => notes'[c] = NoNotes
      /\ doing'[c] # Idle =>
           notes'[c] = [notes[c] EXCEPT !.cut = notes[c].cut \cup (torn \cap read)]
  BY <1>7, NotesAre
<1> QED BY <1>2, <1>3, <1>4, <1>5, <1>6, <1>7, <1>8

LEMMA EnterDisk ==
  ASSUME CodegenInd, DiskInd, NEW c \in Callers, NEW name \in AcceptedNames, Enter(c, name)
  PROVE  DiskInd'
<1> DEFINE others == {d \in Callers : Busy(d)}
<1>1. /\ ~Busy(c) /\ torn' = torn /\ open' = open /\ mixed' = mixed
      /\ notes' = [notes EXCEPT ![c] = [cut |-> {}, ran |-> Running]]
      /\ \A d \in Callers : d # c => doing'[d] = [doing[d] EXCEPT !.met = @ \/ d \in others]
  BY DEF Enter
<1>2. ASSUME NEW d \in open
      PROVE  doing'[d].pc = "write" /\ Head(doing'[d].writes).path \in torn
  <2> DEFINE k == doing[d]
             b == d \in others
             m == [k EXCEPT !.met = @ \/ b]
  <2>1. d \in Callers /\ d # c BY <1>1, <1>2 DEF DiskInd, Busy
  <2>2. doing'[d] = m BY <2>1, <1>1
  <2>3. CallTyped(k) BY <2>1 DEF CodegenInd
  <2>4. m.pc = k.pc /\ m.writes = k.writes
    <3> HIDE DEF k, b
    <3>1. {"pc", "writes", "met"} \subseteq DOMAIN k BY <2>3 DEF CallTyped, k
    <3> QED BY <3>1
  <2> HIDE DEF m
  <2> QED BY <2>2, <2>4, <1>2 DEF DiskInd
<1>3. NotesOK' BY <1>1 DEF DiskInd, NotesOK
<1> QED BY <1>1, <1>2, <1>3 DEF DiskInd

LEMMA OpenDisk ==
  ASSUME DiskInd, NEW c \in Callers, Open(c)
  PROVE  DiskInd'
<1>1. /\ doing[c].pc = "write" /\ open' = open \cup {c} /\ doing' = doing /\ notes' = notes
      /\ torn' = torn \cup {Head(doing[c].writes).path}
  BY DEF Open
<1>2. mixed' \subseteq open \cup {c} BY DEF Open, DiskInd, Writing
<1> QED BY <1>1, <1>2 DEF DiskInd, NotesOK

(* What a write does beside the files. *)
LEMMA WriteTorn ==
  ASSUME CodegenInd, DiskInd, NEW c \in Callers, Write(c)
  PROVE  /\ c \in open /\ open' = open \ {c} /\ mixed' = mixed \ {c} /\ torn' \subseteq torn
         /\ \A path \in torn \ torn' :
              path = Head(doing[c].writes).path /\ Writing(path) = {c}
         /\ Writing(Head(doing[c].writes).path) = {c} /\ c \notin mixed =>
              torn' = torn \ ({Head(doing[c].writes).path} \ notes[c].cut)
         /\ NotesOK'
         /\ \A d \in Callers : d # c => notes'[d] = notes[d]
         /\ doing'[c] = Idle => notes'[c] = NoNotes
         /\ doing'[c] # Idle =>
              notes'[c] = [notes[c] EXCEPT !.cut = notes[c].cut \cup (torn \cap {})]
<1> DEFINE p == Head(doing[c].writes).path
           whole == Writing(p) = {c} /\ p \notin notes[c].cut
<1>1. /\ c \in open /\ open' = open \ {c} /\ mixed' = mixed \ {c} /\ Notes(c, {})
      /\ \/ whole /\ torn' = torn \ {p}
         \/ (~whole \/ c \in mixed) /\ torn' = torn
  BY DEF Write
<1>2. /\ NotesOK'
      /\ \A d \in Callers : d # c => notes'[d] = notes[d]
      /\ doing'[c] = Idle => notes'[c] = NoNotes
      /\ doing'[c] # Idle =>
           notes'[c] = [notes[c] EXCEPT !.cut = notes[c].cut \cup (torn \cap {})]
  BY <1>1, NotesAre
<1> HIDE DEF p
<1>3. torn' \subseteq torn /\ \A path \in torn \ torn' : path = p /\ Writing(path) = {c} BY <1>1
<1>4. Writing(p) = {c} /\ c \notin mixed => torn' = torn \ ({p} \ notes[c].cut) BY <1>1
<1> QED BY <1>1, <1>2, <1>3, <1>4 DEF p

LEMMA WriteDisk ==
  ASSUME CodegenInd, DiskInd, NEW c \in Callers, Write(c)
  PROVE  DiskInd'
<1>1. /\ open' = open \ {c} /\ mixed' = mixed \ {c} /\ torn' \subseteq torn
      /\ \A path \in torn \ torn' : path = Head(doing[c].writes).path /\ Writing(path) = {c}
      /\ NotesOK'
  BY WriteTorn
<1>2. \A d \in Callers : d # c => doing'[d] = doing[d] BY WriteIs
<1>3. ASSUME NEW d \in open, d # c PROVE Head(doing[d].writes).path \in torn'
  <2>1. Head(doing[d].writes).path \in torn BY <1>3 DEF DiskInd
  <2>2. d \in Writing(Head(doing[d].writes).path) BY <1>3 DEF Writing
  <2> QED BY <1>1, <1>3, <2>1, <2>2
<1> QED BY <1>1, <1>2, <1>3 DEF DiskInd

(* What a fault does.                                                      *)
LEMMA FaultIs ==
  ASSUME CodegenInd, DiskInd, NEW c \in Callers, Fault(c)
  PROVE  /\ Busy(c) /\ doing'[c] = Idle /\ files' = files /\ torn' = torn /\ faults' # faults
         /\ open' = open \ {c} /\ mixed' = mixed \ {c}
         /\ \A d \in Callers : d # c => doing'[d] = doing[d] /\ notes'[d] = notes[d]
         /\ NotesOK' /\ notes'[c] = NoNotes
<1>1. doing = [d \in Callers |-> doing[d]] BY DEF CodegenInd
<1>2. doing'[c] = Idle /\ \A d \in Callers : d # c => doing'[d] = doing[d] BY <1>1 DEF Fault
<1>3. /\ NotesOK' /\ notes'[c] = NoNotes
      /\ \A d \in Callers : d # c => notes'[d] = notes[d]
  BY <1>2, NotesAre DEF Fault
<1>4. faults' # faults
  <2>1. faults \in Nat BY InputsAssumption DEF CodegenInd
  <2> QED BY <2>1 DEF Fault
<1> QED BY <1>2, <1>3, <1>4 DEF Fault

LEMMA DiskStarts == FilesInit => DiskInd
BY DEF FilesInit, DiskInd, NotesOK, NoNotes

LEMMA DiskKeeps == CodegenInd /\ DiskInd /\ [FilesNext]_filesVars => DiskInd'
<1> SUFFICES ASSUME CodegenInd, DiskInd, [FilesNext]_filesVars PROVE DiskInd' OBVIOUS
<1>1. CASE UNCHANGED filesVars BY <1>1 DEF filesVars, DiskInd, NotesOK
<1>2. ASSUME NEW c \in Callers, NEW name \in AcceptedNames, Enter(c, name) PROVE DiskInd' BY <1>2, EnterDisk
<1>3. ASSUME NEW c \in Callers, Check(c) \/ ReadLoader(c) \/ ReadConfig(c) \/ ReadSpec(c) PROVE DiskInd'
  <2>1. /\ c \notin open /\ torn' = torn /\ open' = open /\ mixed' = mixed
        /\ \A d \in Callers : d # c => doing'[d] = doing[d]
        /\ NotesOK'
    BY <1>3, ReadStep
  <2>2. open' = open \ {c} /\ mixed' = mixed \ {c} BY <2>1 DEF DiskInd
  <2> QED BY <2>1, <2>2, StepDisk
<1>4. ASSUME NEW c \in Callers, Open(c) PROVE DiskInd' BY <1>4, OpenDisk
<1>5. ASSUME NEW c \in Callers, Write(c) PROVE DiskInd' BY <1>5, WriteDisk
<1>6. ASSUME NEW c \in Callers, Fault(c) PROVE DiskInd'
  <2>1. /\ torn' = torn /\ open' = open \ {c} /\ mixed' = mixed \ {c}
        /\ \A d \in Callers : d # c => doing'[d] = doing[d]
        /\ NotesOK'
    BY <1>6, FaultIs
  <2> QED BY <2>1, StepDisk
<1> QED BY <1>1, <1>2, <1>3, <1>4, <1>5, <1>6 DEF FilesNext

LEMMA CodegenIndIs == CodegenInd /\ DiskInd => CodegenInv
<1> SUFFICES ASSUME CodegenInd, DiskInd PROVE CodegenInv OBVIOUS
<1>1. \A path \in DOMAIN files : Compiles(path, files[path]) BY DEF CodegenInd, Fits
<1>2. \A layer \in Layers, feature \in Features :
        SpecPath(layer, feature) \in DOMAIN files => files[SpecPath(layer, feature)].kind = "spec"
  BY DEF CodegenInd, Fits, SpecRecord
<1>3. \A c \in Callers : /\ doing[c].pc \in {"idle", "check", "config", "append", "write"}
                         /\ (doing[c].pc = "write") = (doing[c].writes # <<>>)
                         /\ Busy(c) = (doing[c].input # None)
  <2> TAKE c \in Callers
  <2>1. CallTyped(doing[c]) BY DEF CodegenInd
  <2>2. None \notin AcceptedNames BY InputsAssumption DEF AcceptedNames
  <2> QED BY <2>1, <2>2 DEF CallTyped, Busy
<1> QED BY <1>1, <1>2, <1>3 DEF CodegenInd, CodegenInv, FilesTypeOK, DiskInd

(* For any inputs, callers and bounds: every page object, client and builder *)
(* that is not torn compiles by itself, and the specs are specs, whatever    *)
(* calls overlap or are cut short, between two files or in the midst of one  *)
(* (generator.ts, api-generator.ts, project-fs.ts).                          *)
THEOREM WrittenCodeCompiles == FilesSpec => []CodegenInv
<1>1. FilesSpec => [](CodegenInd /\ DiskInd)
  BY CodegenStarts, CodegenKeeps, DiskStarts, DiskKeeps, PTL DEF FilesSpec
<1> QED BY <1>1, CodegenIndIs, PTL

-----------------------------------------------------------------------------
(* A call nobody came beside.                                              *)
LEMMA EnterAlone ==
  ASSUME CodegenInd, DiskInd, AloneInd, NEW c \in Callers, NEW name \in AcceptedNames, Enter(c, name)
  PROVE  AloneInd'
<1> DEFINE others == {d \in Callers : Busy(d)}
           new == [pc     |-> IF Appends(Inputs[name]) THEN "append" ELSE "check",
                   input  |-> name,
                   todo   |-> IF Appends(Inputs[name]) THEN <<>> ELSE Guarded(Inputs[name]),
                   loader |-> None, writes |-> <<>>, met |-> others # {}]
<1>1. /\ doing' = [d \in Callers |-> IF d = c THEN new ELSE [doing[d] EXCEPT !.met = @ \/ d \in others]]
      /\ files' = files
  BY DEF Enter
<1> SUFFICES ASSUME NEW d \in Callers, Busy(d)', ~doing'[d].met
             PROVE  /\ \A e \in Callers : Busy(e)' => e = d
                    /\ d \notin mixed' /\ AloneFits(doing[d], notes[d].cut)'
  BY DEF AloneInd
<1>2. ASSUME NEW e \in Callers, e # c
      PROVE  doing'[e].pc = doing[e].pc /\ doing'[e].met = (doing[e].met \/ e \in others)
  <2>1. doing'[e] = [doing[e] EXCEPT !.met = @ \/ e \in others] BY <1>1, <1>2
  <2>2. CallTyped(doing[e]) BY DEF CodegenInd
  <2> DEFINE k == doing[e]
             b == e \in others
             m == [k EXCEPT !.met = @ \/ b]
  <2>3. m.pc = k.pc /\ m.met = (k.met \/ b)
    <3> HIDE DEF k, b
    <3>1. k.met \in BOOLEAN /\ {"pc", "met"} \subseteq DOMAIN k BY <2>2 DEF CallTyped, k
    <3> QED BY <3>1
  <2> HIDE DEF k, b, m
  <2> QED BY <2>1, <2>3 DEF k, b, m
<1>3. d = c
  <2>1. SUFFICES ASSUME d # c PROVE FALSE OBVIOUS
  <2>2. Busy(d) BY <1>2, <2>1 DEF Busy
  <2>3. d \in others BY <2>2
  <2> QED BY <1>2, <2>1, <2>3
<1>4. doing'[c] = new BY <1>1
<1>5. others = {}
  <2>1. new.met = (others # {}) OBVIOUS
  <2> QED BY <1>3, <1>4, <2>1
<1>6. \A e \in Callers : Busy(e)' => e = d BY <1>2, <1>3, <1>5 DEF Busy
<1>7. AloneFits(doing[d], notes[d].cut)'
  <2>1. /\ new.pc \in {"check", "append"} /\ new.input = name
        /\ new.pc = "check" => new.todo = Guarded(Inputs[name])
    OBVIOUS
  <2>2. notes'[c].cut = {} BY DEF Enter, DiskInd, NotesOK
  <2> HIDE DEF new
  <2> QED BY <1>3, <1>4, <2>1, <2>2 DEF AloneFits
<1>8. d \notin mixed' BY <1>3 DEF Enter, DiskInd, Busy
<1> QED BY <1>6, <1>7, <1>8

(* Any other step is one of a call under way.                              *)
LEMMA StepAlone ==
  ASSUME CodegenInd, AloneInd, NEW c \in Callers, Busy(c),
         \A d \in Callers : d # c => doing'[d] = doing[d],
         Busy(c)' => doing'[c].met = doing[c].met,
         Busy(c)' /\ AloneFits(doing[c], notes[c].cut) /\ c \notin mixed
           /\ (\A d \in Callers : Busy(d) => d = c)
           => c \notin mixed' /\ AloneFits(doing[c], notes[c].cut)'
  PROVE  AloneInd'
<1> SUFFICES ASSUME NEW d \in Callers, Busy(d)', ~doing'[d].met
             PROVE  /\ \A e \in Callers : Busy(e)' => e = d
                    /\ d \notin mixed' /\ AloneFits(doing[d], notes[d].cut)'
  BY DEF AloneInd
<1>1. d = c
  <2>1. SUFFICES ASSUME d # c PROVE FALSE OBVIOUS
  <2>2. Busy(d) /\ ~doing[d].met BY <2>1 DEF Busy
  <2> QED BY <2>1, <2>2 DEF AloneInd
<1>2. ~doing[c].met BY <1>1
<1>3. (\A e \in Callers : Busy(e) => e = c) /\ c \notin mixed /\ AloneFits(doing[c], notes[c].cut)
  BY <1>2 DEF AloneInd
<1>4. \A e \in Callers : Busy(e)' => e = c BY <1>3 DEF Busy
<1> QED BY <1>1, <1>3, <1>4

(* What is read torn is noted.                                             *)
LEMMA CutGrows ==
  ASSUME DiskInd, NEW c \in Callers, NEW read, Notes(c, read), Busy(c)'
  PROVE  notes'[c].cut = notes[c].cut \cup (torn \cap read)
<1>1. doing'[c] # Idle BY DEF Busy, Idle
<1>2. notes'[c] = [notes[c] EXCEPT !.cut = notes[c].cut \cup (torn \cap read)] BY <1>1, NotesAre
<1>3. "cut" \in DOMAIN notes[c] BY DEF DiskInd, NotesOK
<1> QED BY <1>2, <1>3

LEMMA CheckAlone ==
  ASSUME CodegenInd, DiskInd, AloneInd, NEW c \in Callers, Check(c)
  PROVE  AloneInd'
<1> DEFINE k == doing[c]
           new == IF Head(k.todo) \in Present THEN Idle ELSE [k EXCEPT !.todo = Tail(k.todo)]
<1>1. CallTyped(k) /\ k.pc = "check" /\ k.todo # <<>> BY DEF CodegenInd, Check
<1>2. doing' = [doing EXCEPT ![c] = new] /\ files' = files BY DEF Check
<1>3. doing = [d \in Callers |-> doing[d]] BY DEF CodegenInd
<1>4. doing'[c] = new /\ \A d \in Callers : d # c => doing'[d] = doing[d] BY <1>2, <1>3
<1>5. ASSUME Busy(c)'
      PROVE  /\ doing'[c] = [k EXCEPT !.todo = Tail(k.todo)] /\ Head(k.todo) \notin DOMAIN files
             /\ doing'[c].met = k.met /\ doing'[c].pc = k.pc /\ doing'[c].input = k.input
             /\ doing'[c].todo = Tail(k.todo)
  <2>1. doing'[c] # Idle BY <1>5 DEF Busy, Idle
  <2>2. doing'[c] = [k EXCEPT !.todo = Tail(k.todo)] /\ Head(k.todo) \notin DOMAIN files
    BY <2>1, <1>4 DEF Present
  <2> QED BY <2>2, <1>1 DEF CallTyped
<1>6. ASSUME Busy(c)', AloneFits(k, notes[c].cut) PROVE AloneFits(doing[c], notes[c].cut)'
  <2>0. notes'[c].cut = notes[c].cut
    <3>1. notes'[c].cut = notes[c].cut \cup (torn \cap {}) BY <1>6, CutGrows DEF Check, DiskInd
    <3> QED BY <3>1
  <2>1. Range(k.todo) = Range(Tail(k.todo)) \cup {Head(k.todo)} BY <1>1, ListTail DEF CallTyped
  <2> HIDE DEF new
  <2>2. doing'[c].pc = "check" /\ doing'[c].input = k.input /\ doing'[c].todo = Tail(k.todo)
        /\ Head(k.todo) \notin DOMAIN files
    BY <1>1, <1>5, <1>6
  <2> QED BY <1>1, <1>6, <1>2, <2>0, <2>1, <2>2 DEF AloneFits
<1>7. Busy(c) /\ mixed' = mixed BY <1>1 DEF Busy, Check
<1> HIDE DEF new
<1> QED BY <1>4, <1>5, <1>6, <1>7, StepAlone

LEMMA ReadLoaderAlone ==
  ASSUME CodegenInd, DiskInd, AloneInd, NEW c \in Callers, ReadLoader(c)
  PROVE  AloneInd'
<1> DEFINE k == doing[c]
           loader == files[LoaderPath(LayerOf(InputOf(c)))]
<1>1. CallTyped(k) /\ k.pc = "check" /\ k.todo = <<>> BY DEF CodegenInd, ReadLoader
<1>2. /\ \/ doing' = [doing EXCEPT ![c].pc = "config", ![c].loader = loader]
         \/ doing' = [doing EXCEPT ![c] = Idle]
      /\ files' = files /\ mixed' = mixed
  BY DEF ReadLoader
<1>3. doing = [d \in Callers |-> doing[d]] BY DEF CodegenInd
<1>4. \A d \in Callers : d # c => doing'[d] = doing[d] BY <1>2, <1>3
<1>5. ASSUME Busy(c)'
      PROVE  /\ doing'[c].pc = "config" /\ doing'[c].loader = loader /\ doing'[c].met = k.met
             /\ doing'[c].input = k.input
  <2>1. doing'[c] # Idle BY <1>5 DEF Busy, Idle
  <2>2. doing' = [doing EXCEPT ![c].pc = "config", ![c].loader = loader] BY <2>1, <1>2, <1>3
  <2> QED BY <1>1, <2>2, <1>3 DEF CallTyped
<1>6. ASSUME Busy(c)', AloneFits(k, notes[c].cut) PROVE AloneFits(doing[c], notes[c].cut)'
  <2>1. Range(k.todo) = {} BY <1>1, ListNone
  <2>2. notes'[c].cut = notes[c].cut \cup (torn \cap {LoaderPath(LayerOf(InputOf(c)))})
    BY <1>6, CutGrows DEF ReadLoader
  <2>3. doing'[c].pc = "config" /\ doing'[c].loader = loader /\ doing'[c].input = k.input BY <1>5, <1>6
  <2> QED BY <1>1, <1>2, <1>6, <2>1, <2>2, <2>3 DEF AloneFits, InputOf
<1>7. Busy(c) BY <1>1 DEF Busy
<1> QED BY <1>2, <1>4, <1>5, <1>6, <1>7, StepAlone

LEMMA FaultAlone ==
  ASSUME CodegenInd, DiskInd, AloneInd, NEW c \in Callers, Fault(c)
  PROVE  AloneInd'
<1>1. doing' = [doing EXCEPT ![c] = Idle] /\ Busy(c) BY DEF Fault
<1>2. doing = [d \in Callers |-> doing[d]] BY DEF CodegenInd
<1>3. doing'[c] = Idle /\ \A d \in Callers : d # c => doing'[d] = doing[d] BY <1>1, <1>2
<1>4. ~Busy(c)' BY <1>3 DEF Busy, Idle
<1> QED BY <1>1, <1>3, <1>4, StepAlone

LEMMA ReadSpecAlone ==
  ASSUME CodegenInd, DiskInd, AloneInd, NEW c \in Callers, ReadSpec(c)
  PROVE  AloneInd'
<1> DEFINE k == doing[c]
           path == SpecPath(LayerOf(InputOf(c)), InputOf(c).feature)
<1>1. CallTyped(k) /\ k.pc = "append" /\ Appends(Inputs[k.input]) BY DEF CodegenInd, ReadSpec, CallTyped
<1>2. PICK text, refused :
        doing' = [doing EXCEPT ![c] = IF refused THEN Idle
                                      ELSE [k EXCEPT !.pc = "write", !.writes = <<FileEntry(path, text)>>]]
  BY DEF ReadSpec
<1>3. doing = [d \in Callers |-> doing[d]] BY DEF CodegenInd
<1>4. \A d \in Callers : d # c => doing'[d] = doing[d] BY <1>2, <1>3
<1>5. ASSUME Busy(c)'
      PROVE  /\ doing'[c].pc = "write" /\ doing'[c].met = k.met /\ doing'[c].input = k.input
             /\ doing'[c].writes = <<FileEntry(path, text)>>
  <2>1. doing'[c] # Idle BY <1>5 DEF Busy, Idle
  <2> DEFINE w == <<FileEntry(path, text)>>
  <2> HIDE DEF w
  <2>2. doing'[c] = [k EXCEPT !.pc = "write", !.writes = w] BY <2>1, <1>2, <1>3 DEF w
  <2>3. doing'[c].pc = "write" /\ doing'[c].met = k.met /\ doing'[c].input = k.input
        /\ doing'[c].writes = w
    BY <2>2, <1>1 DEF CallTyped
  <2> QED BY <2>3 DEF w
<1>6. ASSUME Busy(c)', AloneFits(k, notes[c].cut) PROVE AloneFits(doing[c], notes[c].cut)'
  <2>1. Range(<<FileEntry(path, text)>>) = {FileEntry(path, text)} BY ListOne
  <2>2. FileEntry(path, text).path = path BY EntryParts
  <2>3. Inputs[doing'[c].input] = InputOf(c) BY <1>5, <1>6 DEF InputOf
  <2>4. \A e \in Range(doing'[c].writes) : e.path = path BY <2>1, <2>2, <1>5, <1>6
  <2>5. doing'[c].pc = "write" /\ Appends(InputOf(c)) BY <1>1, <1>5, <1>6 DEF InputOf
  <2>6. notes'[c].cut = notes[c].cut \cup (torn \cap {path}) BY <1>6, CutGrows DEF ReadSpec
  <2>7. notes[c].cut \subseteq {LoaderPath(LayerOf(InputOf(c))), ConfigPath(LayerOf(InputOf(c))), path}
    BY <1>6 DEF AloneFits, InputOf
  <2> HIDE DEF k
  <2> QED BY <2>3, <2>4, <2>5, <2>6, <2>7 DEF AloneFits
<1>7. Busy(c) /\ mixed' = mixed BY <1>1 DEF Busy, ReadSpec
<1> QED BY <1>4, <1>5, <1>6, <1>7, StepAlone

(* A new loader and a new config keep what there was.                      *)
LEMMA NewEntriesAdd ==
  ASSUME CodegenInd, NEW input, NEW e, NEW layer \in Layers, layer = LayerOf(input),
         \/ e.path = LoaderPath(layer) /\ e.content = NewLoader(input, files[LoaderPath(layer)])
         \/ e.path = ConfigPath(layer) /\ e.content = NewConfig(input, files[ConfigPath(layer)])
  PROVE  Adds(input, e)
<1>1. \A l \in Layers : LoaderPath(l) # ConfigPath(layer) /\ ConfigPath(l) # LoaderPath(layer)
  BY PathRanks
<1>2. \A l \in Layers : /\ LoaderPath(l) = LoaderPath(layer) => l = layer
                        /\ ConfigPath(l) = ConfigPath(layer) => l = layer
  BY DEF LoaderPath, ConfigPath
<1>3. CASE e.path = LoaderPath(layer) /\ e.content = NewLoader(input, files[LoaderPath(layer)])
  <2> DEFINE old == files[LoaderPath(layer)]
  <2>1. /\ old.exports \subseteq e.content.exports /\ old.data \subseteq e.content.data
        /\ \A new \in e.content.exports \ old.exports : new[2] \in CodePaths(input)
        /\ \A new \in e.content.data \ old.data :
             /\ new = input.feature /\ Creates(input) /\ HasExpected(input.schema.expected)
             /\ layer = "ui" /\ LayerOf(input) = "ui"
    <3>1. CASE layer = "ui"
      <4> DEFINE has == input.mode = "create" /\ HasExpected(input.schema.expected)
      <4>1. e.content = WithPages(old, PagesIn(input), input.feature, has)
        BY <3>1, <1>3 DEF NewLoader
      <4>2. has => Creates(input) /\ HasExpected(input.schema.expected) BY DEF Creates, Creating
      <4> HIDE DEF has, old
      <4>3. old.exports \subseteq e.content.exports /\ old.data \subseteq e.content.data
        BY <4>1 DEF WithPages
      <4>4. \A new \in e.content.exports \ old.exports : new[2] \in CodePaths(input)
        BY <4>1 DEF WithPages, CodePaths
      <4>5. \A new \in e.content.data \ old.data : new = input.feature /\ has
        BY <4>1 DEF WithPages
      <4> QED BY <4>2, <4>3, <4>4, <4>5, <3>1
    <3>2. CASE layer # "ui"
      <4> DEFINE more == {<<c.class, ClientPath(c)>> : c \in Range(ClientsIn(input))}
      <4>1. \A new \in more : new[2] \in CodePaths(input) BY DEF CodePaths
      <4> HIDE DEF more
      <4>2. e.content = [old EXCEPT !.exports = old.exports \cup more]
        BY <3>2, <1>3 DEF NewLoader, WithClients, more
      <4> HIDE DEF old
      <4>3. e.content.data = old.data BY <4>2
      <4>4. e.content.exports = old.exports \cup more
        <5>1. CASE "exports" \in DOMAIN old BY <4>2, <5>1
        <5>2. "exports" \in DOMAIN old BY DEF old, CodegenInd, Fits, Led
        <5> QED BY <5>1, <5>2
      <4> QED BY <4>1, <4>3, <4>4
    <3> QED BY <3>1, <3>2
  <2> HIDE DEF old
  <2>2. files[e.path] = old BY <1>3 DEF old
  <2>3. \A l \in Layers : e.path = LoaderPath(l) => l = layer BY <1>2, <1>3
  <2>4. \A l \in Layers : e.path # ConfigPath(l) BY <1>1, <1>3
  <2> QED BY <2>1, <2>2, <2>3, <2>4 DEF Adds
<1>4. CASE e.path = ConfigPath(layer) /\ e.content = NewConfig(input, files[ConfigPath(layer)])
  <2> DEFINE old == files[ConfigPath(layer)]
  <2>1. old \subseteq e.content
    BY <1>4 DEF NewConfig, WithPageFixtures, WithAuth, WithClientFixtures
  <2>2. \A new \in e.content \ old, x \in old : new[1] = x[1] => new \in Binds(input)
    <3>1. CASE layer = "ui"
      <4>1. e.content = WithPageFixtures(old, PagesIn(input)) BY <3>1, <1>4 DEF NewConfig
      <4> HIDE DEF old
      <4> QED BY <4>1 DEF WithPageFixtures, Binds
    <3>2. CASE layer # "ui"
      <4> DEFINE mid == WithClientFixtures(old, ClientsIn(input))
      <4>1. e.content = mid \/ \E auth : e.content = WithAuth(mid, auth) BY <3>2, <1>4 DEF NewConfig
      <4>2. \A new \in mid \ old, x \in old : new[1] # x[1] BY DEF WithClientFixtures
      <4> HIDE DEF mid, old
      <4>3. \A new \in e.content : new \in mid \/ new \in AuthFixtures BY <4>1 DEF WithAuth
      <4>4. AuthFixtures \subseteq Binds(input) BY DEF Binds
      <4> QED BY <4>2, <4>3, <4>4
    <3> QED BY <3>1, <3>2
  <2> HIDE DEF old
  <2>3. \A l \in Layers : e.path = ConfigPath(l) => l = layer BY <1>2, <1>4
  <2>4. \A l \in Layers : e.path # LoaderPath(l) BY <1>1, <1>4
  <2>5. files[e.path] = old BY <1>4 DEF old
  <2> QED BY <2>1, <2>2, <2>3, <2>4, <2>5 DEF Adds
<1> QED BY <1>3, <1>4

LEMMA ReadConfigAlone ==
  ASSUME CodegenInd, DiskInd, AloneInd, NEW c \in Callers, ReadConfig(c)
  PROVE  AloneInd'
<1> DEFINE k == doing[c]
           input == InputOf(c)
           layer == LayerOf(input)
           config == files[ConfigPath(layer)]
           w == Writes(input, k.loader, config)
           full == [k EXCEPT !.pc = "write", !.writes = w, !.loader = None]
           cut == notes'[c].cut
<1>1. CallTyped(k) /\ CallFits(k) /\ k.pc = "config" BY DEF CodegenInd, ReadConfig
<1>2. /\ files' = files /\ torn' = torn /\ mixed' = mixed
      /\ \E refused : /\ doing' = [doing EXCEPT ![c] = IF refused THEN Idle ELSE full]
                      /\ ConfigPath(layer) \notin torn => refused = FixtureCollides(config, ClientsIn(input))
  BY DEF ReadConfig
<1>3. Busy(c) BY <1>1 DEF Busy
<1>4. InputShape(input) /\ Accepted(input) /\ ~Appends(input) /\ layer \in Layers
  BY <1>1, <1>3, InputKnown DEF CallTyped, InputOf
<1>5. doing = [d \in Callers |-> doing[d]] BY DEF CodegenInd
<1>6. \A d \in Callers : d # c => doing'[d] = doing[d] BY <1>2, <1>5
<1>7. ASSUME Busy(c)'
      PROVE  /\ ConfigPath(layer) \notin torn => ~FixtureCollides(config, ClientsIn(input))
             /\ doing'[c].pc = "write" /\ doing'[c].met = k.met /\ doing'[c].input = k.input
             /\ doing'[c].writes = w
  <2>1. doing'[c] # Idle BY <1>7 DEF Busy, Idle
  <2>2. /\ doing'[c] = full
        /\ ConfigPath(layer) \notin torn => ~FixtureCollides(config, ClientsIn(input))
    <3> HIDE DEF full
    <3> QED BY <2>1, <1>2, <1>5
  <2>3. full = [pc |-> "write", input |-> k.input, todo |-> k.todo, loader |-> None,
                writes |-> w, met |-> k.met]
    <3>1. k = [pc |-> k.pc, input |-> k.input, todo |-> k.todo, loader |-> k.loader,
               writes |-> k.writes, met |-> k.met]
      BY <1>1 DEF CallTyped
    <3> HIDE DEF w, k
    <3> QED BY <3>1, CallRecord, ZenonT(60)
  <2> HIDE DEF w, full
  <2> QED BY <2>2, <2>3
<1>8. ASSUME Busy(c)', AloneFits(k, notes[c].cut) PROVE AloneFits(doing[c], notes[c].cut)'
  <2>0. cut = notes[c].cut \cup (torn \cap {ConfigPath(layer)}) BY <1>8, CutGrows DEF ReadConfig
  <2>1. k.loader = files[LoaderPath(layer)] BY <1>1, <1>8 DEF AloneFits, InputOf
  <2>2. ~Overwrites(input) => \A path \in Range(Guarded(input)) : path \notin DOMAIN files
    BY <1>1, <1>8 DEF AloneFits, InputOf
  <2>3. /\ Ranked(w) /\ \A e \in Range(w) : EntryIs(input, k.loader, config, e)
    BY <1>4, WritesAre
  <2>4. ASSUME NEW e \in Range(w) PROVE Adds(input, e)
    <3>1. EntryIs(input, k.loader, config, e) BY <2>3
    <3>2. CASE \/ e.path = LoaderPath(layer) /\ e.content = NewLoader(input, k.loader)
               \/ e.path = ConfigPath(layer) /\ e.content = NewConfig(input, config)
      BY <3>2, <2>1, <1>4, NewEntriesAdd
    <3>3. CASE Turn(e.path) \in {1, 4, 5} BY <3>3, PathRanks DEF Adds
    <3> QED BY <3>1, <3>2, <3>3, <1>4, PathRanks DEF EntryIs
  <2>5. ASSUME NEW e \in Range(w), ~Overwrites(input) PROVE Fresh(e)
    <3>1. EntryIs(input, k.loader, config, e) BY <2>3
    <3>2. /\ CodePaths(input) \subseteq Range(Guarded(input))
          /\ Creates(input) => SpecPath(layer, input.feature) \in Range(Guarded(input))
      BY <2>5, <1>4, GuardedIs DEF Overwrites, Creates
    <3>3. Turn(e.path) = 1 => e.path \in CodePaths(input) BY <3>1, <1>4, PathRanks DEF EntryIs
    <3>4. Turn(e.path) = 4 => Creates(input) /\ e.path = SpecPath(layer, input.feature)
      BY <3>1, <1>4, PathRanks DEF EntryIs
    <3>5. Turn(e.path) \in {1, 4} => e.path \notin DOMAIN files BY <3>2, <3>3, <3>4, <2>2, <2>5
    <3>6. e.path \notin DOMAIN files => Unused(e.path)
      BY DEF Unused, CodegenInd, Fits, Led, Built
    <3> QED BY <3>5, <3>6 DEF Fresh
  <2>6. \E loader, conf :
          LET all == Range(Writes(input, loader, conf))
          IN  /\ cut = {} => ~FixtureCollides(conf, ClientsIn(input))
              /\ "exports" \in DOMAIN loader
              /\ Range(w) \subseteq all
              /\ \A e \in all : e.path \in Paths(w)
    <3> WITNESS k.loader, config
    <3>1. "exports" \in DOMAIN k.loader BY <1>1 DEF CallFits, Led
    <3>2. cut = {} => ConfigPath(layer) \notin torn BY <2>0
    <3>3. \A e \in Range(w) : e.path \in Paths(w) BY DEF Paths
    <3> QED BY <1>7, <1>8, <3>1, <3>2, <3>3
  <2>7. Delivered(doing[c], notes[c].cut)'
    <3> HIDE DEF w, k
    <3>1. doing'[c].writes = w /\ doing'[c].input = k.input BY <1>7, <1>8
    <3>2. Inputs[doing'[c].input] = input BY <3>1 DEF InputOf, k
    <3> QED BY <3>1, <3>2, <2>6 DEF Delivered
  <2>16. PICK i : i = input OBVIOUS
  <2>8. \A e : (Adds(i, e)' <=> Adds(i, e)) /\ (Fresh(e)' <=> Fresh(e))
    BY <1>2 DEF Adds, Fresh, Unused
  <2>11. ASSUME Creates(input) PROVE EndsLate(w)
    <3>1. Listed(w) /\ SpecEntry(input) \in Range(w) BY <1>4, <2>11, WritesAre
    <3>2. PICK j \in DOMAIN w : w[j] = SpecEntry(input) BY <3>1 DEF Range
    <3>3. Turn(w[j].path) = 4 BY <3>2, <1>4, PathRanks, EntryParts DEF SpecEntry
    <3> HIDE DEF w
    <3>4. DOMAIN w = 1..Len(w) /\ Len(w) \in Nat BY <3>1, ListedIs
    <3>5. SUFFICES ASSUME NEW m \in DOMAIN w, m = Len(w) PROVE Turn(w[m].path) \in {4, 5}
      BY DEF EndsLate
    <3>6. m = j \/ j < m BY <3>4, <3>5
    <3>7. Turn(w[m].path) \in 1..5 BY DEF Turn
    <3>8. CASE j < m
      <4>1. Before(w[j], w[m]) BY <3>8, <2>3 DEF Ranked
      <4> QED BY <4>1, <3>3, <3>7 DEF Before
    <3> QED BY <3>3, <3>6, <3>8
  <2>9. Inputs[doing'[c].input] = input BY <1>7, <1>8 DEF InputOf
  <2>10. doing'[c].pc = "write" /\ doing'[c].writes = w BY <1>7, <1>8
  <2>12. cut \subseteq {LoaderPath(layer), ConfigPath(layer), SpecPath(layer, input.feature)}
    <3>1. notes[c].cut \subseteq {LoaderPath(layer), ConfigPath(layer), SpecPath(layer, input.feature)}
      BY <1>8 DEF AloneFits, InputOf
    <3> HIDE DEF cut, layer, input
    <3> QED BY <3>1, <2>0
  <2>13. /\ \A e \in Range(w) : Adds(i, e)' /\ (~Overwrites(i) => Fresh(e)')
         /\ Ranked(w) /\ (Creates(i) => EndsLate(w)) /\ ~Appends(i)
    BY <2>3, <2>4, <2>5, <2>8, <2>11, <2>16, <1>4
  <2>14. PICK v : v = w OBVIOUS
  <2>15. doing'[c].pc = "write" /\ doing'[c].writes = v /\ Inputs[doing'[c].input] = i
    BY <2>9, <2>10, <2>14, <2>16
  <2>17. /\ \A e \in Range(v) : Adds(i, e)' /\ (~Overwrites(i) => Fresh(e)')
         /\ Ranked(v) /\ (Creates(i) => EndsLate(v)) /\ ~Appends(i)
         /\ notes'[c].cut \subseteq {LoaderPath(LayerOf(i)), ConfigPath(LayerOf(i)), SpecPath(LayerOf(i), i.feature)}
    BY <2>12, <2>13, <2>14, <2>16
  <2> HIDE DEF w, k, cut, input
  <2> QED BY <2>7, <2>15, <2>17 DEF AloneFits
<1> QED BY <1>2, <1>3, <1>6, <1>7, <1>8, StepAlone

(* What the first of a call's files does to the others that are to come.   *)
LEMMA HeadFirst ==
  ASSUME NEW w, Listed(w), w # <<>>, Ranked(w)
  PROVE  /\ Ranked(Tail(w)) /\ \A e \in Range(Tail(w)) : Before(w[1], e)
         /\ Range(w) = Range(Tail(w)) \cup {w[1]}
<1>1. /\ Listed(Tail(w)) /\ Len(w) \in Nat \ {0} /\ Len(Tail(w)) = Len(w) - 1
      /\ \A i \in 1..(Len(w) - 1) : Tail(w)[i] = w[i + 1]
      /\ DOMAIN w = 1..Len(w) /\ DOMAIN Tail(w) = 1..(Len(w) - 1)
      /\ Range(w) = Range(Tail(w)) \cup {w[1]}
  BY ListTail, ListedIs
<1>2. \A i \in DOMAIN Tail(w) : /\ i \in Nat /\ i + 1 \in DOMAIN w /\ 1 \in DOMAIN w /\ 1 < i + 1
                                /\ Tail(w)[i] = w[i + 1]
  BY <1>1
<1>3. \A i, j \in DOMAIN Tail(w) : i < j => i + 1 < j + 1 BY <1>2
<1>4. Ranked(Tail(w)) BY <1>2, <1>3 DEF Ranked
<1>5. \A i \in DOMAIN Tail(w) : Before(w[1], Tail(w)[i]) BY <1>2 DEF Ranked
<1> QED BY <1>1, <1>4, <1>5 DEF Range

(* Nobody else has a file open. *)
LEMMA OnlyOpen ==
  ASSUME DiskInd, NEW c \in Callers, \A d \in Callers : Busy(d) => d = c
  PROVE  open \subseteq {c}
BY DEF DiskInd, Busy

LEMMA WriteWhole ==
  ASSUME CodegenInd, DiskInd, NEW c \in Callers, Write(c), \A d \in Callers : Busy(d) => d = c,
         c \notin mixed
  PROVE  /\ torn' = torn \ ({Head(doing[c].writes).path} \ notes[c].cut)
         /\ open = {c} /\ open' = {} /\ c \notin mixed'
<1> DEFINE p == Head(doing[c].writes).path
<1>1. c \in open /\ open' = open \ {c} /\ mixed' = mixed \ {c} BY WriteTorn
<1>2. open = {c} BY <1>1, OnlyOpen
<1>3. Writing(p) = {c} BY <1>2 DEF Writing
<1>4. Writing(p) = {c} /\ c \notin mixed => torn' = torn \ ({p} \ notes[c].cut) BY WriteTorn
<1> HIDE DEF p
<1>5. torn' = torn \ ({p} \ notes[c].cut) BY <1>3, <1>4
<1> QED BY <1>1, <1>2, <1>5 DEF p

LEMMA WriteAlone ==
  ASSUME CodegenInd, DiskInd, AloneInd, NEW c \in Callers, Write(c)
  PROVE  AloneInd'
<1> DEFINE k == doing[c]
           w == k.writes
           h == w[1]
           t == Tail(w)
           input == InputOf(c)
<1>1. /\ Listed(w) /\ w # <<>> /\ k.pc = "write"
      /\ files' = Put(files, h.path, h.content)
      /\ \A d \in Callers : d # c => doing'[d] = doing[d]
      /\ \/ Len(w) = 1 /\ doing'[c] = Idle
         \/ /\ Tail(w) # <<>>
            /\ doing'[c] = [pc |-> "write", input |-> k.input, todo |-> k.todo,
                            loader |-> k.loader, writes |-> Tail(w), met |-> k.met]
  BY WriteIs
<1>2. /\ DOMAIN files' = DOMAIN files \cup {h.path} /\ files'[h.path] = h.content
      /\ \A p \in DOMAIN files : p # h.path => files'[p] = files[p]
  <2>1. files' = Put(files, h.path, h.content) BY <1>1
  <2> HIDE DEF h
  <2> QED BY <2>1 DEF Put
<1>3. ASSUME Busy(c)'
      PROVE  doing'[c].pc = "write" /\ doing'[c].writes = t /\ doing'[c].met = k.met /\ doing'[c].input = k.input
  <2>1. doing'[c] # Idle BY <1>3 DEF Busy, Idle
  <2> HIDE DEF w, k
  <2> QED BY <2>1, <1>1
<1>4. Busy(c) BY <1>1 DEF Busy
<1>5. ASSUME Busy(c)', AloneFits(k, notes[c].cut), c \notin mixed, \A d \in Callers : Busy(d) => d = c
      PROVE  c \notin mixed' /\ AloneFits(doing[c], notes[c].cut)'
  <2>0. PICK i, cut : i = input /\ cut = notes[c].cut OBVIOUS
  <2>3. notes'[c].cut = cut
    <3>1. notes'[c].cut = notes[c].cut \cup (torn \cap {}) BY <1>5, CutGrows DEF Write
    <3> QED BY <3>1, <2>0
  <2>4. /\ torn' = torn \ ({h.path} \ cut) /\ c \notin mixed'
    <3>1. Head(w) = h BY <1>1, ListTail
    <3> QED BY <3>1, <1>5, <2>0, WriteWhole
  <2>5. Inputs[k.input] = i /\ Inputs[doing'[c].input] = i BY <1>3, <1>5, <2>0 DEF InputOf
  <2>6. doing'[c].pc = "write" /\ doing'[c].writes = t BY <1>3, <1>5
  <2>7. cut \subseteq {LoaderPath(LayerOf(i)), ConfigPath(LayerOf(i)), SpecPath(LayerOf(i), i.feature)}
    BY <1>5, <2>0, <2>5 DEF AloneFits
  <2>1. CASE Appends(i)
    <3>2. \A e \in Range(w) : e.path = SpecPath(LayerOf(i), i.feature)
      BY <1>1, <1>5, <2>1, <2>5 DEF AloneFits
    <3>3. Range(t) \subseteq Range(w) BY <1>1, ListTail
    <3> HIDE DEF w, t, h, k, input
    <3> QED BY <2>3, <2>4, <2>5, <2>6, <2>7, <3>2, <3>3, <2>1 DEF AloneFits
  <2>2. CASE ~Appends(i)
    <3>1. /\ Ranked(w) /\ \A e \in Range(w) : Adds(i, e) /\ (~Overwrites(i) => Fresh(e))
          /\ Delivered(k, cut) /\ (Creates(i) => EndsLate(w))
      BY <1>1, <1>5, <2>0, <2>2, <2>5 DEF AloneFits
    <3>2. /\ Ranked(t) /\ \A e \in Range(t) : Before(h, e)
          /\ Range(w) = Range(t) \cup {h}
      BY <1>1, <3>1, HeadFirst
    <3> HIDE DEF w, t, h, k, input
    <3>7. ASSUME Creates(i) PROVE EndsLate(t)
      <4>1. EndsLate(w) BY <3>1, <3>7
      <4>2. /\ Listed(t) /\ Len(w) \in Nat \ {0} /\ Len(t) = Len(w) - 1
            /\ \A m \in 1..(Len(w) - 1) : t[m] = w[m + 1]
        BY <1>1, ListTail DEF t
      <4>3. DOMAIN w = 1..Len(w) /\ DOMAIN t = 1..Len(t) BY <1>1, <4>2, ListedIs
      <4>4. SUFFICES ASSUME NEW m \in DOMAIN t, m = Len(t) PROVE Turn(t[m].path) \in {4, 5}
        BY DEF EndsLate
      <4>5. m + 1 = Len(w) /\ m + 1 \in DOMAIN w /\ t[m] = w[m + 1] BY <4>2, <4>3, <4>4
      <4> QED BY <4>1, <4>5 DEF EndsLate
    <3>3. ASSUME NEW e \in Range(t) PROVE Adds(i, e)'
      <4>1. Adds(i, e) /\ Before(h, e) BY <3>1, <3>2
      <4>2. ASSUME NEW l \in Layers, e.path = LoaderPath(l) \/ e.path = ConfigPath(l)
            PROVE  files'[e.path] = files[e.path]
        <5>1. Turn(e.path) \in {2, 3} BY <4>2, PathRanks
        <5>2. h.path # e.path BY <4>1, <5>1 DEF Before
        <5>3. e.path \in DOMAIN files BY <4>2 DEF CodegenInd
        <5> QED BY <5>2, <5>3, <1>2
      <4> QED BY <4>1, <4>2 DEF Adds
    <3>4. ASSUME NEW e \in Range(t), ~Overwrites(i) PROVE Fresh(e)'
      <4>1. Fresh(e) /\ Before(h, e) BY <3>1, <3>2, <3>4
      <4>2. ASSUME Turn(e.path) = 1 PROVE Unused(e.path)'
        <5>1. Turn(h.path) = 1
          <6>1. Turn(h.path) \in 1..5 BY DEF Turn
          <6> QED BY <4>1, <4>2, <6>1 DEF Before
        <5>2. Unused(e.path) BY <4>1, <4>2 DEF Fresh
        <5>3. \A l \in Layers : files'[LoaderPath(l)] = files[LoaderPath(l)]
          <6> TAKE l \in Layers
          <6>1. LoaderPath(l) # h.path BY <5>1, PathRanks
          <6>2. LoaderPath(l) \in DOMAIN files BY DEF CodegenInd
          <6> QED BY <6>1, <6>2, <1>2
        <5>4. \A l \in Layers, f \in Features :
                /\ SpecPath(l, f) \in DOMAIN files' => SpecPath(l, f) \in DOMAIN files
                /\ SpecPath(l, f) \in DOMAIN files => files'[SpecPath(l, f)] = files[SpecPath(l, f)]
          <6> TAKE l \in Layers, f \in Features
          <6>1. SpecPath(l, f) # h.path BY <5>1, PathRanks
          <6> QED BY <6>1, <1>2
        <5> QED BY <5>2, <5>3, <5>4 DEF Unused
      <4>3. ASSUME Turn(e.path) = 4 PROVE e.path \notin DOMAIN files'
        <5>1. h.path # e.path BY <4>1, <4>3 DEF Before
        <5>2. e.path \notin DOMAIN files BY <4>1, <4>3 DEF Fresh
        <5> QED BY <5>1, <5>2, <1>2
      <4> QED BY <4>2, <4>3 DEF Fresh
    <3>5. Delivered(doing[c], notes[c].cut)'
      <4>2. PICK loader, config :
              LET all == Range(Writes(i, loader, config))
              IN  /\ cut = {} => ~FixtureCollides(config, ClientsIn(i))
                  /\ "exports" \in DOMAIN loader
                  /\ Range(w) \subseteq all
                  /\ \A e \in all : \/ e.path \in Paths(w)
                                    \/ /\ Landed(e.path, cut)
                                       /\ \E f \in all : f.path = e.path /\ files[e.path] = f.content
        BY <3>1, <2>5 DEF Delivered, w
      <4> DEFINE all == Range(Writes(i, loader, config))
      <4>3. /\ cut = {} => ~FixtureCollides(config, ClientsIn(i))
            /\ "exports" \in DOMAIN loader
            /\ Range(w) \subseteq all
        BY <4>2
      <4>4. ASSUME NEW e \in all
            PROVE  \/ e.path \in Paths(t)
                   \/ /\ e.path \in DOMAIN files' /\ (e.path \notin torn' \/ e.path \in cut)
                      /\ \E f \in all : f.path = e.path /\ files'[e.path] = f.content
        <5>1. CASE h.path = e.path
          <6>1. h \in all BY <4>3, <3>2
          <6> QED BY <5>1, <6>1, <1>2, <2>4
        <5>2. CASE h.path # e.path /\ e.path \in Paths(w) BY <5>2, <3>2 DEF Paths
        <5>3. CASE h.path # e.path /\ e.path \notin Paths(w)
          <6>1. /\ Landed(e.path, cut)
                /\ \E f \in all : f.path = e.path /\ files[e.path] = f.content
            BY <5>3, <4>2
          <6> HIDE DEF all
          <6> QED BY <5>3, <6>1, <1>2, <2>4 DEF Landed
        <5> QED BY <5>1, <5>2, <5>3
      <4>6. Range(t) \subseteq all BY <4>3, <3>2
      <4> HIDE DEF all
      <4>7. \E ld, cf :
              LET al == Range(Writes(i, ld, cf))
              IN  /\ cut = {} => ~FixtureCollides(cf, ClientsIn(i))
                  /\ "exports" \in DOMAIN ld
                  /\ Range(t) \subseteq al
                  /\ \A e \in al : \/ e.path \in Paths(t)
                                   \/ /\ e.path \in DOMAIN files' /\ (e.path \notin torn' \/ e.path \in cut)
                                      /\ \E f \in al : f.path = e.path /\ files'[e.path] = f.content
        <5> WITNESS loader, config
        <5> QED BY <4>3, <4>4, <4>6 DEF all
      <4> QED BY <2>3, <2>5, <2>6, <4>7 DEF Delivered, Landed
    <3> QED BY <2>3, <2>4, <2>5, <2>6, <2>7, <3>2, <3>3, <3>4, <3>5, <3>7, <2>2 DEF AloneFits
  <2> QED BY <2>1, <2>2
<1> QED BY <1>1, <1>3, <1>4, <1>5, StepAlone

LEMMA OpenAlone ==
  ASSUME CodegenInd, DiskInd, AloneInd, NEW c \in Callers, Open(c)
  PROVE  AloneInd'
<1> DEFINE k == doing[c]
           w == k.writes
           h == w[1]
<1>1. /\ doing' = doing /\ files' = files /\ notes' = notes /\ k.pc = "write"
      /\ c \notin open /\ torn' = torn \cup {Head(w).path}
      /\ mixed' = IF Writing(Head(w).path) = {} THEN mixed ELSE mixed \cup Writing(Head(w).path) \cup {c}
  BY DEF Open
<1>2. Busy(c) BY <1>1 DEF Busy
<1>3. Listed(w) /\ w # <<>> BY <1>1 DEF CodegenInd, CallTyped
<1>4. Head(w) \in Range(w) BY <1>3, ListTail
<1>5. ASSUME AloneFits(k, notes[c].cut), c \notin mixed, \A d \in Callers : Busy(d) => d = c
      PROVE  c \notin mixed' /\ AloneFits(doing[c], notes[c].cut)'
  <2>1. open \subseteq {c} BY <1>5, OnlyOpen
  <2>2. Writing(Head(w).path) = {} BY <2>1, <1>1 DEF Writing
  <2>3. c \notin mixed' BY <1>1, <1>5, <2>2
  <2>4. \A i, e : (Adds(i, e)' <=> Adds(i, e)) /\ (Fresh(e)' <=> Fresh(e))
    BY <1>1 DEF Adds, Fresh, Unused
  <2>5. PICK v, cut, i : v = w /\ cut = notes[c].cut /\ i = Inputs[k.input] OBVIOUS
  <2>6. Delivered(k, cut) => Delivered(doing[c], notes[c].cut)'
    <3>1. ASSUME NEW path, Landed(path, cut), path \notin Paths(v) PROVE Landed(path, cut)'
      <4>1. path # Head(w).path BY <1>4, <2>5, <3>1 DEF Paths
      <4> QED BY <4>1, <1>1, <3>1 DEF Landed
    <3>2. notes'[c].cut = cut /\ doing'[c].writes = v /\ Inputs[doing'[c].input] = i /\ doing[c].writes = v
      BY <1>1, <2>5
    <3>3. \A path : path \in Paths(v) \/ Landed(path, cut) => path \in Paths(v) \/ Landed(path, cut)' BY <3>1
    <3> SUFFICES ASSUME Delivered(k, cut) PROVE Delivered(doing[c], notes[c].cut)' OBVIOUS
    <3>4. PICK loader, config :
            LET all == Range(Writes(i, loader, config))
            IN  /\ cut = {} => ~FixtureCollides(config, ClientsIn(i))
                /\ "exports" \in DOMAIN loader
                /\ Range(v) \subseteq all
                /\ \A e \in all : \/ e.path \in Paths(v)
                                  \/ /\ Landed(e.path, cut)
                                     /\ \E f \in all : f.path = e.path /\ files[e.path] = f.content
      BY <2>5 DEF Delivered
    <3>5. LET all == Range(Writes(i, loader, config))
          IN  /\ cut = {} => ~FixtureCollides(config, ClientsIn(i))
              /\ "exports" \in DOMAIN loader
              /\ Range(v) \subseteq all
              /\ \A e \in all : \/ e.path \in Paths(v)
                                \/ /\ Landed(e.path, cut)'
                                   /\ \E f \in all : f.path = e.path /\ files'[e.path] = f.content
      BY <3>3, <3>4, <1>1
    <3> HIDE DEF k, w
    <3> QED BY <3>2, <3>5 DEF Delivered
  <2>7. doing'[c] = doing[c] /\ notes'[c].cut = cut /\ AloneFits(doing[c], cut) BY <1>1, <1>5, <2>5
  <2>8. Delivered(doing[c], cut) => Delivered(doing[c], notes[c].cut)' BY <2>6
  <2>9. Inputs[doing[c].input] = i BY <2>5
  <2> HIDE DEF k, w
  <2> QED BY <1>1, <2>3, <2>4, <2>7, <2>8, <2>9 DEF AloneFits
<1> QED BY <1>1, <1>2, <1>5, StepAlone

LEMMA AloneStarts == FilesInit => AloneInd
<1>1. FilesInit => \A c \in Callers : ~Busy(c) BY DEF FilesInit, Busy, Idle
<1> QED BY <1>1 DEF AloneInd

LEMMA AloneKeeps == CodegenInd /\ DiskInd /\ AloneInd /\ [FilesNext]_filesVars => AloneInd'
<1> SUFFICES ASSUME CodegenInd, DiskInd, AloneInd, [FilesNext]_filesVars PROVE AloneInd' OBVIOUS
<1>1. CASE UNCHANGED filesVars
  <2>1. files' = files /\ doing' = doing /\ torn' = torn /\ mixed' = mixed /\ notes' = notes
    BY <1>1 DEF filesVars
  <2>2. \A d \in Callers : Busy(d)' <=> Busy(d) BY <2>1 DEF Busy
  <2>3. \A i, e : (Adds(i, e)' <=> Adds(i, e)) /\ (Fresh(e)' <=> Fresh(e)) BY <2>1 DEF Adds, Fresh, Unused
  <2>4. \A k, cut : Delivered(k, cut)' <=> Delivered(k, cut) BY <2>1 DEF Delivered, Landed
  <2>5. \A k, cut : AloneFits(k, cut)' <=> AloneFits(k, cut)
    BY <2>1, <2>3, <2>4 DEF AloneFits
  <2> QED BY <2>1, <2>2, <2>5 DEF AloneInd
<1>2. ASSUME NEW c \in Callers, NEW name \in AcceptedNames, Enter(c, name) PROVE AloneInd' BY <1>2, EnterAlone
<1>3. ASSUME NEW c \in Callers, Check(c) PROVE AloneInd' BY <1>3, CheckAlone
<1>4. ASSUME NEW c \in Callers, ReadLoader(c) PROVE AloneInd' BY <1>4, ReadLoaderAlone
<1>5. ASSUME NEW c \in Callers, ReadConfig(c) PROVE AloneInd' BY <1>5, ReadConfigAlone
<1>6. ASSUME NEW c \in Callers, ReadSpec(c) PROVE AloneInd' BY <1>6, ReadSpecAlone
<1>7. ASSUME NEW c \in Callers, Write(c) PROVE AloneInd' BY <1>7, WriteAlone
<1>8. ASSUME NEW c \in Callers, Fault(c) PROVE AloneInd' BY <1>8, FaultAlone
<1>9. ASSUME NEW c \in Callers, Open(c) PROVE AloneInd' BY <1>9, OpenAlone
<1> QED BY <1>1, <1>2, <1>3, <1>4, <1>5, <1>6, <1>7, <1>8, <1>9 DEF FilesNext

(* A spec that runs goes on running when the files change only so.         *)
LEMMA StillRuns ==
  ASSUME NEW fs, NEW gs, NEW layer \in Layers, NEW feature \in Features,
         LoaderPath(layer) \in DOMAIN fs, LoaderPath("ui") \in DOMAIN fs,
         Resolves(fs, layer, feature),
         DOMAIN fs \subseteq DOMAIN gs,
         gs[SpecPath(layer, feature)] = fs[SpecPath(layer, feature)],
         layer = "api" => fs[SpecPath(layer, feature)].imports \in {None, feature},
         \A ask \in fs[SpecPath(layer, feature)].asks :
           ClassesBound(gs[ConfigPath(layer)], ask[1]) = ClassesBound(fs[ConfigPath(layer)], ask[1]),
         \A l \in Layers : /\ fs[LoaderPath(l)].exports \subseteq gs[LoaderPath(l)].exports
                           /\ fs[LoaderPath(l)].data \subseteq gs[LoaderPath(l)].data,
         \A e \in fs[LoaderPath(layer)].exports : e[2] \in DOMAIN fs => gs[e[2]] = fs[e[2]],
         \A class \in fs[SpecPath(layer, feature)].builders :
           gs[<<"builders", class>>] = fs[<<"builders", class>>],
         \A path \in ReadBy(fs[SpecPath(layer, feature)], feature) :
           path \in DOMAIN fs => gs[path] = fs[path]
  PROVE  Resolves(gs, layer, feature)
<1> DEFINE spec == fs[SpecPath(layer, feature)]
<1>1. SpecPath(layer, feature) \in DOMAIN gs /\ SpecCompiles(spec) BY DEF Resolves
<1>2. ASSUME NEW ask \in spec.asks PROVE AskResolves(gs, layer, ask)
  <2> DEFINE old == fs[ConfigPath(layer)]
             new == gs[ConfigPath(layer)]
  <2>1. PICK class \in ClassesBound(old, ask[1]) :
          /\ ClassesBound(old, ask[1]) = {class}
          /\ \E path \in PathsOf(fs[LoaderPath(layer)], class) :
               /\ path \in DOMAIN fs
               /\ <<ask[2], ask[3]>> \in fs[path].offers
    BY <1>2 DEF Resolves, AskResolves
  <2>2. PICK path \in PathsOf(fs[LoaderPath(layer)], class) :
               /\ path \in DOMAIN fs
               /\ <<ask[2], ask[3]>> \in fs[path].offers
    BY <2>1
  <2>3. ClassesBound(new, ask[1]) = ClassesBound(old, ask[1]) BY <1>2
  <2>4. PICK e \in fs[LoaderPath(layer)].exports : e[1] = class /\ e[2] = path
    BY <2>2 DEF PathsOf
  <2>5. path \in PathsOf(gs[LoaderPath(layer)], class) BY <2>4 DEF PathsOf
  <2>6. gs[path] = fs[path] /\ path \in DOMAIN gs BY <2>2, <2>4
  <2> HIDE DEF old, new
  <2> QED BY <2>1, <2>2, <2>3, <2>5, <2>6 DEF AskResolves, new
<1>3. KeysResolve(gs, layer, spec.imports, spec.keys)
  <2>1. SUFFICES ASSUME spec.imports # None
        PROVE  \E f \in Features :
                 /\ IF layer = "api" THEN f = spec.imports
                    ELSE f \in gs[LoaderPath("ui")].data /\ CamelOf[f] = spec.imports
                 /\ DataPath(f) \in DOMAIN gs
                 /\ spec.keys \subseteq gs[DataPath(f)]
    BY DEF KeysResolve
  <2>2. PICK f \in Features :
                 /\ IF layer = "api" THEN f = spec.imports
                    ELSE f \in fs[LoaderPath("ui")].data /\ CamelOf[f] = spec.imports
                 /\ DataPath(f) \in DOMAIN fs
                 /\ spec.keys \subseteq fs[DataPath(f)]
    BY <2>1 DEF Resolves, KeysResolve
  <2>3. DataPath(f) \in ReadBy(spec, feature) BY <2>1, <2>2 DEF ReadBy
  <2>4. gs[DataPath(f)] = fs[DataPath(f)] /\ DataPath(f) \in DOMAIN gs BY <2>2, <2>3
  <2>5. f \in fs[LoaderPath("ui")].data => f \in gs[LoaderPath("ui")].data BY DEF Layers
  <2> QED BY <2>2, <2>4, <2>5
<1>4. ASSUME NEW class \in spec.builders PROVE BuilderResolves(gs, class)
  <2>1. BuilderResolves(fs, class) BY <1>4 DEF Resolves
  <2> QED BY <1>4, <2>1 DEF BuilderResolves
<1> QED BY <1>1, <1>2, <1>3, <1>4 DEF Resolves

-----------------------------------------------------------------------------
(* What a spec is loaded with, and what of it a call has still to write.   *)
On(c) == IF c \in open THEN {Head(doing[c].writes).path} ELSE {}

Due(i, w, on, layer) ==
  ({LoaderPath(layer), ConfigPath(layer)} \cap on)
    \cup {path \in Paths(w) : /\ path = DataPath(i.feature)
                              /\ i.feature \in files[LoaderPath(layer)].data}

(* A spec that ran when the call began.  All it is loaded with is whole, but *)
(* for what the call has still to write, and the call's code is not in it.   *)
Good(i, w, cut, on, layer, feature) ==
  /\ Resolves(files, layer, feature)
  /\ Needed(files, layer, feature) \subseteq (DOMAIN files \ torn) \cup Due(i, w, on, layer)
  /\ LoaderPath(layer) \notin cut /\ ConfigPath(layer) \notin cut
  /\ \A e \in Range(w) : Turn(e.path) = 1 => e.path \notin Needed(files, layer, feature)

Own(i, layer, feature) == Appends(i) /\ <<layer, feature>> = <<LayerOf(i), i.feature>>

Excused(i, layer, feature) ==
  \/ Own(i, layer, feature)
  \/ BringsDataOf(i, layer, feature)
  \/ Rebinds(files, i, layer, feature)

Stands(i, w, cut, on, s) ==
  /\ s \in Layers \X Features /\ SpecPath(s[1], s[2]) \in DOMAIN files
  /\ Excused(i, s[1], s[2]) \/ Good(i, w, cut, on, s[1], s[2])

StandInd ==
  \A c \in Callers : Busy(c) /\ ~doing[c].met /\ ~Overwrites(InputOf(c)) =>
    \A s \in notes[c].ran : Stands(InputOf(c), doing[c].writes, notes[c].cut, On(c), s)

LEMMA NeededIs ==
  ASSUME CodegenInd, NEW layer \in Layers, NEW feature \in Features,
         SpecPath(layer, feature) \in DOMAIN files,
         NEW path \in Needed(files, layer, feature)
  PROVE  \/ Turn(path) = 1
         \/ path \in {LoaderPath(layer), ConfigPath(layer), SpecPath(layer, feature)}
         \/ \E g \in files[LoaderPath(layer)].data : path = DataPath(g)
         \/ /\ layer = "api" /\ path = DataPath(feature)
            /\ files[SpecPath(layer, feature)].imports = feature
<1> DEFINE spec == files[SpecPath(layer, feature)]
           built == {<<"builders", class>> : class \in spec.builders}
           clients == {files[p].client : p \in built} \ {None}
<1>1. /\ \A e \in files[LoaderPath(layer)].exports : Turn(e[2]) = 1
      /\ layer = "api" => spec.imports \in {None, feature}
  BY DEF CodegenInd, Fits, Led
<1>2. \A p \in built \cup {<<"clients", client>> : client \in clients} : Turn(p) = 1
  BY DEF Turn, CodeDirs
<1>3. \/ path \in {SpecPath(layer, feature), LoaderPath(layer), ConfigPath(layer)}
      \/ path \in Exported(files[LoaderPath(layer)])
      \/ path \in built \cup {<<"clients", client>> : client \in clients}
      \/ layer = "api" /\ spec.imports # None /\ path = DataPath(spec.imports)
  BY DEF Needed
<1> HIDE DEF spec, built, clients
<1>4. ASSUME path \in Exported(files[LoaderPath(layer)])
      PROVE  Turn(path) = 1 \/ \E g \in files[LoaderPath(layer)].data : path = DataPath(g)
  BY <1>1, <1>4 DEF Exported
<1> QED BY <1>1, <1>2, <1>3, <1>4 DEF spec

(* A call that is excused stays so, unless it appends to the spec. *)
LEMMA ExcusedStays ==
  ASSUME NEW i, NEW layer \in Layers, NEW feature \in Features, Excused(i, layer, feature),
         files'[SpecPath(layer, feature)] = files[SpecPath(layer, feature)],
         files[ConfigPath(layer)] \subseteq files'[ConfigPath(layer)]
  PROVE  Excused(i, layer, feature)'
<1> DEFINE old == files[ConfigPath(layer)]
           new == files'[ConfigPath(layer)]
<1>1. BringsDataOf(i, layer, feature) => BringsDataOf(i, layer, feature)' BY DEF BringsDataOf
<1>2. ASSUME Rebinds(files, i, layer, feature) PROVE Rebinds(files', i, layer, feature)
  <2>1. PICK ask \in files[SpecPath(layer, feature)].asks, e \in Binds(i) :
          /\ layer = LayerOf(i) /\ e[1] = ask[1]
          /\ e[2] \in ClassesBound(old, ask[1]) /\ ClassesBound(old, ask[1]) # {e[2]}
    BY <1>2 DEF Rebinds
  <2> HIDE DEF old, new
  <2>2. old \subseteq new BY DEF old, new
  <2>3. \A x \in ClassesBound(old, ask[1]) : x \in ClassesBound(new, ask[1]) BY <2>2 DEF ClassesBound
  <2>4. PICK x \in ClassesBound(old, ask[1]) : x # e[2] BY <2>1
  <2>5. e[2] \in ClassesBound(new, ask[1]) /\ ClassesBound(new, ask[1]) # {e[2]} BY <2>1, <2>3, <2>4
  <2>6. ask \in files'[SpecPath(layer, feature)].asks OBVIOUS
  <2> QED BY <2>1, <2>5, <2>6 DEF Rebinds, new
<1> QED BY <1>1, <1>2 DEF Excused, Own

(* The files of a call that is alone. *)
LEMMA AloneWrites ==
  ASSUME CodegenInd, AloneInd, NEW c \in Callers, doing[c].pc = "write", ~doing[c].met,
         NEW i, i = InputOf(c)
  PROVE  /\ LayerOf(i) \in Layers /\ InputShape(i) /\ Accepted(i)
         /\ (\A d \in Callers : Busy(d) => d = c) /\ c \notin mixed
         /\ notes[c].cut \subseteq {LoaderPath(LayerOf(i)), ConfigPath(LayerOf(i)), SpecPath(LayerOf(i), i.feature)}
         /\ \A e \in Range(doing[c].writes) :
              /\ \/ Turn(e.path) = 1
                 \/ e.path \in {LoaderPath(LayerOf(i)), ConfigPath(LayerOf(i)),
                                SpecPath(LayerOf(i), i.feature), SetupPath}
                 \/ Creates(i) /\ HasExpected(i.schema.expected) /\ e.path = DataPath(i.feature)
              /\ Appends(i) => e.path = SpecPath(LayerOf(i), i.feature)
              /\ ~Appends(i) => Adds(i, e) /\ (~Overwrites(i) => Fresh(e))
         /\ ~Appends(i) => Ranked(doing[c].writes) /\ Delivered(doing[c], notes[c].cut)
<1>1. Busy(c) BY DEF Busy
<1>2. /\ \A d \in Callers : Busy(d) => d = c
      /\ c \notin mixed /\ AloneFits(doing[c], notes[c].cut)
  BY <1>1 DEF AloneInd
<1>3. InputShape(i) /\ Accepted(i) /\ LayerOf(i) \in Layers
  BY <1>1, InputKnown DEF CodegenInd, CallTyped, Busy, InputOf
<1>4. /\ notes[c].cut \subseteq {LoaderPath(LayerOf(i)), ConfigPath(LayerOf(i)), SpecPath(LayerOf(i), i.feature)}
      /\ Appends(i) => \A e \in Range(doing[c].writes) : e.path = SpecPath(LayerOf(i), i.feature)
      /\ ~Appends(i) =>
           /\ Ranked(doing[c].writes) /\ Delivered(doing[c], notes[c].cut)
           /\ \A e \in Range(doing[c].writes) : Adds(i, e) /\ (~Overwrites(i) => Fresh(e))
  BY <1>2 DEF AloneFits, InputOf
<1>5. ASSUME ~Appends(i), NEW e \in Range(doing[c].writes)
      PROVE  \/ Turn(e.path) = 1
             \/ e.path \in {LoaderPath(LayerOf(i)), ConfigPath(LayerOf(i)),
                            SpecPath(LayerOf(i), i.feature), SetupPath}
             \/ Creates(i) /\ HasExpected(i.schema.expected) /\ e.path = DataPath(i.feature)
  <2>1. PICK loader, config : e \in Range(Writes(i, loader, config))
    BY <1>4, <1>5 DEF Delivered, InputOf
  <2>2. EntryIs(i, loader, config, e) BY <1>3, <1>5, <2>1, WritesAre
  <2> QED BY <2>2 DEF EntryIs
<1> QED BY <1>2, <1>3, <1>4, <1>5

(* Any step but a beginning is one of a call under way. *)
LEMMA StepStand ==
  ASSUME CodegenInd, AloneInd, StandInd, NEW c \in Callers, Busy(c),
         \A d \in Callers : d # c => doing'[d] = doing[d],
         Busy(c)' => /\ doing'[c].met = doing[c].met /\ doing'[c].input = doing[c].input
                     /\ notes'[c].ran = notes[c].ran,
         \A s \in notes[c].ran :
           Busy(c)' /\ ~doing[c].met /\ ~Overwrites(InputOf(c))
             /\ Stands(InputOf(c), doing[c].writes, notes[c].cut, On(c), s)
             => Stands(InputOf(c), doing[c].writes, notes[c].cut, On(c), s)'
  PROVE  StandInd'
<1> SUFFICES ASSUME NEW d \in Callers, Busy(d)', ~doing'[d].met, ~Overwrites(InputOf(d))',
                    NEW s \in notes'[d].ran
             PROVE  Stands(InputOf(d), doing[d].writes, notes[d].cut, On(d), s)'
  BY DEF StandInd
<1>1. d = c
  <2>1. SUFFICES ASSUME d # c PROVE FALSE OBVIOUS
  <2>2. Busy(d) /\ ~doing[d].met BY <2>1 DEF Busy
  <2> QED BY <2>1, <2>2 DEF AloneInd
<1>2. ~doing[c].met /\ s \in notes[c].ran BY <1>1
<1>3. ~Overwrites(InputOf(c))
  <2>1. doing'[c].input = doing[c].input BY <1>1
  <2>2. PICK i : i = Inputs[doing[c].input] OBVIOUS
  <2>3. Inputs[doing'[c].input] = i /\ ~Overwrites(i) BY <1>1, <2>1, <2>2 DEF InputOf
  <2> QED BY <2>2, <2>3 DEF InputOf
<1>4. Stands(InputOf(c), doing[c].writes, notes[c].cut, On(c), s) BY <1>2, <1>3 DEF StandInd
<1> QED BY <1>1, <1>2, <1>3, <1>4

LEMMA EnterStand ==
  ASSUME CodegenInd, DiskInd, NEW c \in Callers, NEW name \in AcceptedNames, Enter(c, name)
  PROVE  StandInd'
<1> DEFINE others == {d \in Callers : Busy(d)}
           new == [pc     |-> IF Appends(Inputs[name]) THEN "append" ELSE "check",
                   input  |-> name,
                   todo   |-> IF Appends(Inputs[name]) THEN <<>> ELSE Guarded(Inputs[name]),
                   loader |-> None, writes |-> <<>>, met |-> others # {}]
<1>1. /\ doing' = [d \in Callers |-> IF d = c THEN new ELSE [doing[d] EXCEPT !.met = @ \/ d \in others]]
      /\ files' = files /\ torn' = torn
      /\ notes' = [notes EXCEPT ![c] = [cut |-> {}, ran |-> Running]]
  BY DEF Enter
<1> SUFFICES ASSUME NEW d \in Callers, Busy(d)', ~doing'[d].met, NEW s \in notes'[d].ran
             PROVE  Stands(InputOf(d), doing[d].writes, notes[d].cut, On(d), s)'
  BY DEF StandInd
<1>2. d = c
  <2>1. SUFFICES ASSUME d # c PROVE FALSE OBVIOUS
  <2> DEFINE k == doing[d]
             b == d \in others
             m == [k EXCEPT !.met = @ \/ b]
  <2>2. doing'[d] = m BY <1>1, <2>1
  <2>3. CallTyped(k) BY DEF CodegenInd
  <2>4. m.pc = k.pc /\ m.met = (k.met \/ b)
    <3> HIDE DEF k, b
    <3>1. k.met \in BOOLEAN /\ {"pc", "met"} \subseteq DOMAIN k BY <2>3 DEF CallTyped, k
    <3> QED BY <3>1
  <2>5. k.pc # "idle" /\ ~b
    <3> HIDE DEF k, b, m
    <3> QED BY <2>2, <2>4 DEF Busy
  <2> QED BY <2>5 DEF Busy
<1>3. notes'[c] = [cut |-> {}, ran |-> Running] BY <1>1 DEF DiskInd, NotesOK
<1>4. doing'[c].writes = <<>> /\ notes'[c].cut = {} /\ s \in Running
  <2>1. doing'[c] = new BY <1>1
  <2>2. new.writes = <<>> OBVIOUS
  <2> QED BY <1>2, <1>3, <2>1, <2>2
<1>5. s \in Layers \X Features /\ Runs(files, torn, s[1], s[2]) BY <1>4 DEF Running
<1>6. SpecPath(s[1], s[2]) \in DOMAIN files BY <1>5 DEF Runs, Resolves
<1>7. PICK w, cut, i, on : w = doing'[c].writes /\ cut = notes'[c].cut /\ i = InputOf(c)' /\ on = On(c)' OBVIOUS
<1>8. Range(w) = {} BY <1>4, <1>7, ListNone
<1>9. {LoaderPath(s[1]), ConfigPath(s[1])} \cap cut = {} BY <1>4, <1>7
<1>10. Good(i, w, cut, on, s[1], s[2])' BY <1>1, <1>5, <1>8, <1>9 DEF Good, Runs
<1> QED BY <1>1, <1>2, <1>5, <1>6, <1>7, <1>10 DEF Stands

(* What a call does that reads. *)
LEMMA ReadGoes ==
  ASSUME CodegenInd, NEW c \in Callers, Busy(c)',
         Check(c) \/ ReadLoader(c) \/ ReadConfig(c) \/ ReadSpec(c)
  PROVE  /\ doing'[c].met = doing[c].met /\ doing'[c].input = doing[c].input
         /\ \/ doing'[c].writes = <<>>
            \/ /\ Appends(InputOf(c))
               /\ \A e \in Range(doing'[c].writes) :
                    e.path = SpecPath(LayerOf(InputOf(c)), InputOf(c).feature)
            \/ /\ doing[c].pc = "config"
               /\ \E config : doing'[c].writes = Writes(InputOf(c), doing[c].loader, config)
<1> DEFINE k == doing[c]
           input == InputOf(c)
<1>0. CallTyped(k) /\ doing = [d \in Callers |-> doing[d]] BY DEF CodegenInd
<1>a. doing'[c] # Idle BY DEF Busy, Idle
<1>b. k = [pc |-> k.pc, input |-> k.input, todo |-> k.todo, loader |-> k.loader,
           writes |-> k.writes, met |-> k.met]
  BY <1>0 DEF CallTyped
<1>c. k.pc # "write" => k.writes = <<>> BY <1>0 DEF CallTyped
<1>1. CASE Check(c)
  <2>1. doing' = [doing EXCEPT ![c] = IF Head(k.todo) \in Present THEN Idle
                                      ELSE [k EXCEPT !.todo = Tail(k.todo)]] /\ k.pc = "check"
    BY <1>1 DEF Check
  <2>2. doing'[c] = [k EXCEPT !.todo = Tail(k.todo)] BY <2>1, <1>0, <1>a
  <2> HIDE DEF k
  <2>3. doing'[c].writes = k.writes /\ doing'[c].met = k.met /\ doing'[c].input = k.input
    BY <2>2, <1>b
  <2> QED BY <2>1, <2>3, <1>c DEF k
<1>2. CASE ReadLoader(c)
  <2> DEFINE loader == files[LoaderPath(LayerOf(input))]
  <2>1. /\ \/ doing' = [doing EXCEPT ![c].pc = "config", ![c].loader = loader]
           \/ doing' = [doing EXCEPT ![c] = Idle]
        /\ k.pc = "check"
    BY <1>2 DEF ReadLoader
  <2> HIDE DEF loader
  <2>2. doing' = [doing EXCEPT ![c].pc = "config", ![c].loader = loader] BY <2>1, <1>0, <1>a
  <2>3. doing'[c].writes = k.writes /\ doing'[c].met = k.met /\ doing'[c].input = k.input
    BY <2>2, <1>0, <1>b
  <2> QED BY <2>1, <2>3, <1>c DEF k
<1>3. CASE ReadConfig(c)
  <2> DEFINE config == files[ConfigPath(LayerOf(input))]
             w == Writes(input, k.loader, config)
             full == [k EXCEPT !.pc = "write", !.writes = w, !.loader = None]
  <2>1. /\ k.pc = "config"
        /\ \E refused : doing' = [doing EXCEPT ![c] = IF refused THEN Idle ELSE full]
    BY <1>3 DEF ReadConfig
  <2>2. doing'[c] = full
    <3> HIDE DEF full, k
    <3> QED BY <2>1, <1>0, <1>a
  <2>3. full = [pc |-> "write", input |-> k.input, todo |-> k.todo, loader |-> None,
                writes |-> w, met |-> k.met]
    <3> HIDE DEF w, k
    <3> QED BY <1>b, CallRecord, ZenonT(60)
  <2> HIDE DEF w, full, k
  <2>4. doing'[c].writes = w /\ doing'[c].met = k.met /\ doing'[c].input = k.input BY <2>2, <2>3
  <2> QED BY <2>1, <2>4 DEF w, k
<1>4. CASE ReadSpec(c)
  <2> DEFINE path == SpecPath(LayerOf(input), input.feature)
  <2>1. PICK text, refused :
          doing' = [doing EXCEPT ![c] = IF refused THEN Idle
                                        ELSE [k EXCEPT !.pc = "write", !.writes = <<FileEntry(path, text)>>]]
    BY <1>4 DEF ReadSpec
  <2>2. k.pc = "append" /\ Appends(input) BY <1>0, <1>4 DEF ReadSpec, CallTyped, InputOf
  <2> DEFINE w == <<FileEntry(path, text)>>
  <2>3. \A e \in Range(w) : e.path = path BY ListOne, EntryParts
  <2> HIDE DEF w
  <2>4. doing'[c] = [k EXCEPT !.pc = "write", !.writes = w] BY <2>1, <1>0, <1>a DEF w
  <2> HIDE DEF k
  <2>5. doing'[c].met = k.met /\ doing'[c].input = k.input /\ doing'[c].writes = w
    BY <2>4, <1>b
  <2> QED BY <2>2, <2>3, <2>5 DEF k
<1> QED BY <1>1, <1>2, <1>3, <1>4

(* The code of a call that may not overwrite is in no spec's way. *)
LEMMA CodeIsNew ==
  ASSUME CodegenInd, AloneInd, NEW c \in Callers, doing[c].pc = "config", ~doing[c].met,
         NEW i, i = InputOf(c), ~Overwrites(i), NEW loader, NEW config,
         NEW e \in Range(Writes(i, loader, config)), Turn(e.path) = 1
  PROVE  e.path \notin DOMAIN files
<1>1. Busy(c) BY DEF Busy
<1>2. AloneFits(doing[c], notes[c].cut) BY <1>1 DEF AloneInd
<1>3. InputShape(i) /\ Accepted(i) /\ LayerOf(i) \in Layers /\ ~Appends(i)
  BY <1>1, InputKnown DEF CodegenInd, CallTyped, Busy, InputOf
<1>4. \A path \in Range(Guarded(i)) : path \notin DOMAIN files BY <1>2 DEF AloneFits, InputOf
<1>5. EntryIs(i, loader, config, e) BY <1>3, WritesAre
<1>6. e.path \in CodePaths(i) BY <1>3, <1>5, PathRanks DEF EntryIs
<1>7. CodePaths(i) \subseteq Range(Guarded(i)) BY <1>3, GuardedIs DEF Overwrites, Creates
<1> QED BY <1>4, <1>6, <1>7

LEMMA ReadStand ==
  ASSUME CodegenInd, DiskInd, AloneInd, StandInd, NEW c \in Callers,
         Check(c) \/ ReadLoader(c) \/ ReadConfig(c) \/ ReadSpec(c)
  PROVE  StandInd'
<1>1. /\ Busy(c) /\ doing[c].writes = <<>> /\ c \notin open
      /\ files' = files /\ torn' = torn
      /\ \A d \in Callers : d # c => doing'[d] = doing[d]
      /\ doing'[c] # Idle => \E read :
           notes'[c] = [notes[c] EXCEPT !.cut = notes[c].cut \cup (torn \cap read)]
  BY ReadStep
<1>2. ASSUME Busy(c)'
      PROVE  /\ doing'[c].met = doing[c].met /\ doing'[c].input = doing[c].input
             /\ notes'[c].ran = notes[c].ran /\ notes'[c].cut \subseteq notes[c].cut \cup torn
  <2>1. doing'[c] # Idle BY <1>2 DEF Busy, Idle
  <2>2. PICK read : notes'[c] = [notes[c] EXCEPT !.cut = notes[c].cut \cup (torn \cap read)]
    BY <1>1, <2>1
  <2>3. DOMAIN notes[c] = {"cut", "ran"} BY DEF DiskInd, NotesOK
  <2>4. notes'[c].ran = notes[c].ran /\ notes'[c].cut = notes[c].cut \cup (torn \cap read)
    BY <2>2, <2>3
  <2> QED BY <1>2, <2>4, ReadGoes
<1>3. ASSUME NEW s \in notes[c].ran, Busy(c)', ~doing[c].met, ~Overwrites(InputOf(c)),
             Stands(InputOf(c), doing[c].writes, notes[c].cut, On(c), s)
      PROVE  Stands(InputOf(c), doing[c].writes, notes[c].cut, On(c), s)'
  <2>1. PICK i, cut : i = InputOf(c) /\ cut = notes[c].cut OBVIOUS
  <2>2. PICK v, read, on : v = doing'[c].writes /\ read = notes'[c].cut /\ on = On(c)' OBVIOUS
  <2>3. i = InputOf(c)'
    <3>1. doing'[c].input = doing[c].input BY <1>2, <1>3
    <3> QED BY <2>1, <3>1 DEF InputOf
  <2>4. /\ s \in Layers \X Features /\ SpecPath(s[1], s[2]) \in DOMAIN files
        /\ Excused(i, s[1], s[2]) \/ Good(i, <<>>, cut, {}, s[1], s[2])
    <3>1. On(c) = {} BY <1>1 DEF On
    <3> QED BY <1>1, <1>3, <2>1, <3>1 DEF Stands
  <2>5. ASSUME Excused(i, s[1], s[2]) PROVE Excused(i, s[1], s[2])'
    BY <1>1, <2>4, <2>5, ExcusedStays
  <2>6. ASSUME Good(i, <<>>, cut, {}, s[1], s[2]), ~Excused(i, s[1], s[2])
        PROVE  Good(i, v, read, on, s[1], s[2])'
    <3> DEFINE needed == Needed(files, s[1], s[2])
    <3>1. needed \subseteq DOMAIN files \ torn
      <4>1. Paths(<<>>) = {} BY ListNone DEF Paths
      <4> QED BY <2>6, <4>1 DEF Good, Due
    <3>2. LoaderPath(s[1]) \notin read /\ ConfigPath(s[1]) \notin read
      <4>1. LoaderPath(s[1]) \in needed /\ ConfigPath(s[1]) \in needed BY DEF Needed
      <4>2. read \subseteq cut \cup torn BY <1>2, <1>3, <2>1, <2>2
      <4>3. LoaderPath(s[1]) \notin cut /\ ConfigPath(s[1]) \notin cut BY <2>6 DEF Good
      <4> HIDE DEF needed
      <4> QED BY <3>1, <4>1, <4>2, <4>3
    <3>3. ASSUME NEW e \in Range(v), Turn(e.path) = 1 PROVE e.path \notin needed
      <4>1. CASE v = <<>> BY <4>1, <3>3, ListNone
      <4>2. CASE Appends(i) /\ e.path = SpecPath(LayerOf(i), i.feature)
        <5>1. LayerOf(i) \in Layers BY DEF LayerOf, Layers
        <5> QED BY <5>1, <4>2, <3>3, PathRanks
      <4>3. CASE doing[c].pc = "config" /\ \E config : v = Writes(i, doing[c].loader, config)
        <5>1. PICK config : v = Writes(i, doing[c].loader, config) BY <4>3
        <5>2. e.path \notin DOMAIN files BY <1>3, <2>1, <3>3, <4>3, <5>1, CodeIsNew
        <5> HIDE DEF needed
        <5> QED BY <5>2, <3>1
      <4> QED BY <1>3, <2>1, <2>2, <3>3, <4>1, <4>2, <4>3, ReadGoes
    <3>4. Resolves(files, s[1], s[2]) BY <2>6 DEF Good
    <3>5. needed = Needed(files', s[1], s[2]) /\ Resolves(files', s[1], s[2])
          /\ needed \subseteq DOMAIN files' \ torn'
      BY <1>1, <3>1, <3>4
    <3> HIDE DEF needed
    <3> QED BY <3>2, <3>3, <3>5 DEF Good
  <2>7. Excused(i, s[1], s[2])' \/ Good(i, v, read, on, s[1], s[2])' BY <2>4, <2>5, <2>6
  <2>8. Stands(i, v, read, on, s)' BY <1>1, <2>4, <2>7 DEF Stands
  <2> QED BY <2>2, <2>3, <2>8
<1> QED BY <1>1, <1>2, <1>3, StepStand

(* A file that is opened is none that a spec needs, or the call's to end.  *)
LEMMA HeadNeeded ==
  ASSUME CodegenInd, AloneInd, NEW c \in Callers, doing[c].pc = "write", ~doing[c].met,
         NEW i, i = InputOf(c), ~Overwrites(i), NEW layer \in Layers, NEW feature \in Features,
         SpecPath(layer, feature) \in DOMAIN files, ~Excused(i, layer, feature),
         NEW e \in Range(doing[c].writes), e.path \in Needed(files, layer, feature)
  PROVE  \/ Turn(e.path) = 1
         \/ e.path \in {LoaderPath(layer), ConfigPath(layer)}
         \/ e.path = DataPath(i.feature) /\ i.feature \in files[LoaderPath(layer)].data
<1> DEFINE path == e.path
           L == LayerOf(i)
           spec == files[SpecPath(layer, feature)]
<1>1. /\ L \in Layers
      /\ \/ Turn(path) = 1
         \/ path \in {LoaderPath(L), ConfigPath(L), SpecPath(L, i.feature), SetupPath}
         \/ Creates(i) /\ HasExpected(i.schema.expected) /\ path = DataPath(i.feature)
      /\ Appends(i) => path = SpecPath(L, i.feature)
      /\ ~Appends(i) => Fresh(e)
  BY AloneWrites
<1>2. \/ Turn(path) = 1
      \/ path \in {LoaderPath(layer), ConfigPath(layer), SpecPath(layer, feature)}
      \/ \E g \in files[LoaderPath(layer)].data : path = DataPath(g)
      \/ layer = "api" /\ path = DataPath(feature) /\ spec.imports = feature
  BY NeededIs
<1>3. path # SpecPath(layer, feature)
  <2> SUFFICES ASSUME path = SpecPath(layer, feature) PROVE FALSE OBVIOUS
  <2>1. Turn(path) = 4 BY PathRanks
  <2>2. Appends(i) BY <1>1, <2>1 DEF Fresh
  <2>3. <<L, i.feature>> = <<layer, feature>> BY <1>1, <2>2 DEF SpecPath
  <2> QED BY <2>2, <2>3 DEF Excused, Own
<1>4. path # SpecPath(L, i.feature) \/ path \in {LoaderPath(layer), ConfigPath(layer)} \/ Turn(path) = 1
  <2> SUFFICES ASSUME path = SpecPath(L, i.feature) PROVE Turn(path) # 5 BY <1>2, <1>3, PathRanks
  <2> QED BY <1>1, PathRanks
<1>5. ASSUME path \in {LoaderPath(L), ConfigPath(L)} PROVE path \in {LoaderPath(layer), ConfigPath(layer)}
  BY <1>1, <1>2, <1>3, <1>5, PathRanks
<1>6. path # SetupPath
  <2> SUFFICES ASSUME path = SetupPath PROVE FALSE OBVIOUS
  <2>1. Turn(path) = 5 /\ path[1] = "auth.setup" BY PathRanks
  <2>2. \A f : DataPath(f)[1] = "data" BY PathRanks
  <2> QED BY <1>2, <2>1, <2>2, PathRanks
<1>7. ASSUME Creates(i), HasExpected(i.schema.expected), path = DataPath(i.feature)
      PROVE  i.feature \in files[LoaderPath(layer)].data
  <2>1. Turn(path) = 5 BY <1>7, PathRanks
  <2>2. ASSUME NEW g, path = DataPath(g) PROVE g = i.feature BY <1>7, <2>2 DEF DataPath
  <2>3. ASSUME path = DataPath(feature) PROVE FALSE
    <3>1. DataPath(i.feature) \in ReadBy(spec, feature) BY <1>7, <2>3 DEF ReadBy
    <3> QED BY <1>7, <3>1 DEF Excused, BringsDataOf
  <2>4. \E g \in files[LoaderPath(layer)].data : path = DataPath(g) BY <1>2, <2>1, <2>3, PathRanks
  <2> QED BY <2>2, <2>4
<1> QED BY <1>1, <1>3, <1>4, <1>5, <1>6, <1>7

LEMMA OpenStand ==
  ASSUME CodegenInd, DiskInd, AloneInd, StandInd, NEW c \in Callers, Open(c)
  PROVE  StandInd'
<1>1. /\ doing' = doing /\ files' = files /\ notes' = notes /\ doing[c].pc = "write" /\ c \notin open
      /\ open' = open \cup {c} /\ torn' = torn \cup {Head(doing[c].writes).path}
  BY DEF Open
<1>2. Busy(c) BY <1>1 DEF Busy
<1>3. ASSUME NEW s \in notes[c].ran, ~doing[c].met, ~Overwrites(InputOf(c)),
             Stands(InputOf(c), doing[c].writes, notes[c].cut, On(c), s)
      PROVE  Stands(InputOf(c), doing[c].writes, notes[c].cut, On(c), s)'
  <2>1. PICK i, cut, w : i = InputOf(c) /\ cut = notes[c].cut /\ w = doing[c].writes OBVIOUS
  <2>2. i = InputOf(c)' /\ cut = notes'[c].cut /\ w = doing'[c].writes BY <1>1, <2>1 DEF InputOf
  <2>3. PICK h : h = Head(w) OBVIOUS
  <2>4. /\ s \in Layers \X Features /\ SpecPath(s[1], s[2]) \in DOMAIN files
        /\ Excused(i, s[1], s[2]) \/ Good(i, w, cut, {}, s[1], s[2])
    <3>1. On(c) = {} BY <1>1 DEF On
    <3> QED BY <1>3, <2>1, <3>1 DEF Stands
  <2>5. ASSUME Excused(i, s[1], s[2]) PROVE Excused(i, s[1], s[2])'
    BY <1>1, <2>4, <2>5, ExcusedStays
  <2>6. ASSUME Good(i, w, cut, {}, s[1], s[2]), ~Excused(i, s[1], s[2])
        PROVE  Good(i, w, cut, {h.path}, s[1], s[2])'
    <3> DEFINE needed == Needed(files, s[1], s[2])
    <3>1. needed \subseteq (DOMAIN files \ torn) \cup Due(i, w, {}, s[1]) BY <2>6 DEF Good
    <3>2. h \in Range(w)
      <4>1. Listed(w) /\ w # <<>> BY <1>1, <2>1 DEF CodegenInd, CallTyped
      <4> QED BY <4>1, <2>3, ListTail
    <3>3. h.path \in needed =>
            \/ h.path \in {LoaderPath(s[1]), ConfigPath(s[1])}
            \/ h.path = DataPath(i.feature) /\ i.feature \in files[LoaderPath(s[1])].data
      <4>1. Turn(h.path) = 1 => h.path \notin needed BY <2>6, <3>2 DEF Good
      <4> QED BY <1>1, <1>3, <2>1, <2>4, <2>6, <3>2, <4>1, HeadNeeded
    <3> HIDE DEF needed
    <3>4. ASSUME NEW path \in needed
          PROVE  path \in (DOMAIN files \ (torn \cup {h.path})) \cup Due(i, w, {h.path}, s[1])
      <4>1. CASE path = h.path
        <5>1. path \in Paths(w) BY <3>2, <4>1 DEF Paths
        <5> QED BY <3>3, <4>1, <5>1 DEF Due
      <4>2. CASE path # h.path
        <5>1. path \in DOMAIN files \ torn \/ path \in Due(i, w, {}, s[1]) BY <3>1
        <5>2. path \in Due(i, w, {}, s[1]) => path \in Due(i, w, {h.path}, s[1]) BY DEF Due
        <5> QED BY <4>2, <5>1, <5>2
      <4> QED BY <4>1, <4>2
    <3>5. torn' = torn \cup {h.path} BY <1>1, <2>1, <2>3
    <3>6. /\ needed = Needed(files, s[1], s[2])'
          /\ Due(i, w, {h.path}, s[1]) = Due(i, w, {h.path}, s[1])'
          /\ Resolves(files, s[1], s[2])'
      BY <1>1, <2>6 DEF needed, Due, Good
    <3>7. needed \subseteq (DOMAIN files' \ torn') \cup Due(i, w, {h.path}, s[1])
      BY <1>1, <3>4, <3>5
    <3> QED BY <2>6, <3>6, <3>7 DEF Good, needed
  <2>7. Excused(i, s[1], s[2])' \/ Good(i, w, cut, {h.path}, s[1], s[2])' BY <2>4, <2>5, <2>6
  <2>8. Stands(i, w, cut, {h.path}, s)' BY <1>1, <2>4, <2>7 DEF Stands
  <2>9. On(c)' = {h.path} BY <1>1, <2>1, <2>3 DEF On
  <2> QED BY <2>2, <2>8, <2>9
<1> QED BY <1>1, <1>2, <1>3, StepStand

(* An expected.json that is handed in is written. *)
LEMMA ExpectedIsWritten ==
  ASSUME NEW i, InputShape(i), Creates(i), HasExpected(i.schema.expected), NEW loader, NEW config
  PROVE  DataPath(i.feature) \in Paths(Writes(i, loader, config))
<1> DEFINE w == Writes(i, loader, config)
           e == FileEntry(DataPath(i.feature), DOMAIN i.schema.expected)
<1>1. e \in Range(w)
  <2>1. CASE i.mode = "create" BY <2>1, CreateWritesAre
  <2>2. CASE i.mode = "create_api" BY <2>2, ApiWritesAre
  <2> QED BY <2>1, <2>2 DEF Creates, Creating
<1>2. e.path = DataPath(i.feature) BY EntryParts
<1> HIDE DEF e, w
<1> QED BY <1>1, <1>2 DEF Paths, w

(* What a write leaves of another feature's spec, of configs and of loaders. *)
Leaves(h, layer, feature) ==
  /\ DOMAIN files' = DOMAIN files \cup {h.path} /\ files'[h.path] = h.content
  /\ \A p \in DOMAIN files : p # h.path => files'[p] = files[p]
  /\ files'[SpecPath(layer, feature)] = files[SpecPath(layer, feature)]
  /\ files[ConfigPath(layer)] \subseteq files'[ConfigPath(layer)]
  /\ \A l \in Layers : /\ files[LoaderPath(l)].exports \subseteq files'[LoaderPath(l)].exports
                       /\ files[LoaderPath(l)].data \subseteq files'[LoaderPath(l)].data

LEMMA WriteLeaves ==
  ASSUME CodegenInd, AloneInd, NEW c \in Callers, Write(c), ~doing[c].met,
         NEW i, i = InputOf(c), ~Overwrites(i), NEW layer \in Layers, NEW feature \in Features,
         SpecPath(layer, feature) \in DOMAIN files,
         ~Own(i, layer, feature),
         NEW h, h = doing[c].writes[1]
  PROVE  h \in Range(doing[c].writes) /\ Leaves(h, layer, feature)
<1> DEFINE k == doing[c]
           w == k.writes
<1>1. Listed(w) /\ w # <<>> /\ k.pc = "write" /\ files' = Put(files, h.path, h.content) BY WriteIs
<1>2. /\ DOMAIN files' = DOMAIN files \cup {h.path} /\ files'[h.path] = h.content
      /\ \A p \in DOMAIN files : p # h.path => files'[p] = files[p]
  <2>1. files' = Put(files, h.path, h.content) BY <1>1
  <2> QED BY <2>1 DEF Put
<1>3. h \in Range(w) BY <1>1, ListTail
<1>4. /\ LayerOf(i) \in Layers
      /\ Appends(i) => h.path = SpecPath(LayerOf(i), i.feature)
      /\ ~Appends(i) => Adds(i, h) /\ Fresh(h)
  BY <1>1, <1>3, AloneWrites
<1>5. h.path # SpecPath(layer, feature)
  <2> SUFFICES ASSUME h.path = SpecPath(layer, feature) PROVE FALSE OBVIOUS
  <2>1. Turn(h.path) = 4 BY PathRanks
  <2>2. Appends(i) BY <1>4, <2>1 DEF Fresh
  <2> QED BY <1>4, <2>2 DEF SpecPath, Own
<1>6. \A l \in Layers : LoaderPath(l) \in DOMAIN files /\ ConfigPath(l) \in DOMAIN files
  BY DEF CodegenInd
<1>7. Turn(h.path) \in {2, 3} => Adds(i, h)
  <2>1. Appends(i) => Turn(h.path) = 4 BY <1>4, PathRanks
  <2> QED BY <1>4, <2>1
<1>8. ASSUME NEW l \in Layers
      PROVE  /\ files[LoaderPath(l)].exports \subseteq files'[LoaderPath(l)].exports
             /\ files[LoaderPath(l)].data \subseteq files'[LoaderPath(l)].data
  <2>1. CASE h.path = LoaderPath(l) BY <2>1, <1>2, <1>7, PathRanks DEF Adds
  <2>2. CASE h.path # LoaderPath(l) BY <2>2, <1>2, <1>6
  <2> QED BY <2>1, <2>2
<1>9. files[ConfigPath(layer)] \subseteq files'[ConfigPath(layer)]
  <2>1. CASE h.path = ConfigPath(layer) BY <2>1, <1>2, <1>7, PathRanks DEF Adds
  <2>2. CASE h.path # ConfigPath(layer) BY <2>2, <1>2, <1>6
  <2> QED BY <2>1, <2>2
<1>10. files'[SpecPath(layer, feature)] = files[SpecPath(layer, feature)] BY <1>2, <1>5
<1> QED BY <1>2, <1>3, <1>8, <1>9, <1>10 DEF Leaves

(* A write spares what a spec finds, or binds a fixture of the spec anew. *)
LEMMA WriteResolves ==
  ASSUME CodegenInd, AloneInd, NEW c \in Callers, Write(c), ~doing[c].met,
         NEW i, i = InputOf(c), ~Overwrites(i), NEW layer \in Layers, NEW feature \in Features,
         Resolves(files, layer, feature), ~Excused(i, layer, feature),
         ~Rebinds(files', i, layer, feature)
  PROVE  Resolves(files', layer, feature)
<1> DEFINE w == doing[c].writes
           spec == files[SpecPath(layer, feature)]
           old == files[ConfigPath(layer)]
           new == files'[ConfigPath(layer)]
<1>1. PICK h : h = w[1] OBVIOUS
<1>2. SpecPath(layer, feature) \in DOMAIN files BY DEF Resolves
<1>3. ~Own(i, layer, feature) BY DEF Excused
<1>4. /\ DOMAIN files' = DOMAIN files \cup {h.path} /\ files'[h.path] = h.content
      /\ \A p \in DOMAIN files : p # h.path => files'[p] = files[p]
      /\ h \in Range(w) /\ files'[SpecPath(layer, feature)] = spec /\ old \subseteq new
      /\ \A l \in Layers : /\ files[LoaderPath(l)].exports \subseteq files'[LoaderPath(l)].exports
                           /\ files[LoaderPath(l)].data \subseteq files'[LoaderPath(l)].data
  <2>1. h \in Range(doing[c].writes) /\ Leaves(h, layer, feature) BY <1>1, <1>2, <1>3, WriteLeaves
  <2> QED BY <2>1 DEF Leaves
<1>5. Listed(w) /\ w # <<>> /\ doing[c].pc = "write" BY WriteIs
<1>6. /\ LayerOf(i) \in Layers
      /\ Appends(i) => h.path = SpecPath(LayerOf(i), i.feature)
      /\ ~Appends(i) => Adds(i, h) /\ Fresh(h)
      /\ \/ Turn(h.path) \in {1, 2, 3, 4} \/ h.path = SetupPath
         \/ Creates(i) /\ HasExpected(i.schema.expected) /\ h.path = DataPath(i.feature)
  BY <1>4, <1>5, AloneWrites, PathRanks
<1>7. Turn(h.path) # 4 => Adds(i, h) /\ Fresh(h) BY <1>6, PathRanks
<1>8. \A l \in Layers : LoaderPath(l) \in DOMAIN files /\ ConfigPath(l) \in DOMAIN files
  BY DEF CodegenInd
<1>9. /\ layer = "api" => spec.imports \in {None, feature}
      /\ \A class \in spec.builders : <<"builders", class>> \in DOMAIN files
  BY <1>2 DEF CodegenInd, Fits, Built
<1>10. \A e \in files[LoaderPath(layer)].exports : Turn(e[2]) = 1
  BY DEF CodegenInd, Fits, Led
<1>11. \A e \in files[LoaderPath(layer)].exports : e[2] \in DOMAIN files => files'[e[2]] = files[e[2]]
  <2> TAKE e \in files[LoaderPath(layer)].exports
  <2>1. Turn(e[2]) = 1 BY <1>10
  <2>2. h.path # e[2] BY <2>1, <1>7 DEF Fresh, Unused
  <2> QED BY <2>2, <1>4
<1>12. \A class \in spec.builders : files'[<<"builders", class>>] = files[<<"builders", class>>]
  <2> TAKE class \in spec.builders
  <2>1. Turn(<<"builders", class>>) = 1 BY DEF Turn, CodeDirs
  <2>2. h.path # <<"builders", class>> BY <2>1, <1>2, <1>7 DEF Fresh, Unused
  <2> QED BY <2>2, <1>4, <1>9
<1>13. \A p \in ReadBy(spec, feature) : p \in DOMAIN files => files'[p] = files[p]
  <2> TAKE p \in ReadBy(spec, feature)
  <2>1. Turn(p) = 5 /\ p[1] = "data" BY PathRanks DEF ReadBy
  <2>2. h.path # p
    <3> SUFFICES ASSUME h.path = p PROVE FALSE OBVIOUS
    <3>1. h.path # SetupPath BY <2>1, PathRanks
    <3>2. Creates(i) /\ HasExpected(i.schema.expected) /\ h.path = DataPath(i.feature)
      BY <1>6, <2>1, <3>1
    <3> QED BY <3>2 DEF Excused, BringsDataOf
  <2> QED BY <2>2, <1>4
<1>14. ASSUME NEW ask \in spec.asks PROVE ClassesBound(new, ask[1]) = ClassesBound(old, ask[1])
  <2>1. PICK class : ClassesBound(old, ask[1]) = {class} BY <1>14 DEF Resolves, AskResolves
  <2> HIDE DEF old, new, w
  <2>2. ClassesBound(old, ask[1]) \subseteq ClassesBound(new, ask[1]) BY <1>4 DEF ClassesBound
  <2> SUFFICES ASSUME NEW x \in ClassesBound(new, ask[1]), x # class PROVE FALSE BY <2>1, <2>2
  <2>3. PICK e \in new : e[1] = ask[1] /\ e[2] = x BY DEF ClassesBound
  <2>4. PICK y \in old : y[1] = ask[1] /\ y[2] = class BY <2>1 DEF ClassesBound
  <2>5. e \notin old
    <3> SUFFICES ASSUME e \in old PROVE FALSE OBVIOUS
    <3>1. x \in ClassesBound(old, ask[1]) BY <2>3 DEF ClassesBound
    <3> QED BY <3>1, <2>1
  <2>6. h.path = ConfigPath(layer) BY <2>3, <2>5, <1>4, <1>8 DEF old, new
  <2>7. layer = LayerOf(i) /\ e \in Binds(i)
    <3>1. Adds(i, h) BY <2>6, <1>7, PathRanks
    <3>2. e \in h.content \ files[h.path] /\ y \in files[h.path]
      BY <2>3, <2>4, <2>5, <2>6, <1>4 DEF old, new
    <3> QED BY <2>3, <2>4, <2>6, <3>1, <3>2 DEF Adds
  <2>8. ClassesBound(new, ask[1]) # {e[2]}
    <3>1. class \in ClassesBound(new, ask[1]) BY <2>1, <2>2
    <3> QED BY <3>1, <2>3
  <2>9. ask \in files'[SpecPath(layer, feature)].asks BY <1>4, <1>14
  <2>10. e[1] = ask[1] /\ e[2] \in ClassesBound(new, ask[1]) BY <2>3
  <2> QED BY <2>7, <2>8, <2>9, <2>10 DEF Rebinds, new
<1>15. DOMAIN files \subseteq DOMAIN files' /\ "ui" \in Layers BY <1>4 DEF Layers
<1> QED BY <1>4, <1>8, <1>9, <1>11, <1>12, <1>13, <1>14, <1>15, StillRuns

(* After a write a spec is loaded with what was needed, and with what a new *)
(* loader takes up: all of it is whole, or still to be written.             *)
LEMMA WriteNeeds ==
  ASSUME CodegenInd, DiskInd, AloneInd, NEW c \in Callers, Write(c), ~doing[c].met,
         NEW i, i = InputOf(c), ~Overwrites(i), NEW layer \in Layers, NEW feature \in Features,
         SpecPath(layer, feature) \in DOMAIN files, ~Excused(i, layer, feature),
         NEW w, w = doing[c].writes, NEW t, t = Tail(w), NEW cut, cut = notes[c].cut,
         Good(i, w, cut, {Head(w).path}, layer, feature)
  PROVE  /\ Needed(files', layer, feature) \subseteq (DOMAIN files' \ torn') \cup Due(i, t, {}, layer)'
         /\ \A e \in Range(t) : Turn(e.path) = 1 => e.path \notin Needed(files', layer, feature)
<1> DEFINE spec == files[SpecPath(layer, feature)]
           needed == Needed(files, layer, feature)
           later == Needed(files', layer, feature)
           known == (DOMAIN files' \ torn') \cup Due(i, t, {}, layer)'
           loader == files[LoaderPath(layer)]
           newer == files'[LoaderPath(layer)]
<1>1. PICK h : h = w[1] OBVIOUS
<1>2. ~Own(i, layer, feature) BY DEF Excused
<1>3. /\ DOMAIN files' = DOMAIN files \cup {h.path} /\ files'[h.path] = h.content
      /\ \A p \in DOMAIN files : p # h.path => files'[p] = files[p]
      /\ h \in Range(w) /\ files'[SpecPath(layer, feature)] = spec
      /\ \A l \in Layers : files[LoaderPath(l)].data \subseteq files'[LoaderPath(l)].data
  <2>0. h = doing[c].writes[1] BY <1>1
  <2>1. h \in Range(doing[c].writes) /\ Leaves(h, layer, feature) BY <2>0, <1>2, WriteLeaves
  <2> QED BY <2>1 DEF Leaves
<1>4. Listed(w) /\ w # <<>> /\ doing[c].pc = "write" BY WriteIs
<1>5. /\ LayerOf(i) \in Layers /\ InputShape(i) /\ Accepted(i)
      /\ \A d \in Callers : Busy(d) => d = c
      /\ c \notin mixed
      /\ cut \subseteq {LoaderPath(LayerOf(i)), ConfigPath(LayerOf(i)), SpecPath(LayerOf(i), i.feature)}
      /\ Appends(i) => h.path = SpecPath(LayerOf(i), i.feature)
      /\ ~Appends(i) => Adds(i, h) /\ Fresh(h) /\ Ranked(w) /\ Delivered(doing[c], cut)
  BY <1>3, <1>4, AloneWrites
<1>6. Head(w) = h /\ Range(w) = Range(t) \cup {h} BY <1>1, <1>4, ListTail
<1>7. torn' = torn \ ({h.path} \ cut) BY <1>5, <1>6, WriteWhole
<1>8. \A p : Turn(p) \in {1, 5} => p \notin cut BY <1>5, PathRanks
<1>9. needed \subseteq (DOMAIN files \ torn) \cup Due(i, w, {h.path}, layer) BY <1>6 DEF Good
<1>10. h.path \in needed => h.path \notin cut
  <2>1. Turn(h.path) = 1 => h.path \notin needed BY <1>3 DEF Good
  <2>2. LoaderPath(layer) \notin cut /\ ConfigPath(layer) \notin cut BY DEF Good
  <2>3. DataPath(i.feature) \notin cut BY <1>8, PathRanks
  <2> QED BY <1>3, <1>4, <2>1, <2>2, <2>3, HeadNeeded
<1>11. LoaderPath(layer) \in DOMAIN files BY DEF CodegenInd
<1> HIDE DEF needed, later
<1>12. ASSUME NEW p \in needed PROVE p \in known
  <2>1. CASE p = h.path BY <2>1, <1>3, <1>7, <1>10
  <2>2. CASE p # h.path /\ p \in DOMAIN files \ torn BY <2>2, <1>3, <1>7
  <2>3. CASE p # h.path /\ p \in Due(i, w, {h.path}, layer)
    <3>1. p \in Paths(w) /\ p = DataPath(i.feature) /\ i.feature \in loader.data BY <2>3 DEF Due
    <3>2. p \in Paths(t) BY <2>3, <3>1, <1>6 DEF Paths
    <3>3. i.feature \in newer.data BY <3>1, <1>3
    <3> QED BY <3>1, <3>2, <3>3 DEF Due
  <2> QED BY <1>9, <2>1, <2>2, <2>3
<1>13. \A class \in spec.builders :
         /\ <<"builders", class>> \in needed
         /\ files'[<<"builders", class>>] = files[<<"builders", class>>]
  <2> TAKE class \in spec.builders
  <2>1. <<"builders", class>> \in needed BY DEF needed, Needed
  <2>2. Turn(<<"builders", class>>) = 1 BY DEF Turn, CodeDirs
  <2>3. h.path # <<"builders", class>> BY <2>1, <2>2, <1>3 DEF Good, needed
  <2>4. <<"builders", class>> \in DOMAIN files BY DEF CodegenInd, Fits, Built
  <2> QED BY <2>1, <2>3, <2>4, <1>3
<1>14. ASSUME NEW p \in later PROVE p \in needed \/ p \in Exported(newer)
  <2> DEFINE built == {<<"builders", class>> : class \in spec.builders}
             clients == {files[b].client : b \in built} \ {None}
             anew == {files'[b].client : b \in built} \ {None}
             base == {SpecPath(layer, feature), LoaderPath(layer), ConfigPath(layer)}
             data == IF layer = "api" /\ spec.imports # None THEN {DataPath(spec.imports)} ELSE {}
  <2>1. anew = clients
    <3>1. \A b \in built : files'[b] = files[b] BY <1>13
    <3> HIDE DEF built
    <3> QED BY <3>1
  <2>2. needed = base \cup Exported(loader) \cup built \cup {<<"clients", client>> : client \in clients} \cup data
    BY DEF needed, Needed
  <2>3. later = base \cup Exported(newer) \cup built \cup {<<"clients", client>> : client \in anew} \cup data
    BY <1>3 DEF later, Needed
  <2> HIDE DEF built, clients, anew, base, data, newer, loader
  <2> QED BY <2>1, <2>2, <2>3
<1>15. CASE h.path # LoaderPath(layer)
  <2>1. newer = loader BY <1>15, <1>3, <1>11
  <2>2. later \subseteq needed BY <1>14, <2>1 DEF needed, Needed
  <2>3. \A e \in Range(t) : Turn(e.path) = 1 => e.path \notin needed BY <1>6 DEF Good, needed
  <2> HIDE DEF known
  <2> QED BY <1>12, <2>2, <2>3 DEF later, known
<1>16. CASE h.path = LoaderPath(layer)
  <2>1. ~Appends(i) /\ Turn(h.path) = 2 BY <1>5, <1>16, PathRanks
  <2>2. /\ \A new \in newer.exports \ loader.exports : new[2] \in CodePaths(i)
        /\ \A new \in newer.data \ loader.data :
             new = i.feature /\ Creates(i) /\ HasExpected(i.schema.expected)
    BY <1>3, <1>5, <1>16, <2>1 DEF Adds
  <2>3. \A e \in Range(t) : Turn(e.path) > 2
    <3>1. \A e \in Range(t) : Before(h, e) BY <1>1, <1>4, <1>5, <2>1, HeadFirst
    <3> QED BY <2>1, <3>1 DEF Before, Turn
  <2>4. PICK ld, config : LET all == Range(Writes(i, ld, config))
                          IN \A e \in all : e.path \in Paths(w) \/ Landed(e.path, cut)
    BY <1>5, <2>1 DEF Delivered, InputOf
  <2>5. ASSUME NEW p \in Paths(Writes(i, ld, config)), Turn(p) \in {1, 5}
        PROVE  p \in Paths(t) \/ p \in DOMAIN files' \ torn'
    <3>1. p \in Paths(w) \/ Landed(p, cut) BY <2>4 DEF Paths
    <3>2. p # h.path BY <2>1, <2>5
    <3>3. p \in Paths(w) => p \in Paths(t) BY <3>2, <1>6 DEF Paths
    <3>4. Landed(p, cut) => p \in DOMAIN files' \ torn' BY <2>5, <1>3, <1>7, <1>8 DEF Landed
    <3> QED BY <3>1, <3>3, <3>4
  <2>6. ASSUME NEW p \in CodePaths(i) PROVE p \in known
    <3>1. Turn(p) = 1 BY PathRanks DEF CodePaths
    <3>2. p \in Paths(Writes(i, ld, config)) BY <1>5, <2>1, WritesAre DEF Paths
    <3>3. p \notin Paths(t) BY <3>1, <2>3 DEF Paths
    <3> QED BY <2>5, <3>1, <3>2, <3>3
  <2>7. ASSUME NEW g \in newer.data \ loader.data PROVE DataPath(g) \in known
    <3>1. g = i.feature /\ Creates(i) /\ HasExpected(i.schema.expected) BY <2>2
    <3>2. DataPath(g) \in Paths(Writes(i, ld, config)) BY <3>1, <1>5, ExpectedIsWritten
    <3>3. Turn(DataPath(g)) = 5 BY PathRanks
    <3>4. DataPath(g) \in Paths(t) \/ DataPath(g) \in DOMAIN files' \ torn' BY <2>5, <3>2, <3>3
    <3>5. DataPath(g) \in Paths(t) => DataPath(g) \in Due(i, t, {}, layer)' BY <3>1 DEF Due
    <3> QED BY <3>4, <3>5
  <2>8. ASSUME NEW p \in Exported(newer) PROVE p \in known
    <3>1. CASE \E e \in newer.exports : p = e[2]
      <4>1. PICK e \in newer.exports : p = e[2] BY <3>1
      <4>2. e \in loader.exports => p \in needed BY <4>1 DEF needed, Needed, Exported
      <4> HIDE DEF known
      <4> QED BY <1>12, <2>2, <2>6, <4>1, <4>2
    <3>2. CASE \E g \in newer.data : p = DataPath(g)
      <4>1. PICK g \in newer.data : p = DataPath(g) BY <3>2
      <4>2. g \in loader.data => p \in needed BY <4>1 DEF needed, Needed, Exported
      <4> HIDE DEF known
      <4> QED BY <1>12, <2>7, <4>1, <4>2
    <3> QED BY <3>1, <3>2 DEF Exported
  <2>9. \A e \in Range(t) : Turn(e.path) # 1 BY <2>3
  <2> HIDE DEF known, newer
  <2> QED BY <1>12, <1>14, <2>8, <2>9 DEF later, known
<1> QED BY <1>15, <1>16

(* So a write leaves a spec as it was, but for what it may do to it. *)
LEMMA WriteGood ==
  ASSUME CodegenInd, DiskInd, AloneInd, NEW c \in Callers, Write(c), ~doing[c].met,
         NEW i, i = InputOf(c), ~Overwrites(i), NEW layer \in Layers, NEW feature \in Features,
         NEW t, t = Tail(doing[c].writes), NEW cut, cut = notes[c].cut,
         ~Excused(i, layer, feature), ~Rebinds(files', i, layer, feature),
         Good(i, doing[c].writes, cut, On(c), layer, feature)
  PROVE  Good(i, t, cut, {}, layer, feature)'
<1>1. PICK w : w = doing[c].writes OBVIOUS
<1>2. On(c) = {Head(w).path} BY <1>1, WriteTorn DEF On
<1>3. Resolves(files, layer, feature) /\ SpecPath(layer, feature) \in DOMAIN files BY DEF Good, Resolves
<1>4. Resolves(files', layer, feature) BY <1>3, WriteResolves
<1>5. Good(i, w, cut, {Head(w).path}, layer, feature) BY <1>1, <1>2
<1>6. /\ Needed(files', layer, feature) \subseteq (DOMAIN files' \ torn') \cup Due(i, t, {}, layer)'
      /\ \A e \in Range(t) : Turn(e.path) = 1 => e.path \notin Needed(files', layer, feature)
  BY <1>1, <1>3, <1>5, WriteNeeds
<1> QED BY <1>4, <1>6 DEF Good

LEMMA WriteStand ==
  ASSUME CodegenInd, DiskInd, AloneInd, StandInd, NEW c \in Callers, Write(c)
  PROVE  StandInd'
<1> DEFINE k == doing[c]
<1>1. /\ Busy(c)
      /\ \A d \in Callers : d # c => doing'[d] = doing[d]
      /\ \/ doing'[c] = Idle
         \/ doing'[c] = [pc |-> "write", input |-> k.input, todo |-> k.todo, loader |-> k.loader,
                         writes |-> Tail(k.writes), met |-> k.met]
  BY WriteIs DEF Busy
<1>2. ASSUME Busy(c)'
      PROVE  /\ doing'[c].met = k.met /\ doing'[c].input = k.input /\ doing'[c].writes = Tail(k.writes)
             /\ notes'[c].ran = notes[c].ran /\ notes'[c].cut = notes[c].cut
  <2>1. doing'[c] # Idle BY <1>2 DEF Busy, Idle
  <2>2. notes'[c] = [notes[c] EXCEPT !.cut = notes[c].cut \cup (torn \cap {})] BY <2>1, WriteTorn
  <2>3. DOMAIN notes[c] = {"cut", "ran"} BY DEF DiskInd, NotesOK
  <2>4. notes'[c].ran = notes[c].ran /\ notes'[c].cut = notes[c].cut BY <2>2, <2>3
  <2> DEFINE t == Tail(k.writes)
  <2>6. doing'[c] = [pc |-> "write", input |-> k.input, todo |-> k.todo, loader |-> k.loader,
                     writes |-> t, met |-> k.met]
    BY <1>1, <2>1
  <2> HIDE DEF k, t
  <2>7. doing'[c].met = k.met /\ doing'[c].input = k.input /\ doing'[c].writes = t BY <2>6
  <2>5. doing'[c].met = k.met /\ doing'[c].input = k.input /\ doing'[c].writes = Tail(k.writes)
    BY <2>7 DEF t
  <2> QED BY <2>4, <2>5
<1>3. ASSUME NEW s \in notes[c].ran, Busy(c)', ~k.met, ~Overwrites(InputOf(c)),
             Stands(InputOf(c), k.writes, notes[c].cut, On(c), s)
      PROVE  Stands(InputOf(c), doing[c].writes, notes[c].cut, On(c), s)'
  <2>1. PICK i, cut, t : i = InputOf(c) /\ cut = notes[c].cut /\ t = Tail(k.writes) OBVIOUS
  <2>2. i = InputOf(c)' /\ cut = notes'[c].cut /\ t = doing'[c].writes
    <3>1. doing'[c].input = doing[c].input BY <1>2, <1>3
    <3> QED BY <1>2, <1>3, <2>1, <3>1 DEF InputOf
  <2>3. On(c)' = {}
    <3>1. open' = open \ {c} BY WriteTorn
    <3> QED BY <3>1 DEF On
  <2>4. /\ s \in Layers \X Features /\ SpecPath(s[1], s[2]) \in DOMAIN files
        /\ Excused(i, s[1], s[2]) \/ Good(i, k.writes, cut, On(c), s[1], s[2])
    BY <1>3, <2>1 DEF Stands
  <2>5. SpecPath(s[1], s[2]) \in DOMAIN files'
    <3>1. files' = Put(files, k.writes[1].path, k.writes[1].content) BY WriteIs
    <3> HIDE DEF k
    <3> QED BY <2>4, <3>1 DEF Put
  <2>6. ASSUME Excused(i, s[1], s[2]) PROVE Excused(i, s[1], s[2])'
    <3>1. CASE Own(i, s[1], s[2]) BY <3>1 DEF Excused, Own
    <3>2. CASE ~Own(i, s[1], s[2])
      <4>1. PICK h : h = doing[c].writes[1] OBVIOUS
      <4>3. Leaves(h, s[1], s[2]) BY <1>3, <2>1, <2>4, <3>2, <4>1, WriteLeaves
      <4>2. /\ files'[SpecPath(s[1], s[2])] = files[SpecPath(s[1], s[2])]
            /\ files[ConfigPath(s[1])] \subseteq files'[ConfigPath(s[1])]
        BY <4>3 DEF Leaves
      <4> QED BY <2>4, <2>6, <4>2, ExcusedStays
    <3> QED BY <3>1, <3>2
  <2>7. ASSUME ~Excused(i, s[1], s[2])
        PROVE  Excused(i, s[1], s[2])' \/ Good(i, t, cut, {}, s[1], s[2])'
    <3>1. CASE Rebinds(files', i, s[1], s[2]) BY <3>1 DEF Excused
    <3>2. CASE ~Rebinds(files', i, s[1], s[2])
      BY <1>3, <2>1, <2>4, <2>7, <3>2, WriteGood
    <3> QED BY <3>1, <3>2
  <2>8. Stands(i, t, cut, {}, s)' BY <2>4, <2>5, <2>6, <2>7 DEF Stands
  <2> QED BY <2>2, <2>3, <2>8
<1> QED BY <1>1, <1>2, <1>3, StepStand

LEMMA FaultStand ==
  ASSUME CodegenInd, DiskInd, AloneInd, StandInd, NEW c \in Callers, Fault(c)
  PROVE  StandInd'
<1>1. /\ Busy(c) /\ doing'[c] = Idle
      /\ \A d \in Callers : d # c => doing'[d] = doing[d]
  BY FaultIs
<1>2. ~Busy(c)' BY <1>1 DEF Busy, Idle
<1> QED BY <1>1, <1>2, StepStand

LEMMA StandStarts == FilesInit => StandInd
<1>1. FilesInit => \A c \in Callers : ~Busy(c) BY DEF FilesInit, Busy, Idle
<1> QED BY <1>1 DEF StandInd

LEMMA StandKeeps ==
  CodegenInd /\ DiskInd /\ AloneInd /\ StandInd /\ [FilesNext]_filesVars => StandInd'
<1> SUFFICES ASSUME CodegenInd, DiskInd, AloneInd, StandInd, [FilesNext]_filesVars PROVE StandInd' OBVIOUS
<1>1. CASE UNCHANGED filesVars
  <2> SUFFICES ASSUME NEW c \in Callers, Busy(c)', ~doing'[c].met, ~Overwrites(InputOf(c))',
                      NEW s \in notes'[c].ran
               PROVE  Stands(InputOf(c), doing[c].writes, notes[c].cut, On(c), s)'
    BY DEF StandInd
  <2>1. files' = files /\ torn' = torn /\ doing' = doing /\ notes' = notes /\ open' = open
    BY <1>1 DEF filesVars
  <2>2. PICK i, w, cut, on : i = InputOf(c) /\ w = doing[c].writes /\ cut = notes[c].cut /\ on = On(c) OBVIOUS
  <2>3. i = InputOf(c)' /\ w = doing'[c].writes /\ cut = notes'[c].cut /\ on = On(c)'
    BY <2>1, <2>2 DEF InputOf, On
  <2>4. Busy(c) /\ ~doing[c].met /\ ~Overwrites(i) /\ s \in notes[c].ran BY <2>1, <2>3 DEF Busy
  <2>5. Stands(i, w, cut, on, s) BY <2>2, <2>4 DEF StandInd
  <2>6. /\ Excused(i, s[1], s[2]) <=> Excused(i, s[1], s[2])'
        /\ Good(i, w, cut, on, s[1], s[2]) <=> Good(i, w, cut, on, s[1], s[2])'
    BY <2>1 DEF Excused, Own, BringsDataOf, Good, Due
  <2>7. Stands(i, w, cut, on, s)' BY <2>1, <2>5, <2>6 DEF Stands
  <2> QED BY <2>3, <2>7
<1>2. ASSUME NEW c \in Callers, NEW name \in AcceptedNames, Enter(c, name) PROVE StandInd' BY <1>2, EnterStand
<1>3. ASSUME NEW c \in Callers, Check(c) \/ ReadLoader(c) \/ ReadConfig(c) \/ ReadSpec(c) PROVE StandInd'
  BY <1>3, ReadStand
<1>4. ASSUME NEW c \in Callers, Open(c) PROVE StandInd' BY <1>4, OpenStand
<1>5. ASSUME NEW c \in Callers, Write(c) PROVE StandInd' BY <1>5, WriteStand
<1>6. ASSUME NEW c \in Callers, Fault(c) PROVE StandInd' BY <1>6, FaultStand
<1> QED BY <1>1, <1>2, <1>3, <1>4, <1>5, <1>6 DEF FilesNext

(* A call ends at a step of its own. *)
LEMMA OverIs ==
  ASSUME CodegenInd, DiskInd, [FilesNext]_filesVars, NEW c \in Callers, Over(c)
  PROVE  \/ Check(c) \/ ReadLoader(c) \/ ReadConfig(c) \/ ReadSpec(c)
         \/ Write(c) \/ Fault(c)
<1>1. doing'[c].pc # doing[c].pc BY DEF Over, Busy
<1>2. ~UNCHANGED filesVars BY <1>1 DEF filesVars
<1>3. \A d \in Callers : ~Open(d) BY <1>1 DEF Open
<1>4. ASSUME NEW d \in Callers, NEW name \in AcceptedNames, Enter(d, name) PROVE FALSE
  <2> DEFINE others == {e \in Callers : Busy(e)}
             k == doing[c]
             b == c \in others
             m == [k EXCEPT !.met = @ \/ b]
  <2>1. d # c BY <1>4 DEF Enter, Over
  <2>2. doing'[c] = m BY <1>4, <2>1 DEF Enter
  <2>3. m.pc = k.pc
    <3>1. CallTyped(k) BY DEF CodegenInd
    <3> HIDE DEF k, b
    <3>2. {"pc", "met"} \subseteq DOMAIN k BY <3>1 DEF CallTyped
    <3> QED BY <3>2
  <2> HIDE DEF m
  <2> QED BY <1>1, <2>2, <2>3
<1>5. ASSUME NEW d \in Callers, d # c, doing'[c] = doing[c] PROVE FALSE BY <1>1, <1>5
<1>6. ASSUME NEW d \in Callers, Check(d) \/ ReadLoader(d) \/ ReadConfig(d) \/ ReadSpec(d) PROVE d = c
  BY <1>5, <1>6, ReadStep
<1>7. ASSUME NEW d \in Callers, Write(d) PROVE d = c BY <1>5, <1>7, WriteIs
<1>8. ASSUME NEW d \in Callers, Fault(d) PROVE d = c BY <1>5, <1>8, FaultIs
<1> QED BY <1>2, <1>3, <1>4, <1>6, <1>7, <1>8 DEF FilesNext

LEMMA OthersStandStep ==
  ASSUME CodegenInd, DiskInd, AloneInd, StandInd, [FilesNext]_filesVars, NEW c \in Callers,
         Over(c), ~doing[c].met, NEW i, i = InputOf(c), ~Overwrites(i), NEW s \in notes[c].ran
  PROVE  \/ Runs(files', torn', s[1], s[2])
         \/ Appends(i) /\ s = <<LayerOf(i), i.feature>>
         \/ BringsDataOf(i, s[1], s[2])
         \/ Rebinds(files', i, s[1], s[2])
         \/ CutShort(c, s[1])
<1>1. PICK w, cut, on : w = doing[c].writes /\ cut = notes[c].cut /\ on = On(c) OBVIOUS
<1>2. Busy(c) BY DEF Over
<1>3. Stands(i, w, cut, on, s) BY <1>1, <1>2 DEF StandInd
<1>4. s \in Layers \X Features /\ s = <<s[1], s[2]>> BY <1>3 DEF Stands
<1>5. CASE Excused(i, s[1], s[2])
  <2>1. CASE Own(i, s[1], s[2]) BY <2>1, <1>4 DEF Own
  <2>2. CASE BringsDataOf(i, s[1], s[2]) BY <2>2
  <2>3. CASE Rebinds(files, i, s[1], s[2]) /\ ~Own(i, s[1], s[2])
    <3>1. CASE files' = files BY <2>3, <3>1
    <3>2. CASE Write(c)
      <4>1. PICK h : h = doing[c].writes[1] OBVIOUS
      <4>2. Leaves(h, s[1], s[2]) BY <1>3, <1>4, <2>3, <3>2, <4>1, WriteLeaves DEF Stands
      <4>3. PICK ask \in files[SpecPath(s[1], s[2])].asks, e \in Binds(i) :
              /\ s[1] = LayerOf(i) /\ e[1] = ask[1]
              /\ e[2] \in ClassesBound(files[ConfigPath(s[1])], ask[1])
              /\ ClassesBound(files[ConfigPath(s[1])], ask[1]) # {e[2]}
        BY <2>3 DEF Rebinds
      <4>4. ClassesBound(files[ConfigPath(s[1])], ask[1]) \subseteq ClassesBound(files'[ConfigPath(s[1])], ask[1])
        BY <4>2 DEF Leaves, ClassesBound
      <4>5. ask \in files'[SpecPath(s[1], s[2])].asks BY <4>2, <4>3 DEF Leaves
      <4>6. /\ e[2] \in ClassesBound(files'[ConfigPath(s[1])], ask[1])
            /\ ClassesBound(files'[ConfigPath(s[1])], ask[1]) # {e[2]}
        BY <4>3, <4>4
      <4> QED BY <4>3, <4>5, <4>6 DEF Rebinds
    <3>3. CASE Fault(c) BY <3>1, <3>3, FaultIs
    <3> QED BY <3>1, <3>2, <3>3, OverIs, ReadStep
  <2> QED BY <1>5, <2>1, <2>2, <2>3 DEF Excused
<1>6. CASE ~Excused(i, s[1], s[2])
  <2>1. Good(i, w, cut, on, s[1], s[2]) BY <1>3, <1>6 DEF Stands
  <2>2. CASE Check(c) \/ ReadLoader(c) \/ ReadConfig(c) \/ ReadSpec(c)
    <3>1. w = <<>> /\ c \notin open /\ files' = files /\ torn' = torn BY <1>1, <2>2, ReadStep
    <3>2. Due(i, w, on, s[1]) = {}
      <4>1. on = {} BY <1>1, <3>1 DEF On
      <4>2. Paths(w) = {} BY <3>1, ListNone DEF Paths
      <4> QED BY <4>1, <4>2 DEF Due
    <3> QED BY <2>1, <3>1, <3>2 DEF Good, Runs
  <2>3. CASE Write(c)
    <3>1. CASE Rebinds(files', i, s[1], s[2]) BY <3>1
    <3>2. CASE ~Rebinds(files', i, s[1], s[2])
      <4>1. PICK t : t = Tail(w) OBVIOUS
      <4>2. Good(i, t, cut, {}, s[1], s[2])' BY <1>1, <1>4, <1>6, <2>1, <2>3, <3>2, <4>1, WriteGood
      <4>3. Paths(t) = {}
        <5> DEFINE k == doing[c]
                   rest == Tail(w)
        <5>1. /\ Listed(w) /\ w # <<>>
              /\ \/ Len(w) = 1
                 \/ doing'[c] = [pc |-> "write", input |-> k.input, todo |-> k.todo,
                                 loader |-> k.loader, writes |-> rest, met |-> k.met]
          BY <1>1, <2>3, WriteIs
        <5>2. Len(w) = 1
          <6> HIDE DEF k, rest
          <6> QED BY <5>1 DEF Over
        <5>3. Listed(t) /\ Len(t) = 0 BY <4>1, <5>1, <5>2, ListTail
        <5>4. DOMAIN t = {} BY <5>3, ListedIs
        <5> QED BY <5>4 DEF Paths, Range
      <4>4. Due(i, t, {}, s[1])' = {} BY <4>3 DEF Due
      <4> QED BY <4>2, <4>4 DEF Good, Runs
    <3> QED BY <3>1, <3>2
  <2>4. CASE Fault(c)
    <3>1. files' = files /\ torn' = torn /\ faults' # faults BY <2>4, FaultIs
    <3>2. CASE Due(i, w, on, s[1]) = {} BY <2>1, <3>1, <3>2 DEF Good, Runs
    <3>3. CASE Due(i, w, on, s[1]) # {}
      <4>1. PICK path : path \in Due(i, w, on, s[1]) BY <3>3
      <4>2. CASE path \in {LoaderPath(s[1]), ConfigPath(s[1])} \cap on
        <5>1. c \in open /\ path = Head(doing[c].writes).path BY <1>1, <4>2 DEF On
        <5>2. doing[c].pc = "write" BY <5>1 DEF DiskInd
        <5> QED BY <3>1, <4>2, <5>1, <5>2 DEF CutShort
      <4>3. CASE path \in Paths(w) /\ path = DataPath(i.feature) /\ i.feature \in files[LoaderPath(s[1])].data
        <5>1. w # <<>>
          <6>1. Paths(<<>>) = {} BY ListNone DEF Paths
          <6> QED BY <4>3, <6>1
        <5>2. doing[c].pc = "write" BY <1>1, <5>1 DEF CodegenInd, CallTyped
        <5>3. DataPath(InputOf(c).feature) \in {e.path : e \in Range(doing[c].writes)}
          BY <1>1, <4>3 DEF Paths
        <5> QED BY <3>1, <4>3, <5>2, <5>3 DEF CutShort
      <4> QED BY <4>1, <4>2, <4>3 DEF Due
    <3> QED BY <3>2, <3>3
  <2> QED BY <2>2, <2>3, <2>4, OverIs
<1> QED BY <1>5, <1>6

(* For any inputs, callers and bounds: a call that nobody came beside leaves *)
(* every spec running that ran when it began, whether it is refused, comes to *)
(* its end or is cut short in any of its writes, but for what OthersStand    *)
(* names (generator.ts, api-generator.ts; project-fs.ts writes in place).    *)
THEOREM SpecsOfOthersStand == FilesSpec => OthersStand
<1>1. CodegenInd /\ DiskInd /\ AloneInd /\ StandInd /\ [FilesNext]_filesVars =>
        \A c \in Callers :
          Over(c) /\ ~doing[c].met /\ ~Overwrites(InputOf(c)) =>
            \A s \in notes[c].ran :
              LET input == InputOf(c)
              IN  \/ Runs(files', torn', s[1], s[2])
                  \/ Appends(input) /\ s = <<LayerOf(input), input.feature>>
                  \/ BringsDataOf(input, s[1], s[2])
                  \/ Rebinds(files', input, s[1], s[2])
                  \/ CutShort(c, s[1])
  BY OthersStandStep
<1> QED BY <1>1, CodegenStarts, CodegenKeeps, DiskStarts, DiskKeeps, AloneStarts, AloneKeeps,
           StandStarts, StandKeeps, PTL DEF FilesSpec, OthersStand

-----------------------------------------------------------------------------
(* A create that comes to its end.                                         *)
LEMMA EndsWrites ==
  ASSUME CodegenInd, [FilesNext]_filesVars, NEW c \in Callers, Ends(c)
  PROVE  Write(c)
<1>1. doing[c].pc = "write" /\ doing'[c].pc = "idle" /\ faults' = faults BY DEF Ends
<1>2. doing' # doing BY <1>1
<1>3. doing = [d \in Callers |-> doing[d]] BY DEF CodegenInd
<1>4. PICK d \in Callers : \/ \E name \in AcceptedNames : Enter(d, name)
                           \/ Check(d) \/ ReadLoader(d) \/ ReadConfig(d) \/ ReadSpec(d)
                           \/ Write(d) \/ Fault(d) \/ Open(d)
  BY <1>2 DEF FilesNext, filesVars
<1>5. ASSUME NEW name \in AcceptedNames, Enter(d, name) PROVE FALSE
  <2> DEFINE others == {e \in Callers : Busy(e)}
             k == doing[c]
             b == c \in others
             m == [k EXCEPT !.met = @ \/ b]
  <2>1. d # c BY <1>1, <1>5 DEF Enter, Busy
  <2>2. doing'[c] = m BY <2>1, <1>5 DEF Enter
  <2>3. CallTyped(k) BY DEF CodegenInd
  <2>4. m.pc = k.pc
    <3> HIDE DEF k, b
    <3>1. "pc" \in DOMAIN k BY <2>3 DEF CallTyped, k
    <3> QED BY <3>1
  <2> HIDE DEF m
  <2> QED BY <1>1, <2>2, <2>4
<1>6. ~Fault(d)
  <2>1. faults \in Nat BY InputsAssumption DEF CodegenInd
  <2> QED BY <2>1, <1>1 DEF Fault
<1>7. ASSUME Check(d) \/ ReadLoader(d) \/ ReadConfig(d) \/ ReadSpec(d) PROVE FALSE
  <2>1. d # c BY <1>1, <1>7 DEF Check, ReadLoader, ReadConfig, ReadSpec
  <2>2. doing'[c] = doing[c] BY <2>1, <1>3, <1>7 DEF Check, ReadLoader, ReadConfig, ReadSpec
  <2> QED BY <1>1, <2>2
<1>10. ~Open(d) BY <1>2 DEF Open
<1>8. Write(d) BY <1>4, <1>5, <1>6, <1>7, <1>10
<1>9. d = c
  <2>1. d # c => doing'[c] = doing[c] BY <1>8, WriteIs
  <2> QED BY <2>1, <1>1
<1> QED BY <1>8, <1>9

(* Everything the call had to write is there, in its last version.         *)
Done(all, fs) ==
  \A e \in all : \E f \in all : /\ f.path = e.path /\ e.path \in DOMAIN fs
                                /\ fs[e.path] = f.content

Ended(input, loader, config, fs) ==
  /\ ~FixtureCollides(config, ClientsIn(input)) /\ "exports" \in DOMAIN loader
  /\ Done(Range(Writes(input, loader, config)), fs)

(* The loader, the config and the spec of a create are written once.       *)
LEMMA OnceWritten ==
  ASSUME NEW input, InputShape(input), Accepted(input), Creates(input), NEW loader, NEW config,
         NEW fs, Ended(input, loader, config, fs)
  PROVE  LET layer == LayerOf(input)
         IN  /\ {LoaderPath(layer), ConfigPath(layer), SpecPath(layer, input.feature)} \subseteq DOMAIN fs
             /\ fs[LoaderPath(layer)] = NewLoader(input, loader)
             /\ fs[ConfigPath(layer)] = NewConfig(input, config)
             /\ fs[SpecPath(layer, input.feature)] = NewSpec(input)
<1> DEFINE w == Writes(input, loader, config)
           layer == LayerOf(input)
<1>0. layer \in Layers BY DEF LayerOf, Layers
<1>1. /\ Listed(w) /\ Ranked(w) /\ LayerEntries(input, loader, config) \subseteq Range(w)
      /\ SpecEntry(input) \in Range(w)
  <2>1. ~Appends(input) BY DEF Creates, Creating, Appends, Appending
  <2> QED BY <2>1, WritesAre
<1>2. ASSUME NEW e \in Range(w), Turn(e.path) \in {2, 3, 4}
      PROVE  e.path \in DOMAIN fs /\ fs[e.path] = e.content
  <2> HIDE DEF w
  <2>1. PICK f \in Range(w) : f.path = e.path /\ e.path \in DOMAIN fs /\ fs[e.path] = f.content
    BY DEF Ended, Done, w
  <2>2. PICK i \in DOMAIN w : w[i] = e BY DEF Range
  <2>3. PICK j \in DOMAIN w : w[j] = f BY DEF Range
  <2>4. ~(i < j) /\ ~(j < i)
    BY <1>1, <1>2, <2>1, <2>2, <2>3 DEF Ranked, Before
  <2>5. DOMAIN w = 1..Len(w) /\ Len(w) \in Nat BY <1>1, ListedIs
  <2>6. i = j BY <2>4, <2>5
  <2> QED BY <2>1, <2>2, <2>3, <2>6
<1>3. FileEntry(LoaderPath(layer), NewLoader(input, loader)) \in Range(w)
      /\ FileEntry(ConfigPath(layer), NewConfig(input, config)) \in Range(w)
      /\ FileEntry(SpecPath(layer, input.feature), NewSpec(input)) \in Range(w)
  BY <1>1 DEF LayerEntries, SpecEntry
<1> HIDE DEF w
<1>4. /\ Turn(LoaderPath(layer)) = 2 /\ Turn(ConfigPath(layer)) = 3
      /\ Turn(SpecPath(layer, input.feature)) = 4
  BY <1>0, PathRanks
<1> QED BY <1>2, <1>3, <1>4, EntryParts

LEMMA EndDelivers ==
  ASSUME CodegenInd, DiskInd, AloneInd, NEW c \in Callers, Write(c), Len(doing[c].writes) = 1,
         ~doing[c].met, NEW i, i = InputOf(c), Creates(i), notes[c].cut = {}
  PROVE  /\ \E loader, config :
              /\ Ended(i, loader, config, files')
              /\ Paths(Writes(i, loader, config)) \subseteq DOMAIN files' \ torn'
         /\ \A l \in Layers : /\ files'[LoaderPath(l)] = files[LoaderPath(l)]
                              /\ files'[ConfigPath(l)] = files[ConfigPath(l)]
         /\ DOMAIN files \subseteq DOMAIN files' /\ torn' \subseteq torn
<1> DEFINE k == doing[c]
           w == k.writes
           h == w[1]
<1>1. /\ Listed(w) /\ w # <<>> /\ k.pc = "write"
      /\ files' = Put(files, h.path, h.content) /\ Head(w) = h
  BY WriteIs
<1>2. /\ DOMAIN files' = DOMAIN files \cup {h.path} /\ files'[h.path] = h.content
      /\ \A p \in DOMAIN files : p # h.path => files'[p] = files[p]
  <2>1. files' = Put(files, h.path, h.content) BY <1>1
  <2> HIDE DEF h
  <2> QED BY <2>1 DEF Put
<1>3. ~Appends(i) BY DEF Creates, Creating, Appends, Appending
<1>4. /\ AloneFits(k, {}) /\ c \notin mixed
      /\ \A d \in Callers : Busy(d) => d = c
  BY <1>1 DEF AloneInd, Busy
<1>5. EndsLate(w) /\ Delivered(k, {}) BY <1>1, <1>3, <1>4 DEF AloneFits, InputOf
<1>6. Range(w) = {h} /\ 1 \in DOMAIN w
  <2> HIDE DEF w
  <2>1. DOMAIN w = 1..1 BY <1>1, ListedIs DEF w
  <2> QED BY <2>1 DEF Range
<1>7. Turn(h.path) \in {4, 5} BY <1>5, <1>6 DEF EndsLate
<1>13. torn' = torn \ {h.path} BY <1>1, <1>4, WriteWhole
<1>8. ASSUME NEW l \in Layers
      PROVE  files'[LoaderPath(l)] = files[LoaderPath(l)] /\ files'[ConfigPath(l)] = files[ConfigPath(l)]
  <2>1. Turn(LoaderPath(l)) = 2 /\ Turn(ConfigPath(l)) = 3 BY PathRanks
  <2>2. h.path # LoaderPath(l) /\ h.path # ConfigPath(l) BY <1>7, <2>1
  <2>3. LoaderPath(l) \in DOMAIN files /\ ConfigPath(l) \in DOMAIN files BY DEF CodegenInd
  <2> HIDE DEF h
  <2> QED BY <2>2, <2>3, <1>2
<1>9. PICK loader, config :
        LET all == Range(Writes(i, loader, config))
        IN  /\ ~FixtureCollides(config, ClientsIn(i)) /\ "exports" \in DOMAIN loader
            /\ Range(w) \subseteq all
            /\ \A e \in all : \/ e.path \in Paths(w)
                              \/ /\ Landed(e.path, {})
                                 /\ \E f \in all : f.path = e.path /\ files[e.path] = f.content
  BY <1>5 DEF Delivered, InputOf
<1> DEFINE all == Range(Writes(i, loader, config))
<1>10. ASSUME NEW e \in all
       PROVE  /\ e.path \in DOMAIN files' \ torn'
              /\ \E f \in all : f.path = e.path /\ files'[e.path] = f.content
  <2>1. h \in all BY <1>6, <1>9
  <2>2. CASE e.path = h.path
    <3> HIDE DEF all, h
    <3> QED BY <2>1, <2>2, <1>2, <1>13
  <2>3. CASE e.path # h.path
    <3>1. e.path \notin Paths(w) BY <2>3, <1>6 DEF Paths
    <3>2. /\ Landed(e.path, {})
          /\ \E f \in all : f.path = e.path /\ files[e.path] = f.content
      BY <3>1, <1>9
    <3> HIDE DEF all, h
    <3> QED BY <2>3, <3>2, <1>2, <1>13 DEF Landed
  <2> QED BY <2>2, <2>3
<1>11. Ended(i, loader, config, files')
  <2>1. Done(all, files')
    <3> HIDE DEF all
    <3> QED BY <1>10 DEF Done
  <2> QED BY <1>9, <2>1 DEF Ended
<1>12. \E ld, cf : /\ Ended(i, ld, cf, files')
                   /\ Paths(Writes(i, ld, cf)) \subseteq DOMAIN files' \ torn'
  <2> WITNESS loader, config
  <2>1. \A p \in Paths(Writes(i, loader, config)) : p \in DOMAIN files' \ torn'
    BY <1>10 DEF Paths
  <2> QED BY <1>11, <2>1
<1> QED BY <1>2, <1>8, <1>12, <1>13

(* A call has the same files to write, whatever it has read. *)
LEMMA SamePaths ==
  ASSUME NEW i, InputShape(i), Creates(i), NEW l1, NEW c1, NEW l2, NEW c2
  PROVE  Paths(Writes(i, l1, c1)) \subseteq Paths(Writes(i, l2, c2))
<1> DEFINE own == CASE i.mode = "create" ->
                         {FileEntry(PagePath(p), PageFile(p, BarrelFor(i.schema, i.feature))) : p \in Range(OwnedPages(i))}
                         \cup (IF i.schema.spec.setup
                               THEN {FileEntry(SetupPath, AuthSetupFile(i.schema, i.feature))} ELSE {})
                    [] i.mode = "create_api" ->
                         {FileEntry(ClientPath(c), ClientFile(c)) : c \in Range(i.schema.clients)}
                         \cup {FileEntry(BuilderPath(b), BuilderFile(b)) : b \in Range(i.schema.builders)}
           data == IF HasExpected(i.schema.expected)
                   THEN {FileEntry(DataPath(i.feature), DOMAIN i.schema.expected)} ELSE {}
<1>1. ASSUME NEW l, NEW cf
      PROVE  Range(Writes(i, l, cf)) = own \cup data \cup LayerEntries(i, l, cf) \cup {SpecEntry(i)}
  <2>1. CASE i.mode = "create"
    <3>1. Range(Writes(i, l, cf)) =
              {FileEntry(PagePath(p), PageFile(p, BarrelFor(i.schema, i.feature))) : p \in Range(OwnedPages(i))}
              \cup LayerEntries(i, l, cf) \cup {SpecEntry(i)}
              \cup (IF i.schema.spec.setup
                    THEN {FileEntry(SetupPath, AuthSetupFile(i.schema, i.feature))} ELSE {})
              \cup data
      BY <2>1, CreateWritesAre
    <3>2. own = {FileEntry(PagePath(p), PageFile(p, BarrelFor(i.schema, i.feature))) : p \in Range(OwnedPages(i))}
                  \cup (IF i.schema.spec.setup
                        THEN {FileEntry(SetupPath, AuthSetupFile(i.schema, i.feature))} ELSE {})
      BY <2>1
    <3> HIDE DEF own, data
    <3> QED BY <3>1, <3>2
  <2>2. CASE i.mode = "create_api"
    <3>1. Range(Writes(i, l, cf)) =
              {FileEntry(ClientPath(c), ClientFile(c)) : c \in Range(i.schema.clients)}
              \cup {FileEntry(BuilderPath(b), BuilderFile(b)) : b \in Range(i.schema.builders)}
              \cup LayerEntries(i, l, cf) \cup {SpecEntry(i)} \cup data
      BY <2>2, ApiWritesAre
    <3>2. own = {FileEntry(ClientPath(c), ClientFile(c)) : c \in Range(i.schema.clients)}
                  \cup {FileEntry(BuilderPath(b), BuilderFile(b)) : b \in Range(i.schema.builders)}
      BY <2>2
    <3> HIDE DEF own, data
    <3> QED BY <3>1, <3>2
  <2> QED BY <2>1, <2>2 DEF Creates, Creating
<1> HIDE DEF own, data
<1>2. \A l, cf : \A e \in LayerEntries(i, l, cf) : e.path \in {LoaderPath(LayerOf(i)), ConfigPath(LayerOf(i))}
  BY EntryParts DEF LayerEntries
<1>3. {LoaderPath(LayerOf(i)), ConfigPath(LayerOf(i))} \subseteq Paths(Writes(i, l2, c2))
  <2>1. /\ FileEntry(LoaderPath(LayerOf(i)), NewLoader(i, l2)) \in Range(Writes(i, l2, c2))
        /\ FileEntry(ConfigPath(LayerOf(i)), NewConfig(i, c2)) \in Range(Writes(i, l2, c2))
    BY <1>1 DEF LayerEntries
  <2> QED BY <2>1, EntryParts DEF Paths
<1> SUFFICES ASSUME NEW e \in Range(Writes(i, l1, c1)) PROVE e.path \in Paths(Writes(i, l2, c2))
  BY DEF Paths
<1>4. CASE e \in LayerEntries(i, l1, c1) BY <1>2, <1>3, <1>4
<1>5. CASE e \notin LayerEntries(i, l1, c1)
  <2>1. e \in Range(Writes(i, l2, c2)) BY <1>1, <1>5
  <2> QED BY <2>1 DEF Paths
<1> QED BY <1>4, <1>5

(* Whatever the pages a test calls: the keys it reads are those it has.    *)
LEMMA KeysKnown ==
  ASSUME NEW expected, NEW exprs, ExpectedShapeFits(expected),
         \A expr \in exprs : ExpectedRefsFit(expr, expected)
  PROVE  /\ KeysIn(exprs) # {} => HasExpected(expected)
         /\ HasExpected(expected) => KeysIn(exprs) \subseteq DOMAIN expected
<1>1. ASSUME NEW key \in KeysIn(exprs) PROVE expected # None /\ key \in DOMAIN expected
  <2>1. PICK expr \in exprs : key \in expr.keys BY <1>1 DEF KeysIn
  <2> QED BY <2>1 DEF ExpectedRefsFit
<1> QED BY <1>1 DEF HasExpected

LEMMA DataWritten ==
  ASSUME NEW input, InputShape(input), Creates(input), NEW loader, NEW config, NEW fs,
         Ended(input, loader, config, fs), HasExpected(input.schema.expected)
  PROVE  /\ DataPath(input.feature) \in DOMAIN fs
         /\ fs[DataPath(input.feature)] = DOMAIN input.schema.expected
<1> DEFINE w == Writes(input, loader, config)
           d == DataPath(input.feature)
           e == FileEntry(d, DOMAIN input.schema.expected)
<1>0. LayerOf(input) \in Layers BY DEF LayerOf, Layers
<1>1. /\ e \in Range(w)
      /\ \A f \in Range(w) : f.path = d => f = e
  <2>1. \A p : PagePath(p) # d /\ ClientPath(p) # d /\ BuilderPath(p) # d BY PathRanks
  <2>2. \A l \in Layers : LoaderPath(l) # d /\ ConfigPath(l) # d /\ SpecPath(l, input.feature) # d
    BY PathRanks
  <2>3. SetupPath # d BY PathRanks
  <2>4. \A f \in LayerEntries(input, loader, config) \cup {SpecEntry(input)} : f.path # d
    BY <2>2, <1>0, EntryParts DEF LayerEntries, SpecEntry
  <2> DEFINE OwnCode == {FileEntry(PagePath(p), PageFile(p, BarrelFor(input.schema, input.feature))) :
                         p \in Range(OwnedPages(input))}
             Callees == {FileEntry(ClientPath(c), ClientFile(c)) : c \in Range(input.schema.clients)}
             Builders == {FileEntry(BuilderPath(b), BuilderFile(b)) : b \in Range(input.schema.builders)}
             Setup == FileEntry(SetupPath, AuthSetupFile(input.schema, input.feature))
  <2>5. \A f \in OwnCode \cup Callees \cup Builders : f.path # d BY <2>1, EntryParts
  <2>6. Setup.path # d BY <2>3, EntryParts
  <2>7. CASE input.mode = "create"
    <3>1. Range(w) = OwnCode \cup LayerEntries(input, loader, config) \cup {SpecEntry(input)}
                       \cup (IF input.schema.spec.setup THEN {Setup} ELSE {})
                       \cup (IF HasExpected(input.schema.expected) THEN {e} ELSE {})
      <4> HIDE DEF w
      <4> QED BY <2>7, CreateWritesAre DEF w
    <3> HIDE DEF w, d, e, OwnCode, Setup, Callees, Builders
    <3> QED BY <3>1, <2>4, <2>5, <2>6
  <2>8. CASE input.mode = "create_api"
    <3>1. Range(w) = Callees \cup Builders \cup LayerEntries(input, loader, config) \cup {SpecEntry(input)}
                       \cup (IF HasExpected(input.schema.expected) THEN {e} ELSE {})
      <4> HIDE DEF w
      <4> QED BY <2>8, ApiWritesAre DEF w
    <3> HIDE DEF w, d, e, OwnCode, Setup, Callees, Builders
    <3> QED BY <3>1, <2>4, <2>5
  <2> QED BY <2>7, <2>8 DEF Creates, Creating
<1>2. PICK f \in Range(w) : f.path = e.path /\ e.path \in DOMAIN fs /\ fs[e.path] = f.content
  <2> HIDE DEF e
  <2> QED BY <1>1 DEF Ended, Done
<1>3. e.path = d /\ e.content = DOMAIN input.schema.expected BY EntryParts
<1> HIDE DEF e, w, d
<1>4. f = e BY <1>1, <1>2, <1>3
<1> QED BY <1>2, <1>3, <1>4 DEF d

(* The page a fixture of a test leads to.                                  *)
LEMMA FixturePage ==
  ASSUME NEW schema, NEW feature, SchemaShape(schema), OwnedByFits(schema, feature),
         IsInjective([i \in DOMAIN schema.pages |-> FixtureOf(schema.pages[i].class)]),
         NEW fixture \in SpecFixtures(schema.spec), PageOf(schema, fixture) # None
  PROVE  /\ PageOf(schema, fixture) \in Range(schema.pages)
         /\ PageOf(schema, fixture).owner = feature
         /\ FixtureOf(PageOf(schema, fixture).class) = fixture
<1> DEFINE pages == schema.pages
           fixtures == [i \in DOMAIN pages |-> FixtureOf(pages[i].class)]
           given == {i \in DOMAIN pages : FixtureOf(pages[i].class) = fixture}
<1>1. DOMAIN pages = 1..Len(pages) /\ Len(pages) \in Nat BY DEF SchemaShape, IsSequence
<1>2. given # {} BY DEF PageOf
<1>3. PICK i \in DOMAIN pages : fixtures[i] = fixture BY <1>2
<1>4. \A j \in DOMAIN pages : fixtures[j] = fixtures[i] => j = i BY <1>3 DEF IsInjective
<1>5. given = {i} BY <1>3, <1>4
<1>6. Min(given) = i
  <2>1. i \in Nat BY <1>1
  <2> HIDE DEF given
  <2> QED BY <1>5, <2>1 DEF Min
<1>7. PageOf(schema, fixture) = pages[i] BY <1>2, <1>6 DEF PageOf
<1>8. \A j \in DOMAIN pages : j > i => fixtures[j] # fixtures[i] BY <1>1, <1>4
<1>9. fixtures[i] \in SpecFixtures(schema.spec)
      /\ (\A j \in DOMAIN pages : j > i => fixtures[j] # fixtures[i])
      => pages[i].owner = feature
  BY DEF OwnedByFits
<1>10. pages[i].owner = feature BY <1>3, <1>8, <1>9
<1> QED BY <1>3, <1>7, <1>10 DEF Range

LEMMA PageDelivered ==
  ASSUME NEW input, InputShape(input), Accepted(input), input.mode = "create",
         NEW loader, NEW config, NEW fs, Ended(input, loader, config, fs),
         IsInjective([i \in DOMAIN input.schema.pages |-> FixtureOf(input.schema.pages[i].class)]),
         NEW po \in Range(OwnedPages(input)),
         PathsOf(fs[LoaderPath("ui")], po.class) \subseteq {PagePath(po)},
         ClassesBound(fs[ConfigPath("ui")], FixtureOf(po.class)) \subseteq {po.class}
  PROVE  /\ ClassesBound(fs[ConfigPath("ui")], FixtureOf(po.class)) = {po.class}
         /\ PagePath(po) \in PathsOf(fs[LoaderPath("ui")], po.class)
         /\ PagePath(po) \in DOMAIN fs /\ fs[PagePath(po)].offers = PageMethods(po)
<1> DEFINE own == OwnedPages(input)
           schema == input.schema
           barrel == BarrelFor(schema, input.feature)
           has == input.mode = "create" /\ HasExpected(schema.expected)
           w == Writes(input, loader, config)
<1>1. /\ fs[LoaderPath("ui")] = NewLoader(input, loader) /\ fs[ConfigPath("ui")] = NewConfig(input, config)
  <2>1. LayerOf(input) = "ui" BY DEF LayerOf
  <2>2. Creates(input) BY DEF Creates, Creating
  <2> QED BY <2>1, <2>2, OnceWritten
<1>2. /\ NewLoader(input, loader) = WithPages(loader, own, input.feature, has)
      /\ NewConfig(input, config) = WithPageFixtures(config, own)
  <2>1. LayerOf(input) = "ui" /\ PagesIn(input) = own BY DEF LayerOf, PagesIn
  <2> HIDE DEF own, has
  <2>2. NewConfig(input, config) = WithPageFixtures(config, own) BY <2>1 DEF NewConfig
  <2>3. NewLoader(input, loader) = WithPages(loader, own, input.feature, has)
    BY <2>1 DEF NewLoader, has
  <2> QED BY <2>2, <2>3
<1>3. ClassesBound(fs[ConfigPath("ui")], FixtureOf(po.class)) = {po.class}
  <2>1. <<FixtureOf(po.class), po.class>> \in fs[ConfigPath("ui")]
    BY <1>1, <1>2 DEF WithPageFixtures
  <2>2. po.class \in ClassesBound(fs[ConfigPath("ui")], FixtureOf(po.class))
    BY <2>1 DEF ClassesBound
  <2> QED BY <2>2
<1>4. PagePath(po) \in PathsOf(fs[LoaderPath("ui")], po.class)
  <2> DEFINE known == {e[1] : e \in loader.exports}
             new == fs[LoaderPath("ui")]
  <2> HIDE DEF own, has
  <2>1. new.exports = loader.exports \cup {<<p.class, PagePath(p)>> : p \in {q \in Range(own) : q.class \notin known}}
    BY <1>1, <1>2 DEF WithPages
  <2>2. po \in Range(own) BY DEF own
  <2>3. CASE po.class \in known
    <3>1. PICK e \in loader.exports : e[1] = po.class BY <2>3
    <3>2. e[2] \in PathsOf(new, po.class) BY <3>1, <2>1 DEF PathsOf
    <3> QED BY <3>2
  <2>4. CASE po.class \notin known
    <3>1. <<po.class, PagePath(po)>> \in new.exports BY <2>1, <2>2, <2>4
    <3> HIDE DEF new
    <3>2. PagePath(po) \in PathsOf(new, po.class) BY <3>1 DEF PathsOf
    <3> QED BY <3>2 DEF new
  <2> QED BY <2>3, <2>4
<1>5. PagePath(po) \in DOMAIN fs /\ fs[PagePath(po)].offers = PageMethods(po)
  <2> DEFINE Of(p) == FileEntry(PagePath(p), PageFile(p, barrel))
             Others == LayerEntries(input, loader, config) \cup {SpecEntry(input)}
                         \cup (IF schema.spec.setup
                               THEN {FileEntry(SetupPath, AuthSetupFile(schema, input.feature))} ELSE {})
                         \cup (IF HasExpected(schema.expected)
                               THEN {FileEntry(DataPath(input.feature), DOMAIN schema.expected)} ELSE {})
  <2>1. Range(w) = {Of(p) : p \in Range(own)} \cup Others
    <3>1. Range(w) = {Of(p) : p \in Range(own)}
                       \cup LayerEntries(input, loader, config) \cup {SpecEntry(input)}
                       \cup (IF schema.spec.setup
                             THEN {FileEntry(SetupPath, AuthSetupFile(schema, input.feature))} ELSE {})
                       \cup (IF HasExpected(schema.expected)
                             THEN {FileEntry(DataPath(input.feature), DOMAIN schema.expected)} ELSE {})
      <4> HIDE DEF w
      <4> QED BY CreateWritesAre DEF w
    <3> QED BY <3>1
  <2>2. ASSUME NEW f \in Others PROVE Turn(f.path) # 1
    <3>1. LayerOf(input) \in Layers BY DEF LayerOf, Layers
    <3>2. f.path \in {LoaderPath(LayerOf(input)), ConfigPath(LayerOf(input)),
                      SpecPath(LayerOf(input), input.feature), SetupPath, DataPath(input.feature)}
      <4> HIDE DEF schema
      <4> QED BY EntryParts DEF LayerEntries, SpecEntry
    <3> QED BY <3>1, <3>2, PathRanks
  <2>3. PICK f \in Range(w) : f.path = Of(po).path /\ Of(po).path \in DOMAIN fs
                              /\ fs[Of(po).path] = f.content
    <3>1. Of(po) \in Range(w) BY <2>1
    <3> HIDE DEF w, Of
    <3> QED BY <3>1 DEF Ended, Done, w
  <2>4. Of(po).path = PagePath(po) /\ Turn(PagePath(po)) = 1 BY EntryParts, PathRanks
  <2>5. f \notin Others BY <2>2, <2>3, <2>4
  <2> HIDE DEF Others, w
  <2>6. PICK p \in Range(own) : f = Of(p) BY <2>1, <2>5
  <2>7. PagePath(p) = PagePath(po) /\ f.content = PageFile(p, barrel) BY <2>3, <2>4, <2>6, EntryParts
  <2>8. p.class = po.class BY <2>7 DEF PagePath
  <2>9. p = po
    <3>1. p \in Range(schema.pages) /\ po \in Range(schema.pages)
      BY <2>6, OwnedAre DEF InputShape, Appending, SchemaShape
    <3>2. PICK i \in DOMAIN schema.pages, j \in DOMAIN schema.pages : schema.pages[i] = p /\ schema.pages[j] = po
      BY <3>1 DEF Range
    <3> QED BY <2>8, <3>2 DEF IsInjective
  <2>10. fs[PagePath(po)] = PageFile(po, barrel) /\ PagePath(po) \in DOMAIN fs
    <3> HIDE DEF barrel
    <3> QED BY <2>3, <2>4, <2>7, <2>9
  <2> QED BY <2>10 DEF PageFile
<1> QED BY <1>3, <1>4, <1>5

(* What a test of an accepted schema calls and reads.                      *)
LEMMA TestsFit ==
  ASSUME NEW schema, NEW feature, SchemaShape(schema), Valid(schema, feature), feature \in Features
  PROVE  /\ \A call \in CallsOf(schema.spec) : BodyCallFits(schema, call)
         /\ SpecCompiles(SpecFile(schema, feature))
         /\ HasExpected(schema.expected) =>
              SpecFile(schema, feature).keys \subseteq DOMAIN schema.expected
<1> DEFINE asked == CallsOf(schema.spec)
           exprs == ArgsOf(asked)
           spec == SpecFile(schema, feature)
<1>1. \A call \in asked : BodyCallFits(schema, call) BY DEF Valid, CrossReferencesFit
<1>2. exprs = UNION {Range(call.args) : call \in asked} BY DEF ArgsOf
<1>3. \A e \in exprs : Parses(e)
  <2> TAKE e \in exprs
  <2>1. PICK call \in asked : e \in Range(call.args) BY <1>2
  <2>2. PICK i \in DOMAIN call.args : e = call.args[i] BY <2>1 DEF Range
  <2> QED BY <1>1, <2>1, <2>2 DEF BodyCallFits
<1>4. ExpectedShapeFits(schema.expected) /\ \A e \in exprs : ExpectedRefsFit(e, schema.expected)
  <2> DEFINE all == (UNION {AssertionArgs(po) : po \in Range(schema.pages)})
                      \cup UNION {Range(call.args) : call \in CallsOf(schema.spec)}
  <2>1. ExpectedShapeFits(schema.expected) /\ \A e \in all : ExpectedRefsFit(e, schema.expected)
    BY DEF Valid, ExpectedFits
  <2>2. exprs \subseteq all
    <3> DEFINE some == UNION {AssertionArgs(po) : po \in Range(schema.pages)}
               rest == UNION {Range(call.args) : call \in CallsOf(schema.spec)}
    <3>1. exprs = rest BY <1>2
    <3>2. all = some \cup rest OBVIOUS
    <3> HIDE DEF some, rest, exprs, all
    <3> QED BY <3>1, <3>2
  <2> HIDE DEF all, exprs
  <2> QED BY <2>1, <2>2
<1>5. /\ KeysIn(exprs) # {} => HasExpected(schema.expected)
      /\ HasExpected(schema.expected) => KeysIn(exprs) \subseteq DOMAIN schema.expected
  <2> HIDE DEF exprs
  <2> QED BY <1>4, KeysKnown
<1>6. /\ spec.keys = KeysIn(exprs) /\ spec.parses = (\A e \in exprs : Parses(e))
      /\ spec.imports = IF HasExpected(schema.expected) THEN DashCamelOf[feature] ELSE None
      /\ spec.builds = {} /\ spec.builders = {} /\ spec.captures = TRUE
      /\ spec.ids = [i \in DOMAIN schema.spec.cases |-> schema.spec.cases[i].id]
  BY DEF SpecFile
<1>7. IsInjective([i \in DOMAIN schema.spec.cases |-> schema.spec.cases[i].id])
  BY DEF Valid, CrossReferencesFit
<1>8. DashCamelOf[feature] # None BY NamesAssumption DEF Features
<1> HIDE DEF spec, exprs
<1>9. SpecCompiles(spec) BY <1>3, <1>5, <1>6, <1>7, <1>8 DEF SpecCompiles
<1> QED BY <1>1, <1>5, <1>6, <1>9 DEF spec

LEMMA CreatedRuns ==
  ASSUME NEW input, InputShape(input), Accepted(input), input.mode = "create",
         NEW loader, NEW config, NEW fs, Ended(input, loader, config, fs),
         HasExpected(input.schema.expected) =>
           /\ CamelOf[input.feature] = DashCamelOf[input.feature]
           /\ \A other \in fs[LoaderPath("ui")].data : <<input.feature, other>> \notin SaidInside,
         IsInjective([i \in DOMAIN input.schema.pages |-> FixtureOf(input.schema.pages[i].class)]),
         \A po \in Range(OwnedPages(input)) :
           /\ PathsOf(fs[LoaderPath("ui")], po.class) \subseteq {PagePath(po)}
           /\ ClassesBound(fs[ConfigPath("ui")], FixtureOf(po.class)) \subseteq {po.class}
  PROVE  Resolves(fs, "ui", input.feature)
<1> DEFINE schema == input.schema
           feature == input.feature
           own == OwnedPages(input)
           spec == SpecFile(schema, feature)
           has == input.mode = "create" /\ HasExpected(schema.expected)
<1>1. /\ SchemaShape(schema) /\ feature \in Features /\ Valid(schema, feature)
      /\ LayerOf(input) = "ui" /\ Creates(input)
  BY DEF InputShape, Features, Accepted, LayerOf, Creates, Creating, Appending
<1>2. /\ SpecPath("ui", feature) \in DOMAIN fs /\ fs[SpecPath("ui", feature)] = spec
      /\ fs[LoaderPath("ui")] = NewLoader(input, loader)
  <2>1. NewSpec(input) = spec BY DEF NewSpec
  <2> QED BY <1>1, <2>1, OnceWritten
<1>3. /\ \A call \in CallsOf(schema.spec) : BodyCallFits(schema, call)
      /\ SpecCompiles(spec)
      /\ HasExpected(schema.expected) => spec.keys \subseteq DOMAIN schema.expected
  BY <1>1, TestsFit
<1>4. /\ spec.asks = Asked(CallsOf(schema.spec)) /\ spec.builders = {}
      /\ spec.imports = IF HasExpected(schema.expected) THEN DashCamelOf[feature] ELSE None
  BY DEF SpecFile
<1>5. ASSUME NEW ask \in spec.asks PROVE AskResolves(fs, "ui", ask)
  <2>1. PICK call \in CallsOf(schema.spec) : ask = <<call.fixture, call.call, Len(call.args)>>
    BY <1>4, <1>5 DEF Asked
  <2> DEFINE po == PageOf(schema, call.fixture)
  <2>2. /\ po # None /\ <<call.call, Len(call.args)>> \in PageMethods(po)
    BY <1>3, <2>1 DEF BodyCallFits
  <2>3. call.fixture \in SpecFixtures(schema.spec) BY <2>1 DEF SpecFixtures
  <2>4. /\ po \in Range(schema.pages) /\ po.owner = feature /\ FixtureOf(po.class) = call.fixture
    <3>1. OwnedByFits(schema, feature) BY <1>1 DEF Valid, StructureFits
    <3> QED BY <1>1, <2>2, <2>3, <3>1, FixturePage
  <2>5. po \in Range(own) BY <1>1, <2>4, OwnedAre DEF SchemaShape
  <2> HIDE DEF po
  <2>6. /\ ClassesBound(fs[ConfigPath("ui")], FixtureOf(po.class)) = {po.class}
        /\ PagePath(po) \in PathsOf(fs[LoaderPath("ui")], po.class)
        /\ PagePath(po) \in DOMAIN fs /\ fs[PagePath(po)].offers = PageMethods(po)
    BY <2>5, PageDelivered, SMTT(30)
  <2>7. ask[1] = FixtureOf(po.class) /\ <<ask[2], ask[3]>> \in PageMethods(po)
    BY <2>1, <2>2, <2>4
  <2> QED BY <2>6, <2>7 DEF AskResolves
<1>6. KeysResolve(fs, "ui", spec.imports, spec.keys)
  <2>1. SUFFICES ASSUME spec.imports # None
        PROVE  \E f \in Features :
                 /\ f \in fs[LoaderPath("ui")].data /\ CamelOf[f] = spec.imports
                 /\ DataPath(f) \in DOMAIN fs
                 /\ spec.keys \subseteq fs[DataPath(f)]
    BY DEF KeysResolve
  <2>2. HasExpected(schema.expected) /\ spec.imports = DashCamelOf[feature] BY <1>4, <2>1
  <2>3. DataPath(feature) \in DOMAIN fs /\ fs[DataPath(feature)] = DOMAIN schema.expected
    BY <1>1, <2>2, DataWritten
  <2>4. feature \in fs[LoaderPath("ui")].data
    <3>1. PagesIn(input) = own BY DEF PagesIn
    <3> HIDE DEF own
    <3>2. NewLoader(input, loader) = WithPages(loader, own, feature, has)
      BY <1>1, <3>1 DEF NewLoader
    <3>3. has BY <2>2
    <3> HIDE DEF has
    <3> DEFINE said == \E other \in loader.data : other = feature \/ <<feature, other>> \in SaidInside
               new == fs[LoaderPath("ui")]
    <3>4. new.data = IF has /\ ~said THEN loader.data \cup {feature} ELSE loader.data
      BY <1>2, <3>2 DEF WithPages
    <3>5. CASE ~said BY <3>3, <3>4, <3>5
    <3>6. CASE said
      <4>1. PICK other \in loader.data : other = feature \/ <<feature, other>> \in SaidInside BY <3>6
      <4>2. other \in new.data BY <3>4, <4>1
      <4>3. <<feature, other>> \notin SaidInside BY <2>2, <4>2
      <4> QED BY <4>1, <4>2, <4>3
    <3> QED BY <3>5, <3>6
  <2>5. CamelOf[feature] = spec.imports BY <2>2
  <2>6. spec.keys \subseteq fs[DataPath(feature)] BY <1>3, <2>2, <2>3
  <2> QED BY <1>1, <2>3, <2>4, <2>5, <2>6
<1> HIDE DEF spec
<1> QED BY <1>2, <1>3, <1>4, <1>5, <1>6 DEF Resolves

(* The client a fixture of a test leads to: the only one that declares it. *)
LEMMA FixtureClient ==
  ASSUME NEW schema, ApiSchemaShape(schema), FixturesUnique(schema.clients),
         NEW fixture, ClientOf(schema, fixture) # None
  PROVE  /\ ClientOf(schema, fixture) \in Range(schema.clients)
         /\ fixture \in Range(ClientOf(schema, fixture).fixtures)
         /\ \A client \in Range(schema.clients) :
              fixture \in Range(client.fixtures) => client = ClientOf(schema, fixture)
<1> DEFINE clients == schema.clients
           given == {i \in DOMAIN clients : fixture \in Range(clients[i].fixtures)}
           places == UNION {{<<i, k>> : k \in DOMAIN clients[i].fixtures} : i \in DOMAIN clients}
<1>1. DOMAIN clients = 1..Len(clients) /\ Len(clients) \in Nat BY DEF ApiSchemaShape, IsSequence
<1>2. given # {} BY DEF ClientOf
<1>3. PICK i \in DOMAIN clients : fixture \in Range(clients[i].fixtures) BY <1>2
<1>4. ASSUME NEW j \in DOMAIN clients, fixture \in Range(clients[j].fixtures) PROVE j = i
  <2>1. PICK k \in DOMAIN clients[i].fixtures : clients[i].fixtures[k] = fixture BY <1>3 DEF Range
  <2>2. PICK l \in DOMAIN clients[j].fixtures : clients[j].fixtures[l] = fixture BY <1>4 DEF Range
  <2> DEFINE p == <<i, k>>
             q == <<j, l>>
  <2>3. p \in places /\ q \in places BY <2>1, <2>2
  <2>4. \A r, s \in places :
          clients[r[1]].fixtures[r[2]] = clients[s[1]].fixtures[s[2]] => r = s
    BY DEF FixturesUnique
  <2> HIDE DEF places
  <2>5. p[1] = i /\ p[2] = k /\ q[1] = j /\ q[2] = l OBVIOUS
  <2> HIDE DEF p, q
  <2>6. p = q BY <2>1, <2>2, <2>3, <2>4, <2>5
  <2> QED BY <2>5, <2>6
<1>5. given = {i} BY <1>3, <1>4
<1>6. Min(given) = i
  <2>1. i \in Nat BY <1>1
  <2> HIDE DEF given
  <2> QED BY <1>5, <2>1 DEF Min
<1>7. ClientOf(schema, fixture) = clients[i] BY <1>2, <1>6 DEF ClientOf
<1>8. \A client \in Range(clients) : fixture \in Range(client.fixtures) => client = clients[i]
  BY <1>4 DEF Range
<1> QED BY <1>3, <1>7, <1>8 DEF Range

(* The fixture of a client is bound to its class, and to no other.         *)
LEMMA FixtureBound ==
  ASSUME NEW input, input.mode = "create_api", NEW config,
         ~FixtureCollides(config, ClientsIn(input)),
         NEW client \in Range(input.schema.clients), NEW fixture \in Range(client.fixtures),
         \A other \in Range(input.schema.clients) : fixture \in Range(other.fixtures) => other = client,
         input.schema.spec.auth => \A e \in AuthFixtures : e[1] # fixture
  PROVE  ClassesBound(NewConfig(input, config), fixture) = {client.class}
<1> DEFINE clients == input.schema.clients
           given == FixturesOf(clients)
           new == NewConfig(input, config)
           entry == <<fixture, client.class>>
<1>1. ClientsIn(input) = clients /\ LayerOf(input) # "ui" BY DEF ClientsIn, LayerOf
<1>2. entry \in given BY DEF FixturesOf
<1>3. ASSUME NEW e \in given, e[1] = fixture PROVE e[2] = client.class
  <2>1. PICK c \in Range(clients) : \E f \in Range(c.fixtures) : e = <<f, c.class>>
    BY <1>3 DEF FixturesOf
  <2>2. fixture \in Range(c.fixtures) /\ e[2] = c.class BY <2>1, <1>3
  <2> QED BY <2>1, <2>2
<1>4. ASSUME NEW old \in config, old[1] = fixture PROVE old[2] = client.class
  <2>1. ~(old[1] = entry[1] /\ old[2] # entry[2])
    <3> HIDE DEF given, entry
    <3> QED BY <1>1, <1>2 DEF FixtureCollides, given
  <2>2. entry[1] = fixture /\ entry[2] = client.class OBVIOUS
  <2> HIDE DEF entry
  <2> QED BY <2>1, <2>2, <1>4
<1> DEFINE mid == WithClientFixtures(config, clients)
<1>5. new = WithAuth(mid, input.schema.spec.auth) BY <1>1 DEF NewConfig
<1>6. mid = config \cup {e \in given : \A old \in config : old[1] # e[1]}
  BY DEF WithClientFixtures
<1>7. mid \subseteq new /\ \A e \in new : e \in mid \/ (input.schema.spec.auth /\ e \in AuthFixtures)
  <2> HIDE DEF mid
  <2> QED BY <1>5 DEF WithAuth
<1>8. \A e \in new : e[1] = fixture => e[2] = client.class
  <2> TAKE e \in new
  <2> HAVE e[1] = fixture
  <2>1. e \in mid BY <1>7
  <2> QED BY <2>1, <1>3, <1>4, <1>6
<1>9. \E e \in new : e[1] = fixture
  <2>1. CASE \E old \in config : old[1] = fixture BY <2>1, <1>6, <1>7
  <2>2. CASE \A old \in config : old[1] # fixture
    <3>1. entry[1] = fixture OBVIOUS
    <3> HIDE DEF entry, given
    <3>2. entry \in mid BY <2>2, <3>1, <1>2, <1>6
    <3> QED BY <3>1, <3>2, <1>7
  <2> QED BY <2>1, <2>2
<1> HIDE DEF new
<1> QED BY <1>8, <1>9 DEF ClassesBound, new

(* The code of the API layer: each file in the version of its only client, *)
(* or of one of the builders it is for.                                    *)
LEMMA ApiCodeDelivered ==
  ASSUME NEW input, InputShape(input), input.mode = "create_api",
         NEW loader, NEW config, NEW fs, Ended(input, loader, config, fs),
         IsInjective([i \in DOMAIN input.schema.clients |-> input.schema.clients[i].class])
  PROVE  /\ \A client \in Range(input.schema.clients) :
              ClientPath(client) \in DOMAIN fs /\ fs[ClientPath(client)] = ClientFile(client)
         /\ \A builder \in Range(input.schema.builders) :
              /\ BuilderPath(builder) \in DOMAIN fs
              /\ \E other \in Range(input.schema.builders) :
                   fs[BuilderPath(builder)] = BuilderFile(other)
<1> DEFINE schema == input.schema
           OfC(c) == FileEntry(ClientPath(c), ClientFile(c))
           OfB(b) == FileEntry(BuilderPath(b), BuilderFile(b))
           Others == LayerEntries(input, loader, config) \cup {SpecEntry(input)}
                       \cup (IF HasExpected(schema.expected)
                             THEN {FileEntry(DataPath(input.feature), DOMAIN schema.expected)} ELSE {})
           w == Writes(input, loader, config)
<1>1. Range(w) = {OfC(c) : c \in Range(schema.clients)} \cup {OfB(b) : b \in Range(schema.builders)} \cup Others
  <2>1. Range(w) = {OfC(c) : c \in Range(schema.clients)} \cup {OfB(b) : b \in Range(schema.builders)}
                     \cup LayerEntries(input, loader, config) \cup {SpecEntry(input)}
                     \cup (IF HasExpected(schema.expected)
                           THEN {FileEntry(DataPath(input.feature), DOMAIN schema.expected)} ELSE {})
    <3> HIDE DEF w
    <3> QED BY ApiWritesAre DEF w
  <2> QED BY <2>1
<1>2. ASSUME NEW f \in Others PROVE Turn(f.path) # 1
  <2>1. LayerOf(input) \in Layers BY DEF LayerOf, Layers
  <2>2. f.path \in {LoaderPath(LayerOf(input)), ConfigPath(LayerOf(input)),
                    SpecPath(LayerOf(input), input.feature), DataPath(input.feature)}
    <3> HIDE DEF schema
    <3> QED BY EntryParts DEF LayerEntries, SpecEntry
  <2> QED BY <2>1, <2>2, PathRanks
<1>3. ASSUME NEW e \in Range(w)
      PROVE  \E f \in Range(w) : f.path = e.path /\ e.path \in DOMAIN fs /\ fs[e.path] = f.content
  <2> HIDE DEF w
  <2> QED BY <1>3 DEF Ended, Done, w
<1>4. \A c : OfC(c).path = ClientPath(c) /\ OfC(c).content = ClientFile(c)
             /\ ClientPath(c)[1] = "clients" /\ Turn(ClientPath(c)) = 1
  BY EntryParts, PathRanks
<1>5. \A b : OfB(b).path = BuilderPath(b) /\ OfB(b).content = BuilderFile(b)
             /\ BuilderPath(b)[1] = "builders" /\ Turn(BuilderPath(b)) = 1
  BY EntryParts, PathRanks
<1> HIDE DEF w, OfC, OfB, Others
<1>6. ASSUME NEW client \in Range(schema.clients)
      PROVE  ClientPath(client) \in DOMAIN fs /\ fs[ClientPath(client)] = ClientFile(client)
  <2>1. OfC(client) \in Range(w) BY <1>1
  <2>2. PICK f \in Range(w) : f.path = ClientPath(client) /\ ClientPath(client) \in DOMAIN fs
                              /\ fs[ClientPath(client)] = f.content
    BY <2>1, <1>3, <1>4
  <2>3. PICK c \in Range(schema.clients) : f = OfC(c)
    BY <2>2, <1>1, <1>2, <1>4, <1>5
  <2>4. ClientPath(c) = ClientPath(client) BY <2>2, <2>3, <1>4
  <2>5. c.class = client.class BY <2>4 DEF ClientPath
  <2>6. c = client
    <3>1. PICK i \in DOMAIN schema.clients, j \in DOMAIN schema.clients :
            schema.clients[i] = c /\ schema.clients[j] = client
      BY <2>3, <1>6 DEF Range
    <3> QED BY <3>1, <2>5 DEF IsInjective
  <2> QED BY <2>2, <2>3, <2>6, <1>4
<1>7. ASSUME NEW builder \in Range(schema.builders)
      PROVE  /\ BuilderPath(builder) \in DOMAIN fs
             /\ \E other \in Range(schema.builders) : fs[BuilderPath(builder)] = BuilderFile(other)
  <2>1. OfB(builder) \in Range(w) BY <1>1
  <2>2. PICK f \in Range(w) : f.path = BuilderPath(builder) /\ BuilderPath(builder) \in DOMAIN fs
                              /\ fs[BuilderPath(builder)] = f.content
    BY <2>1, <1>3, <1>5
  <2>3. PICK b \in Range(schema.builders) : f = OfB(b)
    BY <2>2, <1>1, <1>2, <1>4, <1>5
  <2> QED BY <2>2, <2>3, <1>5
<1> QED BY <1>6, <1>7

LEMMA ApiTestsFit ==
  ASSUME NEW schema, NEW feature, ApiSchemaShape(schema), ApiValid(schema, feature),
         feature \in Features,
         Constructed(ApiCalls(schema.spec.cases)) \subseteq Classes(schema.builders)
  PROVE  /\ \A call \in ApiCalls(schema.spec.cases) : ApiCallFits(schema, call)
         /\ SpecCompiles(ApiSpecFile(schema, feature))
         /\ HasExpected(schema.expected) =>
              ApiSpecFile(schema, feature).keys \subseteq DOMAIN schema.expected
<1> DEFINE cases == schema.spec.cases
           asked == ApiCalls(cases)
           exprs == UNION {Range(c.args) \cup AssertsOf(c) : c \in asked}
           spec == ApiSpecFile(schema, feature)
<1>1. \A call \in asked : ApiCallFits(schema, call) BY DEF ApiValid, ApiCrossReferencesFit
<1>2. \A e \in exprs : \E call \in asked : e \in Range(call.args) \cup AssertsOf(call) OBVIOUS
<1>3. \A e \in exprs : Parses(e)
  <2> TAKE e \in exprs
  <2>1. PICK call \in asked : e \in Range(call.args) \cup AssertsOf(call) BY <1>2
  <2>2. ApiCallFits(schema, call) BY <1>1, <2>1
  <2> QED BY <2>1, <2>2 DEF ApiCallFits
<1>4. ExpectedShapeFits(schema.expected) /\ \A e \in exprs : ExpectedRefsFit(e, schema.expected)
  <2>1. ExpectedShapeFits(schema.expected) BY DEF ApiValid, ApiExpectedFits
  <2>2. \A call \in asked : \A e \in Range(call.args) \cup AssertsOf(call) : ExpectedRefsFit(e, schema.expected)
    BY DEF ApiValid, ApiExpectedFits
  <2> HIDE DEF exprs, asked
  <2> QED BY <2>1, <2>2, <1>2
<1>5. /\ KeysIn(exprs) # {} => HasExpected(schema.expected)
      /\ HasExpected(schema.expected) => KeysIn(exprs) \subseteq DOMAIN schema.expected
  <2> HIDE DEF exprs
  <2> QED BY <1>4, KeysKnown
<1>6. /\ spec.keys = KeysIn(exprs) /\ spec.parses = (\A e \in exprs : Parses(e))
      /\ spec.imports = IF HasExpected(schema.expected) THEN feature ELSE None
      /\ spec.builds = Constructed(asked)
      /\ spec.builders = Constructed(asked) \cap Classes(schema.builders)
      /\ spec.captures = (\A i \in DOMAIN cases : NamesDistinct(cases[i].body))
      /\ spec.ids = [i \in DOMAIN cases |-> cases[i].id]
  BY DEF ApiSpecFile
<1>7. /\ IsInjective([i \in DOMAIN cases |-> cases[i].id])
      /\ \A i \in DOMAIN cases : NamesDistinct(cases[i].body)
  BY DEF ApiValid, ApiCrossReferencesFit, CapturesFit
<1>8. feature # None BY NamesAssumption DEF Features
<1>9. spec.builds \subseteq spec.builders BY <1>6
<1> HIDE DEF spec, exprs, cases, asked
<1>10. SpecCompiles(spec) BY <1>3, <1>5, <1>6, <1>7, <1>8, <1>9 DEF SpecCompiles
<1> QED BY <1>1, <1>5, <1>6, <1>10 DEF spec, asked, cases

LEMMA ApiCreatedRuns ==
  ASSUME NEW input, InputShape(input), Accepted(input), input.mode = "create_api",
         NEW loader, NEW config, NEW fs, Ended(input, loader, config, fs),
         \A builder \in Range(input.schema.builders) :
           builder.client = None \/ <<"clients", builder.client>> \in DOMAIN fs,
         Constructed(ApiCalls(input.schema.spec.cases)) \subseteq Classes(input.schema.builders),
         input.schema.spec.auth => \A client \in Range(input.schema.clients), e \in AuthFixtures :
                                     e[1] \notin Range(client.fixtures)
  PROVE  Resolves(fs, "api", input.feature)
<1> DEFINE schema == input.schema
           feature == input.feature
           spec == ApiSpecFile(schema, feature)
<1>1. /\ ApiSchemaShape(schema) /\ feature \in Features /\ ApiValid(schema, feature)
      /\ LayerOf(input) = "api" /\ Creates(input) /\ ClientsIn(input) = schema.clients
  BY DEF InputShape, Features, Accepted, LayerOf, Creates, Creating, Appending, ClientsIn
<1>2. /\ SpecPath("api", feature) \in DOMAIN fs /\ fs[SpecPath("api", feature)] = spec
      /\ fs[LoaderPath("api")] = NewLoader(input, loader)
      /\ fs[ConfigPath("api")] = NewConfig(input, config)
  <2>1. NewSpec(input) = spec BY DEF NewSpec
  <2> QED BY <1>1, <2>1, OnceWritten
<1>3. /\ \A call \in ApiCalls(schema.spec.cases) : ApiCallFits(schema, call)
      /\ SpecCompiles(spec)
      /\ HasExpected(schema.expected) => spec.keys \subseteq DOMAIN schema.expected
  BY <1>1, ApiTestsFit
<1>4. /\ spec.asks = Asked(ApiCalls(schema.spec.cases))
      /\ spec.builders \subseteq Classes(schema.builders)
      /\ spec.imports = IF HasExpected(schema.expected) THEN feature ELSE None
  BY DEF ApiSpecFile
<1>5. ClientsFit(schema, feature) BY <1>1 DEF ApiValid
<1>6. /\ FixturesUnique(schema.clients)
      /\ IsInjective([i \in DOMAIN schema.clients |-> schema.clients[i].class])
  BY <1>5 DEF ClientsFit
<1>7. /\ \A client \in Range(schema.clients) :
           ClientPath(client) \in DOMAIN fs /\ fs[ClientPath(client)] = ClientFile(client)
      /\ \A builder \in Range(schema.builders) :
           /\ BuilderPath(builder) \in DOMAIN fs
           /\ \E other \in Range(schema.builders) : fs[BuilderPath(builder)] = BuilderFile(other)
  BY <1>6, ApiCodeDelivered
<1>8. ASSUME NEW ask \in spec.asks PROVE AskResolves(fs, "api", ask)
  <2>1. PICK call \in ApiCalls(schema.spec.cases) : ask = <<call.fixture, call.call, Len(call.args)>>
    BY <1>4, <1>8 DEF Asked
  <2> DEFINE client == ClientOf(schema, call.fixture)
  <2>2. client # None /\ <<call.call, Len(call.args)>> \in ClientMethods(client)
    BY <1>3, <2>1 DEF ApiCallFits
  <2>3. /\ client \in Range(schema.clients) /\ call.fixture \in Range(client.fixtures)
        /\ \A other \in Range(schema.clients) : call.fixture \in Range(other.fixtures) => other = client
    BY <1>1, <1>6, <2>2, FixtureClient
  <2> HIDE DEF client
  <2>4. ClassesBound(fs[ConfigPath("api")], call.fixture) = {client.class}
    <3>1. ~FixtureCollides(config, ClientsIn(input)) BY DEF Ended
    <3>2. schema.spec.auth => \A e \in AuthFixtures : e[1] # call.fixture BY <2>3
    <3> QED BY <1>2, <2>3, <3>1, <3>2, FixtureBound
  <2>5. ClientPath(client) \in PathsOf(fs[LoaderPath("api")], client.class)
    <3>1. "exports" \in DOMAIN loader BY DEF Ended
    <3>2. NewLoader(input, loader).exports =
            loader.exports \cup {<<c.class, ClientPath(c)>> : c \in Range(schema.clients)}
      BY <1>1, <3>1, NewLoaderIs
    <3>3. <<client.class, ClientPath(client)>> \in fs[LoaderPath("api")].exports
      BY <1>2, <2>3, <3>2
    <3> QED BY <3>3 DEF PathsOf
  <2>6. ClientPath(client) \in DOMAIN fs /\ fs[ClientPath(client)].offers = ClientMethods(client)
    <3>1. ClientFile(client).offers = ClientMethods(client) BY DEF ClientFile
    <3> QED BY <1>7, <2>3, <3>1
  <2>7. ask[1] = call.fixture /\ <<ask[2], ask[3]>> \in ClientMethods(client) BY <2>1, <2>2
  <2> QED BY <2>4, <2>5, <2>6, <2>7 DEF AskResolves
<1>9. KeysResolve(fs, "api", spec.imports, spec.keys)
  <2>1. SUFFICES ASSUME spec.imports # None
        PROVE  \E f \in Features :
                 /\ f = spec.imports
                 /\ DataPath(f) \in DOMAIN fs
                 /\ spec.keys \subseteq fs[DataPath(f)]
    BY DEF KeysResolve
  <2>2. HasExpected(schema.expected) /\ spec.imports = feature BY <1>4, <2>1
  <2>3. DataPath(feature) \in DOMAIN fs /\ fs[DataPath(feature)] = DOMAIN schema.expected
    BY <1>1, <2>2, DataWritten
  <2>4. spec.keys \subseteq fs[DataPath(feature)] BY <1>3, <2>2, <2>3
  <2> QED BY <1>1, <2>2, <2>3, <2>4
<1>10. ASSUME NEW class \in spec.builders PROVE BuilderResolves(fs, class)
  <2>1. PICK b \in Range(schema.builders) : b.class = class BY <1>4, <1>10 DEF Classes
  <2>2. BuilderPath(b) = <<"builders", class>> BY <2>1 DEF BuilderPath
  <2>3. PICK other \in Range(schema.builders) :
          /\ <<"builders", class>> \in DOMAIN fs
          /\ fs[<<"builders", class>>] = BuilderFile(other)
    BY <1>7, <2>1, <2>2
  <2>4. fs[<<"builders", class>>].client = other.client BY <2>3 DEF BuilderFile
  <2> QED BY <2>3, <2>4 DEF BuilderResolves
<1> HIDE DEF spec
<1> QED BY <1>2, <1>3, <1>8, <1>9, <1>10 DEF Resolves

LEMMA EndsResolvedStep ==
  ASSUME CodegenInd, DiskInd, AloneInd, [FilesNext]_filesVars, NEW c \in Callers,
         Ends(c), ~doing[c].met, Creates(InputOf(c)), ~Mistaken(InputOf(c)),
         notes[c].cut = {}, ~Lame(InputOf(c))
  PROVE  Runs(files', torn', LayerOf(InputOf(c)), InputOf(c).feature)
<1>0. PICK input : input = InputOf(c) OBVIOUS
<1>1. Write(c) /\ Len(doing[c].writes) = 1 /\ doing[c].pc = "write" BY EndsWrites DEF Ends
<1>2. InputShape(input) /\ Accepted(input) /\ LayerOf(input) \in Layers /\ ~Appends(input)
  <2>1. CallTyped(doing[c]) BY DEF CodegenInd
  <2>2. Busy(c) BY <1>1 DEF Busy
  <2> QED BY <1>0, <2>1, <2>2, InputKnown DEF Creates, Creating, Appends, Appending
<1>3. /\ \E loader, config :
           /\ Ended(input, loader, config, files')
           /\ Paths(Writes(input, loader, config)) \subseteq DOMAIN files' \ torn'
      /\ \A l \in Layers : /\ files'[LoaderPath(l)] = files[LoaderPath(l)]
                           /\ files'[ConfigPath(l)] = files[ConfigPath(l)]
      /\ DOMAIN files \subseteq DOMAIN files' /\ torn' \subseteq torn
  BY <1>0, <1>1, EndDelivers
<1>4. PICK loader, config :
        /\ Ended(input, loader, config, files')
        /\ Paths(Writes(input, loader, config)) \subseteq DOMAIN files' \ torn'
  BY <1>3
<1> DEFINE layer == LayerOf(input)
           whole == DOMAIN files' \ torn'
           spec == files'[SpecPath(layer, input.feature)]
<1>5. \A path \in DOMAIN files \ torn : path \in whole BY <1>3
<1>6. ASSUME NEW path \in Exported(files'[LoaderPath(layer)]) PROVE path \in whole
  <2> DEFINE old == files[LoaderPath(layer)]
             own == {e.path : e \in Range(Writes(input, old, files[ConfigPath(layer)]))}
  <2>1. path \in Exported(old) BY <1>2, <1>3, <1>6
  <2>2. path \in own \/ path \in DOMAIN files \ torn
    <3>1. ~Lame(input) BY <1>0
    <3> QED BY <2>1, <3>1 DEF Lame
  <2>3. own \subseteq Paths(Writes(input, loader, config))
    <3>1. own = Paths(Writes(input, old, files[ConfigPath(layer)])) BY DEF Paths
    <3>2. Creates(input) BY <1>0
    <3> HIDE DEF own, old
    <3> QED BY <1>2, <3>1, <3>2, SamePaths
  <2> HIDE DEF own, whole
  <2> QED BY <1>4, <1>5, <2>2, <2>3 DEF whole
<1>7. /\ {LoaderPath(layer), ConfigPath(layer), SpecPath(layer, input.feature)} \subseteq whole
      /\ \A path \in CodePaths(input) : path \in whole
  <2> DEFINE w == Writes(input, loader, config)
  <2>1. /\ FileEntry(LoaderPath(layer), NewLoader(input, loader)) \in Range(w)
        /\ FileEntry(ConfigPath(layer), NewConfig(input, config)) \in Range(w)
        /\ SpecEntry(input) \in Range(w)
        /\ \A path \in CodePaths(input) : \E e \in Range(w) : e.path = path
    BY <1>0, <1>2, WritesAre DEF LayerEntries
  <2> HIDE DEF w
  <2>2. /\ {LoaderPath(layer), ConfigPath(layer), SpecPath(layer, input.feature)} \subseteq Paths(w)
        /\ \A path \in CodePaths(input) : path \in Paths(w)
    BY <2>1, EntryParts DEF Paths, SpecEntry
  <2> QED BY <1>4, <2>2 DEF w
<1>8. CASE input.mode = "create"
  <2>1. ~MistakenPages(input) BY <1>0, <1>8 DEF Mistaken
  <2>2. /\ files'[LoaderPath("ui")] = files[LoaderPath("ui")]
        /\ files'[ConfigPath("ui")] = files[ConfigPath("ui")]
    BY <1>3 DEF Layers
  <2>3. layer = "ui" BY <1>8 DEF LayerOf
  <2>4. HasExpected(input.schema.expected) =>
           /\ CamelOf[input.feature] = DashCamelOf[input.feature]
           /\ \A other \in files'[LoaderPath("ui")].data : <<input.feature, other>> \notin SaidInside
    BY <2>1, <2>2 DEF MistakenPages
  <2>5. IsInjective([i \in DOMAIN input.schema.pages |-> FixtureOf(input.schema.pages[i].class)])
    BY <2>1 DEF MistakenPages
  <2>6. \A po \in Range(OwnedPages(input)) :
           /\ PathsOf(files'[LoaderPath("ui")], po.class) \subseteq {PagePath(po)}
           /\ ClassesBound(files'[ConfigPath("ui")], FixtureOf(po.class)) \subseteq {po.class}
    BY <2>1, <2>2 DEF MistakenPages
  <2>7. Resolves(files', "ui", input.feature)
    BY <1>2, <1>4, <1>8, <2>4, <2>5, <2>6, CreatedRuns
  <2>8. spec.builders = {}
    <3>1. spec = NewSpec(input) BY <1>0, <1>2, <1>4, OnceWritten
    <3> QED BY <1>8, <3>1 DEF NewSpec, SpecFile
  <2>9. Needed(files', layer, input.feature) \subseteq whole
    <3>1. Needed(files', layer, input.feature) =
            {SpecPath(layer, input.feature), LoaderPath(layer), ConfigPath(layer)}
              \cup Exported(files'[LoaderPath(layer)])
      BY <2>3, <2>8 DEF Needed
    <3> HIDE DEF whole
    <3> QED BY <1>6, <1>7, <3>1
  <2> QED BY <1>0, <2>3, <2>7, <2>9 DEF Runs
<1>9. CASE input.mode = "create_api"
  <2> DEFINE schema == input.schema
  <2>1. ~MistakenClients(input) BY <1>0, <1>9 DEF Mistaken
  <2>2. layer = "api" BY <1>9 DEF LayerOf
  <2>3. \A builder \in Range(schema.builders) :
           builder.client = None \/ <<"clients", builder.client>> \in DOMAIN files \ torn
    BY <2>1 DEF MistakenClients
  <2>4. /\ Constructed(ApiCalls(schema.spec.cases)) \subseteq Classes(schema.builders)
        /\ schema.spec.auth => \A client \in Range(schema.clients), e \in AuthFixtures :
                                       e[1] \notin Range(client.fixtures)
    BY <2>1 DEF MistakenClients
  <2>5. Resolves(files', "api", input.feature)
    <3>1. \A builder \in Range(schema.builders) :
           builder.client = None \/ <<"clients", builder.client>> \in DOMAIN files'
      BY <1>3, <2>3
    <3> QED BY <1>2, <1>4, <1>9, <2>4, <3>1, ApiCreatedRuns
  <2>6. spec = ApiSpecFile(schema, input.feature)
    <3>1. spec = NewSpec(input) BY <1>0, <1>2, <1>4, OnceWritten
    <3> QED BY <1>9, <3>1 DEF NewSpec
  <2>7. /\ spec.builders \subseteq Classes(schema.builders)
        /\ spec.imports = IF HasExpected(schema.expected) THEN input.feature ELSE None
    BY <2>6 DEF ApiSpecFile
  <2>8. \A builder \in Range(schema.builders) :
          /\ BuilderPath(builder) \in CodePaths(input)
          /\ \E other \in Range(schema.builders) : files'[BuilderPath(builder)].client = other.client
    <3>1. BuildersIn(input) = schema.builders BY <1>9 DEF BuildersIn
    <3>2. IsInjective([i \in DOMAIN schema.clients |-> schema.clients[i].class])
      BY <1>2, <1>9 DEF Accepted, ApiValid, ClientsFit
    <3>3. \A builder \in Range(schema.builders) :
            \E other \in Range(schema.builders) : files'[BuilderPath(builder)] = BuilderFile(other)
      BY <1>2, <1>4, <1>9, <3>2, ApiCodeDelivered
    <3>4. \A builder \in Range(schema.builders) : BuilderPath(builder) \in CodePaths(input)
      BY <3>1 DEF CodePaths
    <3>5. ASSUME NEW builder \in Range(schema.builders)
          PROVE  \E other \in Range(schema.builders) : files'[BuilderPath(builder)].client = other.client
      <4>1. PICK other \in Range(schema.builders) : files'[BuilderPath(builder)] = BuilderFile(other)
        BY <3>3
      <4>2. files'[BuilderPath(builder)].client = other.client BY <4>1 DEF BuilderFile
      <4> QED BY <4>2
    <3> QED BY <3>4, <3>5
  <2>9. ASSUME NEW class \in spec.builders
        PROVE  /\ <<"builders", class>> \in whole
               /\ LET client == files'[<<"builders", class>>].client
                  IN  client # None => <<"clients", client>> \in whole
    <3>1. PICK b \in Range(schema.builders) : b.class = class BY <2>7, <2>9 DEF Classes
    <3>2. BuilderPath(b) = <<"builders", class>> BY <3>1 DEF BuilderPath
    <3>3. PICK other \in Range(schema.builders) : files'[<<"builders", class>>].client = other.client
      BY <2>8, <3>2
    <3> HIDE DEF whole, spec
    <3> QED BY <1>5, <1>7, <2>3, <2>8, <3>2, <3>3
  <2>10. spec.imports # None => DataPath(spec.imports) \in whole
    <3> SUFFICES ASSUME spec.imports # None PROVE DataPath(spec.imports) \in whole OBVIOUS
    <3>1. HasExpected(schema.expected) /\ spec.imports = input.feature BY <2>7
    <3>2. DataPath(input.feature) \in Paths(Writes(input, loader, config))
      BY <1>0, <1>2, <3>1, ExpectedIsWritten
    <3> QED BY <1>4, <3>1, <3>2
  <2>11. Needed(files', layer, input.feature) \subseteq whole
    <3> DEFINE built == {<<"builders", class>> : class \in spec.builders}
               clients == {files'[path].client : path \in built} \ {None}
    <3>1. Needed(files', layer, input.feature) =
            {SpecPath(layer, input.feature), LoaderPath(layer), ConfigPath(layer)}
              \cup Exported(files'[LoaderPath(layer)])
              \cup built \cup {<<"clients", client>> : client \in clients}
              \cup (IF spec.imports # None THEN {DataPath(spec.imports)} ELSE {})
      BY <2>2 DEF Needed
    <3>2. \A path \in built : path \in whole BY <2>9
    <3>3. ASSUME NEW client \in clients PROVE <<"clients", client>> \in whole
      <4>1. PICK class \in spec.builders : client = files'[<<"builders", class>>].client /\ client # None
        OBVIOUS
      <4> QED BY <2>9, <4>1
    <3> HIDE DEF whole, spec, built, clients
    <3> QED BY <1>6, <1>7, <2>10, <3>1, <3>2, <3>3
  <2> QED BY <1>0, <2>2, <2>5, <2>11 DEF Runs
<1> QED BY <1>0, <1>8, <1>9 DEF Creates, Creating

(* For any inputs, callers and bounds: a create that comes to its end with   *)
(* no other call beside it leaves a spec that runs, whatever calls that were *)
(* cut short have left, half a file of the feature's own among it, but for a *)
(* loader or a config it read torn, another feature's file that the loader   *)
(* takes up, and the mistakes MistakenPages and MistakenClients name         *)
(* (generator.ts, api-generator.ts).                                         *)
THEOREM CreatedSpecsRun == FilesSpec => EndsResolved
<1>1. CodegenInd /\ DiskInd /\ AloneInd /\ [FilesNext]_filesVars =>
        \A c \in Callers :
          /\ Ends(c) /\ ~doing[c].met
          /\ Creates(InputOf(c)) /\ ~Mistaken(InputOf(c))
          /\ notes[c].cut = {} /\ ~Lame(InputOf(c))
          => Runs(files', torn', LayerOf(InputOf(c)), InputOf(c).feature)
  BY EndsResolvedStep
<1> QED BY <1>1, CodegenStarts, CodegenKeeps, DiskStarts, DiskKeeps, AloneStarts, AloneKeeps, PTL
        DEF FilesSpec, EndsResolved
==============================================================================
