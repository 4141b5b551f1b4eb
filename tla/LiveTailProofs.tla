---------------------------- MODULE LiveTailProofs ----------------------------
(* Theorems about LiveTail.tla, for any events, slots and length of a stream.   *)
EXTENDS LiveTail, SequenceTheorems, TLAPS

Increasing(s) == \A m, n \in 1..Len(s) : m < n => s[m] < s[n]
Precedes(S, T) == \A x \in S, y \in T : x < y

Wire == Range(wire)
Pending == Range(pending)
Projecting == {projecting} \ {0}
Queued == Range(queued)
Queue == Range(queue)
\* The deliveries that were shown or still may be.
Flow == Wire \cup Pending \cup Projecting \cup Queued \cup Queue
\* Those of which no part was offered to the transport.
Later == Projecting \cup Queued \cup Queue

TypeOK ==
  /\ live \in BOOLEAN /\ made \in Seq(Events) /\ pump \in {"running", "last", "closed"}
  /\ queue \in Seq(Nat) /\ queued \in Seq(Nat) /\ pending \in Seq(Nat) /\ wire \in Seq(Nat)
  /\ projecting \in Nat

\* A delivery passes through the queue, the worker and the pending frame to the
\* wire without overtaking another.
OrderInv ==
  /\ Increasing(wire) /\ Increasing(pending) /\ Increasing(queued) /\ Increasing(queue)
  /\ Flow \subseteq 1..Len(made)
  /\ Precedes(Wire, Pending \cup Projecting \cup Queued \cup Queue)
  /\ Precedes(Pending, Projecting \cup Queued \cup Queue)
  /\ Precedes(Projecting, Queued \cup Queue)
  /\ Precedes(Queued, Queue)

\* Only previews are merged or projected, and the pending frame is of one text.
KindInv ==
  /\ projecting = 0 => queued = <<>>
  /\ ~live => projecting = 0 /\ pending = <<>>
  /\ \A i \in Pending : Kind(i) \in {"text", "big"} /\ KeyOf(i) = PendingKey
  /\ \A i \in Projecting \cup Queued : Ephemeral(i)
  /\ ~live => \A i \in Queue : Enduring(i)

\* The pump closed before it handed the delivery over.
Past(i) == pump = "closed" /\ \A j \in Flow : j < i

\* A committed event is on the wire, on its way, or past the end of the stream.
JournalInv ==
  \A i \in 1..Len(made) : Enduring(i) => i \in Wire \/ i \in Queue \/ Past(i)

IsText(i) == Kind(i) \in {"text", "big"}

\* A committed event of the chunk's own loop, or of every loop.
Boundary(b, i) == Enduring(b) /\ made[b].of \in {"all", LoopOf[made[i].of]}

\* A chunk that was lost left its text gapped, and everything after it is later;
\* or it is past the end of the stream; or the boundary that cleared it was shown.
Accounted(i) ==
  \/ KeyOf(i) \in gapped /\ Precedes({i}, Later)
  \/ Past(i)
  \/ \E b \in Wire : i < b /\ Boundary(b, i)

\* A chunk that was lost has no later chunk of its text shown, or about to be,
\* without a boundary between them.
TextInv ==
  \A i \in 1..Len(made) : IsText(i) /\ i \notin Flow \cup unmarked =>
    /\ \A j \in Wire \cup Pending :
         Kind(j) = "text" /\ KeyOf(j) = KeyOf(i) /\ i < j => Between(i, j)
    /\ Accounted(i)

Strong == OrderInv /\ KindInv /\ JournalInv /\ TextInv

IndInv ==
  /\ TypeOK /\ (Open => Strong)
  /\ WireKeepsOrder /\ NoHoleInJournal /\ NoHoleInText

-----------------------------------------------------------------------------
(* Increasing sequences.                                                       *)

\* Appending what comes later.
LEMMA AppendLater ==
  ASSUME NEW s \in Seq(Nat), Increasing(s), NEW x \in Nat, Precedes(Range(s), {x})
  PROVE  /\ Append(s, x) \in Seq(Nat) /\ Increasing(Append(s, x))
         /\ Range(Append(s, x)) = Range(s) \cup {x}
<1>1. Append(s, x) \in Seq(Nat) /\ Len(Append(s, x)) = Len(s) + 1
  OBVIOUS
<1>2. \A n \in 1..Len(s) : Append(s, x)[n] = s[n]
  OBVIOUS
<1>3. Append(s, x)[Len(s) + 1] = x
  OBVIOUS
<1>4. DOMAIN s = 1..Len(s) /\ DOMAIN Append(s, x) = 1..(Len(s) + 1) /\ Len(s) \in Nat
  OBVIOUS
<1>5. \A n \in 1..Len(s) : s[n] \in Range(s)
  BY <1>4 DEF Range
<1>6. Increasing(Append(s, x))
  BY <1>1, <1>2, <1>3, <1>4, <1>5 DEF Increasing, Precedes
<1>7. Range(Append(s, x)) = Range(s) \cup {x}
  BY <1>2, <1>3, <1>4 DEF Range
<1>. QED  BY <1>1, <1>6, <1>7

\* Appending a sequence of what comes later.
LEMMA ConcatLater ==
  ASSUME NEW s \in Seq(Nat), NEW t \in Seq(Nat), Increasing(s), Increasing(t),
         Precedes(Range(s), Range(t))
  PROVE  /\ s \o t \in Seq(Nat) /\ Increasing(s \o t)
         /\ Range(s \o t) = Range(s) \cup Range(t)
<1>1. s \o t \in Seq(Nat) /\ Len(s \o t) = Len(s) + Len(t)
  OBVIOUS
<1>2. \A n \in 1..Len(s) : (s \o t)[n] = s[n]
  OBVIOUS
<1>3. \A n \in (Len(s) + 1)..(Len(s) + Len(t)) : (s \o t)[n] = t[n - Len(s)]
  OBVIOUS
<1>4. /\ DOMAIN s = 1..Len(s) /\ DOMAIN t = 1..Len(t) /\ Len(s) \in Nat /\ Len(t) \in Nat
      /\ DOMAIN (s \o t) = 1..(Len(s) + Len(t))
  OBVIOUS
<1>5. \A n \in 1..Len(s), m \in 1..Len(t) : s[n] < t[m]
  BY <1>4 DEF Range, Precedes
<1>6. Increasing(s \o t)
  <2> SUFFICES ASSUME NEW m \in 1..(Len(s) + Len(t)), NEW n \in 1..(Len(s) + Len(t)), m < n
               PROVE  (s \o t)[m] < (s \o t)[n]
    BY <1>1 DEF Increasing
  <2>1. CASE n <= Len(s)
    <3>1. m \in 1..Len(s) /\ n \in 1..Len(s)
      BY <2>1, <1>4
    <3>. QED  BY <3>1, <1>2 DEF Increasing
  <2>2. CASE m <= Len(s) /\ n > Len(s)
    <3>1. m \in 1..Len(s) /\ n \in (Len(s) + 1)..(Len(s) + Len(t)) /\ n - Len(s) \in 1..Len(t)
      BY <2>2, <1>4
    <3>. QED  BY <3>1, <1>2, <1>3, <1>5
  <2>3. CASE m > Len(s)
    <3>1. /\ m \in (Len(s) + 1)..(Len(s) + Len(t)) /\ n \in (Len(s) + 1)..(Len(s) + Len(t))
          /\ m - Len(s) \in 1..Len(t) /\ n - Len(s) \in 1..Len(t) /\ m - Len(s) < n - Len(s)
      BY <2>3, <1>4
    <3>2. t[m - Len(s)] < t[n - Len(s)]
      BY <3>1 DEF Increasing
    <3>. QED  BY <3>1, <3>2, <1>3
  <2>. QED  BY <2>1, <2>2, <2>3, <1>4
<1>7. Range(s \o t) = Range(s) \cup Range(t)
  <2>1. \A n \in 1..Len(t) : (s \o t)[Len(s) + n] = t[n] /\ Len(s) + n \in 1..(Len(s) + Len(t))
    BY <1>3, <1>4
  <2>2. Range(s) \subseteq Range(s \o t) /\ Range(t) \subseteq Range(s \o t)
    <3>1. \A n \in 1..Len(s) : n \in 1..(Len(s) + Len(t))
      BY <1>4
    <3>2. \A n \in 1..(Len(s) + Len(t)) : (s \o t)[n] \in Range(s \o t)
      BY <1>4 DEF Range
    <3>3. \A n \in 1..Len(s) : s[n] \in Range(s \o t)
      BY <3>1, <3>2, <1>2
    <3>4. \A n \in 1..Len(t) : t[n] \in Range(s \o t)
      BY <3>2, <2>1
    <3>. QED  BY <3>3, <3>4, <1>4 DEF Range
  <2>3. Range(s \o t) \subseteq Range(s) \cup Range(t)
    BY <1>2, <1>3, <1>4 DEF Range
  <2>. QED  BY <2>2, <2>3
<1>. QED  BY <1>1, <1>6, <1>7

\* The head of an increasing sequence comes before its tail.
LEMMA HeadFirst ==
  ASSUME NEW s \in Seq(Nat), Increasing(s), s # <<>>
  PROVE  /\ Head(s) \in Nat /\ Tail(s) \in Seq(Nat) /\ Increasing(Tail(s))
         /\ Range(s) = {Head(s)} \cup Range(Tail(s))
         /\ Precedes({Head(s)}, Range(Tail(s)))
<1>1. Tail(s) \in Seq(Nat) /\ Len(Tail(s)) = Len(s) - 1 /\ Len(s) \in Nat /\ Len(s) # 0
  OBVIOUS
<1>2. Head(s) = s[1] /\ Head(s) \in Nat
  OBVIOUS
<1>3. \A n \in 1..Len(Tail(s)) : Tail(s)[n] = s[n + 1]
  OBVIOUS
<1>4. DOMAIN s = 1..Len(s) /\ DOMAIN Tail(s) = 1..Len(Tail(s))
  OBVIOUS
<1>5. Increasing(Tail(s)) /\ \A n \in 1..Len(Tail(s)) : s[1] < Tail(s)[n]
  BY <1>1, <1>3 DEF Increasing
<1>6. Range(s) = {Head(s)} \cup Range(Tail(s))
  <2>1. Range(Tail(s)) \subseteq Range(s) /\ Head(s) \in Range(s)
    BY <1>1, <1>2, <1>3, <1>4 DEF Range
  <2>2. \A n \in 1..Len(s) : n = 1 \/ (s[n] = Tail(s)[n - 1] /\ n - 1 \in 1..Len(Tail(s)))
    <3> SUFFICES ASSUME NEW n \in 1..Len(s), n # 1
                 PROVE  s[n] = Tail(s)[n - 1] /\ n - 1 \in 1..Len(Tail(s))
      OBVIOUS
    <3>1. n - 1 \in 1..Len(Tail(s)) /\ (n - 1) + 1 = n
      BY <1>1
    <3>. QED  BY <3>1, <1>3
  <2>3. Range(s) \subseteq {Head(s)} \cup Range(Tail(s))
    <3>1. \A n \in 1..Len(Tail(s)) : Tail(s)[n] \in Range(Tail(s))
      BY <1>4 DEF Range
    <3>2. \A n \in 1..Len(s) : s[n] \in {Head(s)} \cup Range(Tail(s))
      BY <2>2, <3>1, <1>2
    <3>. QED  BY <3>2, <1>4 DEF Range
  <2>. QED  BY <2>1, <2>3
<1>7. Precedes({Head(s)}, Range(Tail(s)))
  BY <1>2, <1>4, <1>5 DEF Precedes, Range
<1>. QED  BY <1>1, <1>2, <1>5, <1>6, <1>7

\* A sequence of one.
LEMMA OneIn ==
  ASSUME NEW x \in Nat
  PROVE  <<x>> \in Seq(Nat) /\ Increasing(<<x>>) /\ Range(<<x>>) = {x}
<1>1. <<x>> \in Seq(Nat) /\ Len(<<x>>) = 1 /\ <<x>>[1] = x /\ DOMAIN <<x>> = 1..1
  OBVIOUS
<1>. QED  BY <1>1 DEF Increasing, Range

\* There is nothing in an empty sequence.
LEMMA NothingIn == <<>> \in Seq(Nat) /\ Increasing(<<>>) /\ Range(<<>>) = {}
  BY DEF Increasing, Range

-----------------------------------------------------------------------------
(* What the invariant says of the wire.                                        *)

\* The frame that is pending may go out, or not: either way no hole is shown.
LEMMA NoHoles ==
  ASSUME TypeOK, Strong, made' = made, unmarked' = unmarked, wire' \in {wire, wire \o pending}
  PROVE  WireKeepsOrder' /\ NoHoleInJournal' /\ NoHoleInText'
<1> DEFINE Shown == Range(wire')
<1>1. /\ Increasing(wire') /\ (Shown = Wire \/ Shown = Wire \cup Pending)
  <2>1. CASE wire' = wire
    BY <2>1 DEF Strong, OrderInv, Wire
  <2>2. CASE wire' = wire \o pending
    <3>1. Precedes(Range(wire), Range(pending))
      BY DEF Strong, OrderInv, Precedes, Wire, Pending
    <3>. QED  BY <2>2, <3>1, ConcatLater DEF TypeOK, Strong, OrderInv, Wire, Pending
  <2>. QED  BY <2>1, <2>2
<1>2. \A j \in Shown : \A i \in Flow : i < j => i \in Shown
  BY <1>1 DEF Strong, OrderInv, Precedes, Flow
<1>3. Shown \subseteq Flow /\ Shown \subseteq 1..Len(made) /\ Len(made) \in Nat
  BY <1>1 DEF Strong, OrderInv, Flow, TypeOK
<1>4. \A j \in Shown : \A i \in 1..(j - 1) : i \in 1..Len(made) /\ i < j /\ ~Past(i)
  BY <1>3 DEF Past
<1>5. WireKeepsOrder'
  BY <1>1 DEF WireKeepsOrder, Increasing
<1>6. NoHoleInJournal'
  <2> SUFFICES ASSUME NEW j \in Shown, NEW i \in 1..(j - 1), Enduring(i)
               PROVE  i \in Shown
    BY DEF NoHoleInJournal, Enduring, Kind
  <2>1. i \in Wire \/ i \in Queue
    BY <1>4 DEF Strong, JournalInv
  <2>. QED  BY <2>1, <1>2, <1>4 DEF Flow
<1>7. NoHoleInText'
  <2> SUFFICES ASSUME NEW j \in Shown, NEW i \in 1..(j - 1),
                      Kind(j) = "text", IsText(i), made[i].of = made[j].of, ~Between(i, j)
               PROVE  i \in Shown \cup unmarked
    BY DEF NoHoleInText, Between, Enduring, IsText, Kind
  <2>1. j \in Wire \cup Pending /\ i \in 1..Len(made) /\ i < j
    BY <1>1, <1>4
  <2>2. i \in Flow \cup unmarked
    BY <2>1 DEF Strong, TextInv, KeyOf
  <2>. QED  BY <2>1, <2>2, <1>2
<1>. QED  BY <1>5, <1>6, <1>7

\* The tail ends with what is on the wire and, perhaps, the frame that was pending.
LEMMA Ending ==
  ASSUME TypeOK, Strong, made' = made, unmarked' = unmarked, wire' \in {wire, wire \o pending},
         TypeOK', ~Open'
  PROVE  IndInv'
BY NoHoles DEF IndInv

\* While the tail is open the rest of the invariant implies the properties.
LEMMA Going ==
  ASSUME TypeOK', Strong'
  PROVE  IndInv'
<1>1. Increasing(wire)' /\ WireKeepsOrder'
  BY DEF Strong, OrderInv, WireKeepsOrder, Increasing
<1>2. Wire' \subseteq 1..Len(made') /\ Len(made') \in Nat
  BY DEF Strong, OrderInv, Flow, TypeOK
<1>3. \A j \in Wire' : \A i \in Flow' : i < j => i \in Wire'
  BY DEF Strong, OrderInv, Precedes, Flow
<1>4. \A j \in Wire' : \A i \in 1..(j - 1) : i \in 1..Len(made') /\ i < j /\ ~Past(i)'
  BY <1>2 DEF Past, Flow
<1>5. NoHoleInJournal'
  <2> SUFFICES ASSUME NEW j \in Wire', NEW i \in 1..(j - 1), Enduring(i)'
               PROVE  i \in Wire'
    BY DEF NoHoleInJournal, Wire
  <2>1. i \in Wire' \/ i \in Queue'
    BY <1>4 DEF Strong, JournalInv
  <2>. QED  BY <2>1, <1>3, <1>4 DEF Flow
<1>6. NoHoleInText'
  <2> SUFFICES ASSUME NEW j \in Wire', NEW i \in 1..(j - 1),
                      Kind(j)' = "text", IsText(i)', KeyOf(i)' = KeyOf(j)', ~Between(i, j)'
               PROVE  i \in Wire' \cup unmarked'
    BY DEF NoHoleInText, IsText, KeyOf, Wire
  <2>1. i \in Flow' \cup unmarked'
    BY <1>4 DEF Strong, TextInv
  <2>. QED  BY <2>1, <1>3, <1>4
<1>. QED  BY <1>1, <1>5, <1>6 DEF IndInv

-----------------------------------------------------------------------------
(* What the parts of the relay do.                                             *)

\* The head of the queue comes after everything the relay holds.
LEMMA HeadTaken ==
  ASSUME TypeOK, OrderInv, queue # <<>>, Taken
  PROVE  /\ queue' \in Seq(Nat) /\ Increasing(queue')
         /\ Head(queue) \in Queue /\ Head(queue) \in 1..Len(made) /\ Head(queue) \in Nat
         /\ Queue = {Head(queue)} \cup Queue'
         /\ Precedes({Head(queue)}, Queue')
         /\ Precedes(Wire \cup Pending \cup Projecting \cup Queued, {Head(queue)})
<1>1. /\ queue' \in Seq(Nat) /\ Increasing(queue') /\ Head(queue) \in Nat
      /\ Queue = {Head(queue)} \cup Queue' /\ Precedes({Head(queue)}, Queue')
  BY HeadFirst DEF Taken, TypeOK, OrderInv, Queue
<1>2. Head(queue) \in Queue /\ Head(queue) \in 1..Len(made)
  BY <1>1 DEF OrderInv, Flow
<1>. QED  BY <1>1, <1>2 DEF OrderInv, Precedes

\* A flush puts the pending frame on the wire, or changes nothing.
LEMMA Flushed ==
  ASSUME TypeOK, OrderInv, NEW f \in flush
  PROVE  /\ f.wire \in Seq(Nat) /\ f.pending \in Seq(Nat)
         /\ Increasing(f.wire) /\ Increasing(f.pending)
         /\ Range(f.wire) \cup Range(f.pending) = Wire \cup Pending
         /\ Wire \subseteq Range(f.wire) /\ Range(f.pending) \subseteq Pending
         /\ Precedes(Range(f.wire), Range(f.pending))
         /\ f.pending \in {pending, <<>>} /\ f.wire \in {wire, wire \o pending}
<1>1. PICK w \in {wire, wire \o pending} :
         f.wire = w /\ f.pending = IF w = wire THEN pending ELSE <<>>
  BY DEF flush, TryPublishEphemeral
<1>2. Precedes(Range(wire), Range(pending))
  BY DEF OrderInv, Precedes, Wire, Pending
<1>3. CASE w = wire
  BY <1>1, <1>2, <1>3 DEF TypeOK, OrderInv, Wire, Pending
<1>4. CASE w # wire
  <2>1. f.wire = wire \o pending /\ f.pending = <<>>
    BY <1>1, <1>4
  <2>2. /\ f.wire \in Seq(Nat) /\ Increasing(f.wire)
        /\ Range(f.wire) = Wire \cup Pending
    BY <2>1, <1>2, ConcatLater DEF TypeOK, OrderInv, Wire, Pending
  <2>. QED  BY <2>1, <2>2, NothingIn DEF Precedes
<1>. QED  BY <1>3, <1>4

\* The worker takes the next preview in line.
LEMMA Started ==
  ASSUME TypeOK, OrderInv, startProjection
  PROVE  /\ projecting' \in Nat /\ queued' \in Seq(Nat) /\ Increasing(queued')
         /\ Projecting' \cup Queued' = Queued /\ Precedes(Projecting', Queued')
         /\ projecting' = 0 => queued' = <<>>
<1>1. CASE queued = <<>>
  BY <1>1, NothingIn DEF startProjection, Projecting, Queued, Precedes
<1>2. CASE queued # <<>>
  <2>1. projecting' = Head(queued) /\ queued' = Tail(queued)
    BY <1>2 DEF startProjection
  <2>2. /\ projecting' \in Nat /\ queued' \in Seq(Nat) /\ Increasing(queued')
        /\ Queued = {projecting'} \cup Queued' /\ Precedes({projecting'}, Queued')
    BY <1>2, <2>1, HeadFirst DEF TypeOK, OrderInv, Queued
  <2>3. projecting' # 0
    BY <2>2 DEF OrderInv, Flow
  <2>. QED  BY <2>2, <2>3 DEF Projecting, Precedes
<1>. QED  BY <1>1, <1>2

\* A committed event leaves the queue for the wire.
LEMMA JournalStep ==
  ASSUME JournalInv, made' = made, Flow' \subseteq Flow, Wire \subseteq Wire',
         pump = "closed" => pump' = "closed",
         \A i \in Queue : Enduring(i) => i \in Wire' \/ i \in Queue' \/ Past(i)'
  PROVE  JournalInv'
<1> SUFFICES ASSUME NEW i \in 1..Len(made), Enduring(i)
             PROVE  i \in Wire' \/ i \in Queue' \/ Past(i)'
  BY DEF JournalInv, Enduring, Kind
<1>1. Past(i) => Past(i)'
  BY DEF Past
<1>. QED  BY <1>1 DEF JournalInv

\* Text comes to the wire and to the pending frame from the worker, and only if
\* its text is not gapped; what is lost is accounted for, and what was lost stays so.
LEMMA TextStep ==
  ASSUME TypeOK, OrderInv, TextInv,
         made' = made, Flow' \subseteq Flow, Wire \subseteq Wire', Later' \subseteq Later,
         unmarked \subseteq unmarked', pump = "closed" => pump' = "closed",
         \A j \in (Wire \cup Pending)' :
           \/ j \in Wire \cup Pending \/ Kind(j) # "text"
           \/ j \in Projecting /\ KeyOf(j) \notin gapped,
         \A i \in Flow : IsText(i) /\ i \notin (Flow \cup unmarked)' =>
           /\ Accounted(i)'
           /\ \A j \in (Wire \cup Pending)' : KeyOf(j) = KeyOf(i) /\ Kind(j) = "text" => j <= i,
         \A i \in 1..Len(made) :
           IsText(i) /\ KeyOf(i) \in gapped /\ Precedes({i}, Later) => Accounted(i)'
  PROVE  TextInv'
<1> SUFFICES ASSUME NEW i \in 1..Len(made), IsText(i), i \notin (Flow \cup unmarked)'
             PROVE  /\ \A j \in (Wire \cup Pending)' :
                         Kind(j) = "text" /\ KeyOf(j) = KeyOf(i) /\ i < j => Between(i, j)
                    /\ Accounted(i)'
  BY DEF TextInv, IsText, Kind, KeyOf, Between, Enduring
<1>1. (Wire \cup Pending)' \subseteq 1..Len(made) /\ Len(made) \in Nat
  BY DEF OrderInv, Flow, TypeOK
<1>2. CASE i \in Flow
  BY <1>1, <1>2
<1>3. CASE i \notin Flow
  <2>1. i \notin unmarked
    OBVIOUS
  <2>2. /\ \A j \in Wire \cup Pending :
             Kind(j) = "text" /\ KeyOf(j) = KeyOf(i) /\ i < j => Between(i, j)
        /\ Accounted(i)
    BY <1>3, <2>1 DEF TextInv
  <2>3. \A b \in Wire : Boundary(b, i)' <=> Boundary(b, i)
    BY DEF Boundary, Enduring, Kind
  <2>4. Past(i) => Past(i)'
    BY DEF Past
  <2>5. Accounted(i)'
    BY <2>2, <2>3, <2>4 DEF Accounted, Later
  <2>6. ASSUME NEW j \in (Wire \cup Pending)', Kind(j) = "text", KeyOf(j) = KeyOf(i), i < j
        PROVE  Between(i, j)
    <3>1. CASE j \in Wire \cup Pending
      BY <3>1, <2>2, <2>6
    <3>2. CASE j \in Projecting /\ KeyOf(j) \notin gapped
      <4>1. ~Past(i)
        BY <3>2, <2>6, <1>1 DEF Past, Flow
      <4>2. PICK b \in Wire : i < b /\ Boundary(b, i)
        BY <4>1, <2>2, <2>6, <3>2 DEF Accounted
      <4>3. b < j /\ b \in Nat /\ j \in Nat
        BY <3>2 DEF OrderInv, Precedes, Flow
      <4>. QED  BY <4>2, <4>3 DEF Between, Boundary
    <3>. QED  BY <3>1, <3>2, <2>6
  <2>. QED  BY <2>5, <2>6
<1>. QED  BY <1>2, <1>3

\* A chunk is accounted for as long as its text is gapped.
LEMMA Gapped ==
  ASSUME NEW i, made' = made, KeyOf(i) \in gapped', Precedes({i}, Later')
  PROVE  Accounted(i)'
BY DEF Accounted, KeyOf

-----------------------------------------------------------------------------
(* The steps.                                                                  *)

\* A tail starts with nothing delivered and nothing shown.
LEMMA InitEstablishes ==
  ASSUME Init
  PROVE  IndInv
<1>1. /\ Wire = {} /\ Pending = {} /\ Projecting = {} /\ Queued = {} /\ Queue = {}
      /\ Len(made) = 0 /\ made \in Seq(Events)
  BY NothingIn DEF Init, Wire, Pending, Projecting, Queued, Queue
<1>2. TypeOK
  BY <1>1 DEF Init, TypeOK
<1>3. OrderInv
  BY <1>1, NothingIn DEF Init, OrderInv, Flow, Precedes
<1>4. KindInv /\ JournalInv /\ TextInv
  BY <1>1 DEF Init, KindInv, JournalInv, TextInv
<1>5. WireKeepsOrder /\ NoHoleInJournal /\ NoHoleInText
  BY <1>1 DEF Init, WireKeepsOrder, NoHoleInJournal, NoHoleInText, Wire
<1>. QED  BY <1>2, <1>3, <1>4, <1>5 DEF IndInv, Strong

\* A preview goes to the worker, waits for it, or is dropped without a mark.
LEMMA RelayEphemeralKeeps ==
  ASSUME TypeOK, Strong, relayEphemeral
  PROVE  IndInv'
<1> DEFINE h == Head(queue)
<1>1. /\ live /\ live' = live /\ made' = made /\ pump' = pump /\ queue # <<>> /\ Taken
      /\ wire' = wire /\ pending' = pending /\ gapped' = gapped /\ Ephemeral(h)
      /\ Wire' = Wire /\ Pending' = Pending
  BY DEF relayEphemeral, Takes, Taken, Wire, Pending
<1>2. /\ queue' \in Seq(Nat) /\ Increasing(queue')
      /\ h \in Queue /\ h \in 1..Len(made) /\ h \in Nat
      /\ Queue = {h} \cup Queue' /\ Precedes({h}, Queue')
      /\ Precedes(Wire \cup Pending \cup Projecting \cup Queued, {h})
  BY <1>1, HeadTaken DEF Strong
<1>3. /\ projecting' \in Nat /\ queued' \in Seq(Nat) /\ Increasing(queued')
      /\ Precedes(Projecting', Queued') /\ (projecting' = 0 => queued' = <<>>)
      /\ \/ unmarked' = unmarked /\ Projecting' \cup Queued' = Projecting \cup Queued \cup {h}
         \/ unmarked' = unmarked \cup {h} /\ Projecting' \cup Queued' = Projecting \cup Queued
  <2>1. CASE projecting = 0 /\ projecting' = h /\ UNCHANGED <<queued, unmarked>>
    <3>1. queued' = <<>> /\ queued = <<>>
      BY <2>1 DEF Strong, KindInv
    <3>2. Projecting' = {h} /\ Projecting = {} /\ Queued' = {} /\ Queued = {}
      BY <2>1, <3>1, <1>2, NothingIn DEF Projecting, Queued
    <3>. QED  BY <2>1, <3>1, <3>2, <1>2, NothingIn DEF Precedes
  <2>2. CASE projecting # 0 /\ queued' = Append(queued, h) /\ UNCHANGED <<projecting, unmarked>>
    <3>1. Precedes(Range(queued), {h})
      BY <1>2 DEF Precedes, Queued
    <3>2. queued' \in Seq(Nat) /\ Increasing(queued') /\ Queued' = Queued \cup {h}
      BY <3>1, <2>2, <1>2, AppendLater DEF Queued, Strong, OrderInv, TypeOK
    <3>. QED  BY <2>2, <3>2, <1>2 DEF Projecting, Precedes, Strong, OrderInv, TypeOK
  <2>3. CASE projecting # 0 /\ unmarked' = unmarked \cup {h} /\ UNCHANGED <<projecting, queued>>
    BY <2>3 DEF Projecting, Queued, Precedes, Strong, OrderInv, TypeOK
  <2>. QED  BY <2>1, <2>2, <2>3 DEF relayEphemeral
<1>4. /\ Flow' \subseteq Flow /\ Later' \subseteq Later /\ unmarked \subseteq unmarked'
      /\ Flow \subseteq (Flow \cup unmarked)'
  BY <1>1, <1>2, <1>3 DEF Flow, Later
<1>5. TypeOK'
  BY <1>1, <1>2, <1>3 DEF TypeOK
<1>6. OrderInv'
  <2>1. /\ Increasing(wire)' /\ Increasing(pending)' /\ Flow' \subseteq 1..Len(made')
    BY <1>1, <1>4 DEF Strong, OrderInv
  <2>2. /\ Precedes(Wire, Pending \cup Projecting \cup Queued \cup Queue)'
        /\ Precedes(Pending, Projecting \cup Queued \cup Queue)'
    BY <1>1, <1>2, <1>3 DEF Strong, OrderInv, Precedes
  <2>3. Precedes(Projecting, Queued \cup Queue)' /\ Precedes(Queued, Queue)'
    <3>1. Projecting' \cup Queued' \subseteq Projecting \cup Queued \cup {h}
      BY <1>3
    <3>2. Precedes(Projecting \cup Queued \cup {h}, Queue')
      BY <1>2 DEF Strong, OrderInv, Precedes
    <3>. QED  BY <3>1, <3>2, <1>3 DEF Precedes
  <2>. QED  BY <2>1, <2>2, <2>3, <1>2, <1>3 DEF OrderInv
<1>7. KindInv'
  <2>1. \A i \in Projecting' \cup Queued' : Ephemeral(i)
    BY <1>1, <1>3 DEF Strong, KindInv
  <2>2. \A i \in Pending' : Kind(i) \in {"text", "big"} /\ KeyOf(i) = PendingKey
    BY <1>1 DEF Strong, KindInv
  <2>. QED  BY <2>1, <2>2, <1>1, <1>3 DEF KindInv, Kind, KeyOf, PendingKey, Ephemeral
<1>8. JournalInv'
  <2>1. \A i \in Queue : Enduring(i) => i \in Queue'
    BY <1>1, <1>2 DEF Enduring, Ephemeral, Previews
  <2>. QED  BY <2>1, <1>1, <1>4, JournalStep DEF Strong
<1>9. TextInv'
  <2>1. \A i : KeyOf(i) \in gapped /\ Precedes({i}, Later) => Accounted(i)'
    BY <1>1, <1>4, Gapped DEF Precedes
  <2>. QED  BY <2>1, <1>1, <1>4, TextStep DEF Strong
<1>. QED  BY <1>5, <1>6, <1>7, <1>8, <1>9, Going DEF Strong

\* The pump of a live tail drops what it holds when it ends, and nothing that is
\* later than what it drops comes out of it again.
LEMMA PumpEndsKeeps ==
  ASSUME TypeOK, Strong, PumpEnds
  PROVE  IndInv'
<1>1. /\ live' = live /\ made' = made /\ pump' = "closed" /\ UNCHANGED <<previewVars, wire>>
      /\ queue' = IF live THEN <<>> ELSE queue
  BY DEF PumpEnds, Closes
<1>2. /\ Wire' = Wire /\ Pending' = Pending /\ Projecting' = Projecting /\ Queued' = Queued
      /\ queue' \in Seq(Nat) /\ Increasing(queue') /\ Queue' \subseteq Queue
      /\ Queue' = Queue \/ (Queue' = {} /\ live)
  BY <1>1, NothingIn DEF previewVars, Wire, Pending, Projecting, Queued, Queue, TypeOK,
       Strong, OrderInv
<1>3. Flow' \subseteq Flow /\ Later' \subseteq Later /\ unmarked' = unmarked /\ gapped' = gapped
  BY <1>1, <1>2 DEF Flow, Later, previewVars
<1>4. TypeOK'
  BY <1>1, <1>2 DEF TypeOK, previewVars
<1>5. OrderInv'
  BY <1>1, <1>2, <1>3 DEF Strong, OrderInv, Precedes, previewVars
<1>6. KindInv'
  BY <1>1, <1>2 DEF Strong, KindInv, Kind, KeyOf, PendingKey, Ephemeral, Enduring, previewVars
<1>7. \A i \in Queue : i \in Queue' \/ Past(i)'
  <2> SUFFICES ASSUME NEW i \in Queue, Queue' = {}  PROVE Past(i)'
    BY <1>2
  <2>. QED  BY <1>1, <1>2 DEF Past, Flow, Strong, OrderInv, Precedes
<1>8. JournalInv'
  BY <1>1, <1>2, <1>3, <1>7, JournalStep DEF Strong
<1>9. TextInv'
  <2>1. \A i : KeyOf(i) \in gapped /\ Precedes({i}, Later) => Accounted(i)'
    BY <1>1, <1>3, Gapped DEF Precedes
  <2>2. \A i \in Flow : i \notin Flow' => i \in Queue /\ Accounted(i)'
    BY <1>2, <1>7 DEF Flow, Accounted
  <2>3. \A i \in Queue : \A j \in Wire \cup Pending : j <= i
    <3>1. \A i \in Queue, j \in Wire \cup Pending : j < i /\ i \in Nat /\ j \in Nat
      BY DEF Strong, OrderInv, Precedes, Flow
    <3>. QED  BY <3>1
  <2>. QED  BY <2>1, <2>2, <2>3, <1>1, <1>2, <1>3, TextStep DEF Strong
<1>. QED  BY <1>4, <1>5, <1>6, <1>8, <1>9, Going DEF Strong

\* Nothing is said of a cancelled context that the relay has yet to see.
LEMMA Unchanged ==
  ASSUME IndInv,
         UNCHANGED <<live, made, pump, queue, tail, projecting, queued, pending, gapped,
                     unmarked, wire>>
  PROVE  IndInv'
<1>1. UNCHANGED <<live, made, pump, queue, tail, projecting, queued, pending, gapped, unmarked, wire>>
  OBVIOUS
<1>2. TypeOK' = TypeOK /\ Open' = Open
  BY <1>1 DEF TypeOK, Open
<1>3. /\ Wire' = Wire /\ Pending' = Pending /\ Projecting' = Projecting /\ Queued' = Queued
      /\ Queue' = Queue /\ Flow' = Flow /\ Later' = Later
  BY <1>1 DEF Wire, Pending, Projecting, Queued, Queue, Flow, Later
<1>4. OrderInv => OrderInv'
  BY <1>1, <1>3 DEF OrderInv
<1>5. KindInv => KindInv'
  BY <1>1, <1>3 DEF KindInv, Kind, KeyOf, PendingKey, Ephemeral, Enduring
<1>6. JournalInv => JournalInv'
  BY <1>1, <1>3 DEF JournalInv, Enduring, Kind, Past
<1>7. TextInv => TextInv'
  <2>1. \A i : Accounted(i)' <=> Accounted(i)
    BY <1>1, <1>3 DEF Accounted, Past, Boundary, KeyOf, Enduring, Kind
  <2>2. \A i, j : Between(i, j)' <=> Between(i, j)
    BY <1>1 DEF Between, Enduring, Kind
  <2>. QED  BY <1>1, <1>3, <2>1, <2>2 DEF TextInv, IsText, Kind, KeyOf
<1>8. WireKeepsOrder' /\ NoHoleInJournal' /\ NoHoleInText'
  BY <1>1 DEF IndInv, WireKeepsOrder, NoHoleInJournal, NoHoleInText, Between, Enduring, Kind
<1>. QED  BY <1>2, <1>4, <1>5, <1>6, <1>7, <1>8 DEF IndInv, Strong

\* The relay ends between two deliveries.
LEMMA EndsKeeps ==
  ASSUME TypeOK, Strong, StreamEnds \/ Stops \/ relayTerminal
  PROVE  IndInv'
<1>1. /\ live' = live /\ made' = made /\ wire' = wire /\ unmarked' = unmarked /\ ~Open'
      /\ projecting' = 0 /\ queued' = <<>> /\ pending' = <<>>
      /\ (queue' = queue /\ pump' = pump) \/ (queue' \in {queue, <<>>} /\ pump' = "closed")
  BY DEF StreamEnds, Stops, relayTerminal, Ends, Closes, pumpVars, Open
<1>2. queued' \in Seq(Nat) /\ pending' \in Seq(Nat) /\ projecting' \in Nat
  BY <1>1, NothingIn
<1>3. queue' \in Seq(Nat)
  <2>1. CASE queue' = queue
    BY <2>1 DEF TypeOK
  <2>2. CASE queue' = <<>>
    BY <2>2, NothingIn
  <2>. QED  BY <2>1, <2>2, <1>1
<1>4. TypeOK'
  BY <1>1, <1>2, <1>3 DEF TypeOK
<1>. QED  BY <1>1, <1>4, Ending

\* The relay of committed events publishes the next one, or ends.
LEMMA RelayKeeps ==
  ASSUME TypeOK, Strong, relay
  PROVE  IndInv'
<1> DEFINE h == Head(queue)
<1>1. /\ ~live /\ live' = live /\ made' = made /\ pump' = pump /\ queue # <<>> /\ Taken
      /\ UNCHANGED <<projecting, queued, pending, gapped, unmarked>>
      /\ Projecting' = {} /\ Projecting = {} /\ Pending' = {} /\ Pending = {}
      /\ Queued' = {} /\ Queued = {}
  BY NothingIn DEF relay, Takes, Taken, previewVars, Strong, KindInv, Projecting, Pending, Queued
<1>2. /\ queue' \in Seq(Nat) /\ Increasing(queue')
      /\ h \in Queue /\ h \in 1..Len(made) /\ h \in Nat
      /\ Queue = {h} \cup Queue' /\ Precedes({h}, Queue') /\ Precedes(Wire, {h})
  BY <1>1, HeadTaken DEF Strong, Precedes
<1>3. CASE tail' # "running" /\ wire' = wire
  <2>1. TypeOK' /\ ~Open'
    BY <1>1, <1>2, <1>3 DEF TypeOK, Open
  <2>. QED  BY <2>1, <1>1, <1>3, Ending
<1>4. CASE wire' = Append(wire, h)
  <2>1. wire' \in Seq(Nat) /\ Increasing(wire') /\ Wire' = Wire \cup {h}
    <3>1. Precedes(Range(wire), {h}) /\ Increasing(wire) /\ wire \in Seq(Nat)
      BY <1>2 DEF Wire, TypeOK, Strong, OrderInv
    <3>2. /\ Append(wire, h) \in Seq(Nat) /\ Increasing(Append(wire, h))
          /\ Range(Append(wire, h)) = Range(wire) \cup {h}
      BY <3>1, <1>2, AppendLater
    <3>. QED  BY <3>2, <1>4 DEF Wire
  <2>2. Flow' = Flow /\ Later' \subseteq Later
    BY <1>1, <1>2, <2>1 DEF Flow, Later
  <2>3. TypeOK'
    BY <1>1, <1>2, <2>1 DEF TypeOK
  <2>4. OrderInv'
    BY <1>1, <1>2, <2>1, <2>2 DEF Strong, OrderInv, Precedes
  <2>5. KindInv'
    BY <1>1, <1>2 DEF Strong, KindInv, Enduring, Kind
  <2>6. JournalInv'
    BY <1>1, <1>2, <2>1, <2>2, JournalStep DEF Strong
  <2>7. TextInv'
    <3>1. \A i : KeyOf(i) \in gapped /\ Precedes({i}, Later) => Accounted(i)'
      BY <1>1, <2>2, Gapped DEF Precedes
    <3>2. Kind(h) # "text"
      BY <1>1, <1>2 DEF Strong, KindInv, Enduring
    <3>. QED  BY <3>1, <3>2, <1>1, <2>1, <2>2, TextStep DEF Strong
  <2>. QED  BY <2>3, <2>4, <2>5, <2>6, <2>7, Going DEF Strong
<1>. QED  BY <1>3, <1>4 DEF relay, publish

\* What the pump does with a delivery: it holds it, ends, drops it without a
\* mark or, in a tail of committed events, passes over what is none.
LEMMA Delivered ==
  ASSUME NEW e \in Events, Deliver(e)
  PROVE  LET n == Len(made') IN
         \/ /\ queue' = Append(queue, n) /\ pump' \in {"running", "last"}
            /\ unmarked' = unmarked /\ (~live => e.kind = "enduring")
         \/ /\ queue' = (IF live THEN <<>> ELSE queue) /\ pump' = "closed"
            /\ unmarked' = unmarked /\ e.kind = "enduring"
         \/ queue' = queue /\ pump' = "running" /\ unmarked' = unmarked \cup {n} /\ e.kind # "enduring"
         \/ queue' = queue /\ pump' = "running" /\ unmarked' = unmarked /\ e.kind = "uncommitted"
<1> DEFINE n == Len(made')
<1>1. pump = "running" /\ IF live THEN pumpLive(e, n) ELSE pumpCommitted(e, n)
  BY DEF Deliver
<1>2. CASE live
  BY <1>1, <1>2 DEF pumpLive, Holding, Overflows, Closes
<1>3. CASE ~live
  BY <1>1, <1>3 DEF pumpCommitted, Holding, Overflows, Closes
<1>. QED  BY <1>2, <1>3

\* The delivery is later than all others, and what is said of them stays true.
LEMMA DeliverKeeps ==
  ASSUME TypeOK, Strong, NEW e \in Events, Deliver(e)
  PROVE  IndInv'
<1> DEFINE n == Len(made')
<1>1. /\ live' = live /\ made' = Append(made, e) /\ pump = "running"
      /\ UNCHANGED <<projecting, queued, pending, gapped, wire>>
      /\ Wire' = Wire /\ Pending' = Pending /\ Projecting' = Projecting /\ Queued' = Queued
  BY DEF Deliver, Wire, Pending, Projecting, Queued
<1>2. /\ made' \in Seq(Events) /\ n = Len(made) + 1 /\ n \in Nat /\ Len(made) \in Nat
      /\ \A i \in 1..Len(made) : made'[i] = made[i]
      /\ made'[n] = e
  BY <1>1 DEF TypeOK
<1>3. /\ queue' \in Seq(Nat) /\ Increasing(queue')
      /\ \/ Queue' = Queue \cup {n} /\ unmarked' = unmarked /\ (~live => e.kind = "enduring")
         \/ /\ pump' = "closed" /\ unmarked' = unmarked /\ e.kind = "enduring"
            /\ Queue' = Queue \/ Queue' = {}
         \/ Queue' = Queue /\ unmarked' = unmarked \cup {n} /\ e.kind # "enduring"
         \/ Queue' = Queue /\ unmarked' = unmarked /\ e.kind = "uncommitted"
  <2>1. Precedes(Range(queue), {n}) /\ Increasing(queue) /\ queue \in Seq(Nat)
    <3>1. Range(queue) \subseteq 1..Len(made) /\ Increasing(queue) /\ queue \in Seq(Nat)
      BY DEF Strong, OrderInv, Flow, Queue, TypeOK
    <3>. QED  BY <3>1, <1>2 DEF Precedes
  <2>2. CASE queue' = Append(queue, n) /\ unmarked' = unmarked /\ (~live => e.kind = "enduring")
    BY <2>1, <2>2, <1>2, AppendLater DEF Queue
  <2>3. CASE /\ queue' = (IF live THEN <<>> ELSE queue) /\ pump' = "closed"
             /\ unmarked' = unmarked /\ e.kind = "enduring"
    <3>1. queue' = queue \/ queue' = <<>>
      BY <2>3
    <3>2. queue' \in Seq(Nat) /\ Increasing(queue') /\ (Queue' = Queue \/ Queue' = {})
      <4>1. CASE queue' = queue
        BY <2>1, <4>1 DEF Queue
      <4>2. CASE queue' = <<>>
        BY <4>2, NothingIn DEF Queue
      <4>. QED  BY <3>1, <4>1, <4>2
    <3>. QED  BY <2>3, <3>2
  <2>4. CASE queue' = queue
    BY <2>1, <2>2, <2>3, <2>4, Delivered DEF Queue
  <2>. QED  BY <2>2, <2>3, <2>4, Delivered
<1>4. /\ Queue' \subseteq Queue \cup {n} /\ Flow' \subseteq Flow \cup {n}
      /\ Later' \subseteq Later \cup {n} /\ unmarked \subseteq unmarked' /\ gapped' = gapped
      /\ Flow \subseteq 1..Len(made)
  BY <1>1, <1>3 DEF Flow, Later, Strong, OrderInv
<1>5. TypeOK'
  <2>1. pump' \in {"running", "last", "closed"}
    BY Delivered
  <2>. QED  BY <2>1, <1>1, <1>2, <1>3 DEF TypeOK
<1>6. OrderInv'
  <2>1. Flow' \subseteq 1..Len(made')
    BY <1>2, <1>4
  <2>2. Precedes(Wire \cup Pending \cup Projecting \cup Queued, {n})
    BY <1>2, <1>4 DEF Precedes, Flow
  <2>. QED  BY <2>1, <2>2, <1>1, <1>3, <1>4 DEF Strong, OrderInv, Precedes
<1>7. \A i \in 1..Len(made) : /\ Kind(i)' = Kind(i) /\ KeyOf(i)' = KeyOf(i)
                              /\ Enduring(i)' = Enduring(i) /\ IsText(i)' = IsText(i)
  BY <1>2 DEF Kind, KeyOf, Enduring, IsText
<1>8. \A i \in 1..Len(made') : i \in 1..Len(made) \/ (i = n /\ Kind(i)' = e.kind)
  BY <1>2 DEF Kind
<1>9. KindInv'
  <2>1. Pending' \cup Projecting' \cup Queued' \cup Queue \subseteq 1..Len(made)
    BY <1>1, <1>4 DEF Flow
  <2>2. PendingKey' = PendingKey \/ Pending = {}
    <3>1. CASE pending = <<>>
      BY <3>1, NothingIn DEF Pending
    <3>2. CASE pending # <<>>
      <4>1. pending[1] \in Pending
        BY <3>2 DEF Pending, Range, TypeOK
      <4>. QED  BY <4>1, <2>1, <1>1, <1>7 DEF PendingKey
    <3>. QED  BY <3>1, <3>2
  <2>3. ~live => \A i \in Queue' : Enduring(i)'
    <3> SUFFICES ASSUME ~live, NEW i \in Queue'  PROVE Enduring(i)'
      OBVIOUS
    <3>1. CASE i \in Queue
      BY <3>1, <2>1, <1>7 DEF Strong, KindInv
    <3>2. CASE i = n /\ i \notin Queue
      <4>1. e.kind = "enduring"
        BY <3>2, <1>3
      <4>. QED  BY <4>1, <3>2, <1>2 DEF Enduring, Kind
    <3>. QED  BY <3>1, <3>2, <1>4
  <2>4. \A i \in Projecting' \cup Queued' : Ephemeral(i)'
    BY <2>1, <1>1, <1>7 DEF Strong, KindInv, Ephemeral
  <2>5. \A i \in Pending' : Kind(i)' \in {"text", "big"} /\ KeyOf(i)' = PendingKey'
    BY <2>1, <2>2, <1>1, <1>7 DEF Strong, KindInv
  <2>. QED  BY <1>1, <2>3, <2>4, <2>5 DEF Strong, KindInv
<1>10. \A i \in Queue : i \in Queue' \/ Past(i)'
  <2> SUFFICES ASSUME NEW i \in Queue, Queue' = {}  PROVE Past(i)'
    BY <1>3
  <2>1. pump' = "closed"
    BY <1>3
  <2>. QED  BY <2>1, <1>1 DEF Past, Flow, Strong, OrderInv, Precedes
<1>11. JournalInv'
  <2> SUFFICES ASSUME NEW i \in 1..Len(made'), Enduring(i)'
               PROVE  i \in Wire' \/ i \in Queue' \/ Past(i)'
    BY DEF JournalInv
  <2>1. CASE i \in 1..Len(made)
    <3>1. i \in Wire \/ i \in Queue
      BY <2>1, <1>1, <1>7 DEF Strong, JournalInv, Past
    <3>. QED  BY <3>1, <1>1, <1>10
  <2>2. CASE i = n
    <3>1. e.kind = "enduring"
      BY <2>2, <1>2 DEF Enduring, Kind
    <3>2. n \in Queue' \/ (pump' = "closed" /\ Flow' \subseteq Flow)
      BY <3>1, <1>1, <1>3 DEF Flow
    <3>3. \A j \in Flow : j < n
      BY <1>2, <1>4
    <3>. QED  BY <2>2, <3>2, <3>3 DEF Past
  <2>. QED  BY <2>1, <2>2, <1>8
<1>12. TextInv'
  <2> SUFFICES ASSUME NEW i \in 1..Len(made'), IsText(i)', i \notin (Flow \cup unmarked)'
               PROVE  /\ \A j \in (Wire \cup Pending)' :
                           Kind(j)' = "text" /\ KeyOf(j)' = KeyOf(i)' /\ i < j => Between(i, j)'
                      /\ Accounted(i)'
    BY DEF TextInv
  <2>1. i \in 1..Len(made)
    <3> SUFFICES ASSUME i = n  PROVE FALSE
      BY <1>8
    <3>1. e.kind \in {"text", "big"}
      BY <1>2 DEF IsText, Kind
    <3>. QED  BY <3>1, <1>3 DEF Flow
  <2>2. CASE i \in Flow
    <3>1. i \in Queue /\ Past(i)'
      BY <2>2, <1>1, <1>10 DEF Flow
    <3>2. \A j \in (Wire \cup Pending)' : j < i /\ j \in Nat /\ i \in Nat
      BY <3>1, <1>1, <1>4, <2>1 DEF Past, Flow
    <3>. QED  BY <3>1, <3>2 DEF Accounted
  <2>3. CASE i \notin Flow
    <3>1. /\ \A j \in Wire \cup Pending :
               Kind(j) = "text" /\ KeyOf(j) = KeyOf(i) /\ i < j => Between(i, j)
          /\ Accounted(i)
      BY <2>1, <2>3, <1>4, <1>7 DEF Strong, TextInv
    <3>2. \A b \in 1..Len(made) : Boundary(b, i)' <=> Boundary(b, i)
      BY <2>1, <1>2, <1>7 DEF Boundary
    <3>3. \A j \in Wire \cup Pending : Between(i, j) => Between(i, j)'
      <4> SUFFICES ASSUME NEW j \in Wire \cup Pending, Between(i, j)  PROVE Between(i, j)'
        OBVIOUS
      <4>1. PICK b \in i..j : Boundary(b, i)
        BY DEF Between, Boundary
      <4>2. b \in 1..Len(made)
        <5>1. j \in 1..Len(made)
          BY <1>4 DEF Flow
        <5>. QED  BY <5>1, <2>1, <1>2
      <4>. QED  BY <4>1, <4>2, <3>2 DEF Between, Boundary
    <3>4. Accounted(i)'
      <4>1. CASE KeyOf(i) \in gapped /\ Precedes({i}, Later)
        <5>1. KeyOf(i)' \in gapped'
          BY <4>1, <2>1, <1>4, <1>7
        <5>2. Precedes({i}, Later')
          <6>1. i < n
            BY <2>1, <1>2
          <6>. QED  BY <4>1, <6>1, <1>4 DEF Precedes
        <5>. QED  BY <5>1, <5>2 DEF Accounted
      <4>2. CASE \E b \in Wire : i < b /\ Boundary(b, i)
        BY <4>2, <3>2, <1>1, <1>4 DEF Accounted, Flow
      <4>. QED  BY <4>1, <4>2, <3>1, <1>1 DEF Accounted, Past
    <3>. QED  BY <3>1, <3>3, <3>4, <2>1, <1>1, <1>4, <1>7 DEF Flow
  <2>. QED  BY <2>2, <2>3
<1>. QED  BY <1>5, <1>6, <1>9, <1>11, <1>12, Going DEF Strong

\* The pending frame goes out while the worker is idle.
LEMMA FlushTickKeeps ==
  ASSUME TypeOK, Strong, FlushTick
  PROVE  IndInv'
<1>1. PICK f \in flush : wire' = f.wire /\ pending' = f.pending
  BY DEF FlushTick
<1>2. /\ live /\ live' = live /\ made' = made /\ pump' = pump /\ gapped' = gapped
      /\ UNCHANGED <<projecting, queued, queue, unmarked>>
      /\ Projecting' = Projecting /\ Queued' = Queued /\ Queue' = Queue
  BY DEF FlushTick, pumpVars, Projecting, Queued, Queue
<1>3. /\ wire' \in Seq(Nat) /\ pending' \in Seq(Nat) /\ Increasing(wire') /\ Increasing(pending')
      /\ Wire' \cup Pending' = Wire \cup Pending /\ Wire \subseteq Wire' /\ Pending' \subseteq Pending
      /\ Precedes(Wire', Pending') /\ pending' \in {pending, <<>>}
  BY <1>1, Flushed DEF Strong, Wire, Pending
<1>4. Flow' = Flow /\ Later' = Later
  BY <1>2, <1>3 DEF Flow, Later
<1>5. TypeOK'
  BY <1>2, <1>3 DEF TypeOK
<1>6. OrderInv'
  BY <1>2, <1>3, <1>4 DEF Strong, OrderInv, Precedes
<1>7. KindInv'
  <2>1. CASE pending' = pending
    BY <2>1, <1>2 DEF Strong, KindInv, Kind, KeyOf, PendingKey, Ephemeral, Pending
  <2>2. CASE pending' = <<>>
    <3>1. Pending' = {}
      BY <2>2, NothingIn DEF Pending
    <3>. QED  BY <3>1, <1>2 DEF Strong, KindInv, Kind, Ephemeral
  <2>. QED  BY <2>1, <2>2, <1>3
<1>8. JournalInv'
  BY <1>2, <1>3, <1>4, JournalStep DEF Strong
<1>9. TextInv'
  <2>1. \A i : KeyOf(i) \in gapped /\ Precedes({i}, Later) => Accounted(i)'
    BY <1>2, <1>4, Gapped
  <2>. QED  BY <2>1, <1>2, <1>3, <1>4, TextStep DEF Strong
<1>. QED  BY <1>5, <1>6, <1>7, <1>8, <1>9, Going DEF Strong

\* What the worker has just projected is between what was offered to the
\* transport and all that is to come.
LEMMA Projected ==
  ASSUME TypeOK, Strong, Projects, UNCHANGED <<pumpVars, tail>>
  PROVE  /\ live /\ live' = live /\ made' = made /\ pump' = pump /\ queue' = queue
         /\ projecting \in Nat \ {0} /\ projecting \in 1..Len(made)
         /\ Projecting = {projecting} /\ Ephemeral(projecting)
         /\ projecting' \in Nat /\ queued' \in Seq(Nat) /\ Increasing(queued')
         /\ (projecting' = 0 => queued' = <<>>)
         /\ Projecting' \cup Queued' = Queued /\ Precedes(Projecting', Queued') /\ Queue' = Queue
         /\ Later = {projecting} \cup Later' /\ Precedes({projecting}, Later')
         /\ Precedes(Wire \cup Pending, {projecting})
<1>1. /\ live /\ live' = live /\ made' = made /\ pump' = pump /\ queue' = queue
      /\ Projecting = {projecting} /\ Queue' = Queue
  BY DEF Projects, pumpVars, Projecting, Queue
<1>2. projecting \in Nat \ {0} /\ projecting \in 1..Len(made) /\ Ephemeral(projecting)
  BY <1>1 DEF Projects, TypeOK, Strong, OrderInv, Flow, KindInv
<1>3. /\ projecting' \in Nat /\ queued' \in Seq(Nat) /\ Increasing(queued')
      /\ (projecting' = 0 => queued' = <<>>)
      /\ Projecting' \cup Queued' = Queued /\ Precedes(Projecting', Queued')
  BY Started DEF Projects, Strong
<1>4. Later = {projecting} \cup Later'
  BY <1>1, <1>3 DEF Later
<1>5. Precedes({projecting}, Later') /\ Precedes(Wire \cup Pending, {projecting})
  BY <1>1, <1>3 DEF Later, Precedes, Strong, OrderInv
<1>. QED  BY <1>1, <1>2, <1>3, <1>4, <1>5

\* The order is kept if wire and pending frame hold no more than they did and
\* what was projected.
LEMMA ProjectedOrder ==
  ASSUME TypeOK, Strong, Projects, UNCHANGED <<pumpVars, tail>>,
         wire' \in Seq(Nat), pending' \in Seq(Nat), Increasing(wire'), Increasing(pending'),
         Wire' \cup Pending' \subseteq Wire \cup Pending \cup {projecting},
         Precedes(Wire', Pending')
  PROVE  TypeOK' /\ OrderInv' /\ Flow' \subseteq Flow /\ Later' \subseteq Later
<1>1. TypeOK'
  BY Projected DEF TypeOK
<1>2. Flow' \subseteq Flow /\ Later' \subseteq Later
  BY Projected DEF Flow, Later
<1>3. Precedes(Wire' \cup Pending', Later')
  <2>1. Precedes(Wire \cup Pending \cup {projecting}, Later')
    BY Projected DEF Strong, OrderInv, Precedes, Later
  <2>. QED  BY <2>1 DEF Precedes
<1>4. Precedes(Projecting', Queued' \cup Queue') /\ Precedes(Queued', Queue')
  BY Projected DEF Strong, OrderInv, Precedes
<1>5. Increasing(queue') /\ Increasing(queued') /\ Flow' \subseteq 1..Len(made')
  BY <1>2, Projected DEF Strong, OrderInv
<1>6. /\ Precedes(Wire', Pending' \cup Projecting' \cup Queued' \cup Queue')
      /\ Precedes(Pending', Projecting' \cup Queued' \cup Queue')
  BY <1>3 DEF Precedes, Later
<1>. QED  BY <1>1, <1>2, <1>4, <1>5, <1>6 DEF OrderInv

\* No committed event is in the worker's hands.
LEMMA ProjectedJournal ==
  ASSUME TypeOK, Strong, Projects, UNCHANGED <<pumpVars, tail>>,
         Flow' \subseteq Flow, Wire \subseteq Wire'
  PROVE  JournalInv'
BY Projected, JournalStep DEF Strong

\* The previews that are left are the worker's next ones.
LEMMA ProjectedKind ==
  ASSUME TypeOK, Strong, Projects, UNCHANGED <<pumpVars, tail>>,
         \A i \in Pending' : Kind(i) \in {"text", "big"} /\ KeyOf(i) = KeyOf(pending'[1])
  PROVE  KindInv'
<1>1. \A i \in Projecting' \cup Queued' : Ephemeral(i)
  BY Projected DEF Strong, KindInv
<1>. QED  BY <1>1, Projected DEF KindInv, Kind, KeyOf, PendingKey, Ephemeral

\* A projection that fails leaves the text without a mark.
LEMMA ProjectionFailsKeeps ==
  ASSUME TypeOK, Strong, ProjectionFails
  PROVE  IndInv'
<1>1. /\ Projects /\ UNCHANGED <<pumpVars, tail>> /\ made' = made
      /\ pending' = pending /\ wire' = wire /\ gapped' = gapped
      /\ unmarked' = unmarked \cup {projecting} /\ Wire' = Wire /\ Pending' = Pending
  BY DEF ProjectionFails, Wire, Pending, pumpVars
<1>2. TypeOK' /\ OrderInv' /\ Flow' \subseteq Flow /\ Later' \subseteq Later
  BY <1>1, ProjectedOrder DEF TypeOK, Strong, OrderInv, Precedes
<1>3. KindInv'
  BY <1>1, ProjectedKind DEF Strong, KindInv, PendingKey
<1>4. JournalInv'
  BY <1>1, <1>2, ProjectedJournal
<1>5. TextInv'
  <2>1. \A i : KeyOf(i) \in gapped /\ Precedes({i}, Later) => Accounted(i)'
    BY <1>1, <1>2, Gapped DEF Precedes
  <2>2. Flow \subseteq (Flow \cup unmarked)'
    BY <1>1, Projected DEF Flow
  <2>3. pump' = pump
    BY <1>1, Projected
  <2>. QED  BY <2>1, <2>2, <2>3, <1>1, <1>2, TextStep DEF Strong
<1>. QED  BY <1>2, <1>3, <1>4, <1>5, Going DEF Strong

\* A tool step goes out after the text that was pending, or not at all.
LEMMA ToolProjectedKeeps ==
  ASSUME TypeOK, Strong, ToolProjected
  PROVE  IndInv'
<1>1. /\ Projects /\ UNCHANGED <<pumpVars, tail>> /\ made' = made /\ pump' = pump
      /\ gapped' = gapped /\ unmarked' = unmarked /\ Kind(projecting) = "tool"
  BY DEF ToolProjected, pumpVars
<1>2. PICK f \in flush :
        /\ pending' = f.pending
        /\ \/ f.pending = <<>> /\ wire' \in TryPublishEphemeral(f.wire, <<projecting>>)
           \/ f.pending # <<>> /\ wire' = f.wire
  BY DEF ToolProjected, publishToolStep
<1>3. /\ f.wire \in Seq(Nat) /\ f.pending \in Seq(Nat)
      /\ Increasing(f.wire) /\ Increasing(f.pending)
      /\ Range(f.wire) \cup Range(f.pending) = Wire \cup Pending
      /\ Wire \subseteq Range(f.wire) /\ Range(f.pending) \subseteq Pending
      /\ Precedes(Range(f.wire), Range(f.pending)) /\ f.pending \in {pending, <<>>}
  BY Flushed DEF Strong
<1>4. /\ wire' \in Seq(Nat) /\ Increasing(wire') /\ Precedes(Wire', Pending')
      /\ Range(f.wire) \subseteq Wire' /\ Wire' \subseteq Range(f.wire) \cup {projecting}
      /\ Pending' = Range(f.pending)
  <2>1. CASE wire' = f.wire
    BY <2>1, <1>2, <1>3 DEF Wire, Pending
  <2>2. CASE f.pending = <<>> /\ wire' = f.wire \o <<projecting>>
    <3>1. wire' = Append(f.wire, projecting)
      <4>1. projecting \in Nat
        BY <1>1, Projected
      <4>2. Append(f.wire, projecting) = f.wire \o <<projecting>>
        BY <4>1, <1>3, AppendIsConcat
      <4>. QED  BY <4>2, <2>2
    <3>2. Precedes(Range(f.wire), {projecting}) /\ projecting \in Nat
      BY <1>1, <1>3, Projected DEF Precedes
    <3>3. wire' \in Seq(Nat) /\ Increasing(wire') /\ Wire' = Range(f.wire) \cup {projecting}
      <4>1. /\ Append(f.wire, projecting) \in Seq(Nat) /\ Increasing(Append(f.wire, projecting))
            /\ Range(Append(f.wire, projecting)) = Range(f.wire) \cup {projecting}
        BY <3>2, <1>3, AppendLater
      <4>. QED  BY <3>1, <4>1 DEF Wire
    <3>4. Pending' = {} /\ Range(f.pending) = {}
      BY <2>2, <1>2, NothingIn DEF Pending
    <3>. QED  BY <3>3, <3>4 DEF Precedes
  <2>. QED  BY <2>1, <2>2, <1>2 DEF TryPublishEphemeral
<1>5. TypeOK' /\ OrderInv' /\ Flow' \subseteq Flow /\ Later' \subseteq Later
  BY <1>1, <1>2, <1>3, <1>4, ProjectedOrder
<1>6. KindInv'
  <2>1. CASE pending' = pending
    BY <2>1, <1>1, ProjectedKind DEF Strong, KindInv, PendingKey, Pending
  <2>2. CASE pending' = <<>>
    BY <2>2, <1>1, ProjectedKind, NothingIn DEF Pending
  <2>. QED  BY <2>1, <2>2, <1>2, <1>3
<1>7. JournalInv'
  BY <1>1, <1>3, <1>4, <1>5, ProjectedJournal
<1>8. TextInv'
  <2>1. \A i : KeyOf(i) \in gapped /\ Precedes({i}, Later) => Accounted(i)'
    BY <1>1, <1>5, Gapped DEF Precedes
  <2>2. Flow \subseteq Flow' \cup {projecting}
    BY <1>1, <1>3, <1>4, Projected DEF Flow
  <2>3. ~IsText(projecting) /\ Kind(projecting) # "text"
    BY <1>1 DEF IsText
  <2>4. \A j \in (Wire \cup Pending)' : j \in Wire \cup Pending \/ Kind(j) # "text"
    BY <2>3, <1>3, <1>4
  <2>. QED  BY <2>1, <2>2, <2>3, <2>4, <1>1, <1>3, <1>4, <1>5, TextStep DEF Strong
<1>. QED  BY <1>5, <1>6, <1>7, <1>8, Going DEF Strong

\* The chunks of the pending frame that is given up are of the text that is gapped.
LEMMA GivenUpKeys ==
  ASSUME TypeOK, Strong, NEW f \in flush, NEW i \in Range(f.pending)
  PROVE  KeyOf(i) \in GivenUp(f.pending) /\ pending # <<>> /\ KeyOf(i) = PendingKey
<1>1. f.pending # <<>>
  BY NothingIn
<1>2. f.pending = pending /\ i \in Pending
  BY <1>1, Flushed DEF Strong, Pending
<1>3. KeyOf(i) = PendingKey
  BY <1>2 DEF Strong, KindInv
<1>. QED  BY <1>1, <1>2, <1>3 DEF GivenUp, PendingKey

\* The text of a chunk that is given up unprojected is gapped.
LEMMA OvertakenKeys ==
  ASSUME NEW i \in Projecting \cup Queued, IsText(i)
  PROVE  KeyOf(i) \in Overtaken
BY DEF Overtaken, markGap, Projecting, Queued, IsText

\* A committed event overtakes every preview: their texts are gapped, unless the
\* event is the boundary that clears them and is on the wire.
LEMMA RelayEnduringKeeps ==
  ASSUME TypeOK, Strong, relayEnduring
  PROVE  IndInv'
<1>0. PICK h : h = Head(queue)
  OBVIOUS
<1>1. /\ live /\ live' = live /\ made' = made /\ pump' = pump /\ queue # <<>> /\ Taken /\ tail = "running"
      /\ projecting' = 0 /\ queued' = <<>> /\ pending' = <<>> /\ unmarked' = unmarked
      /\ Projecting' = {} /\ Queued' = {} /\ Pending' = {} /\ Enduring(h)
  BY <1>0, NothingIn DEF relayEnduring, TakesEnduring, Takes, Taken, Projecting, Queued, Pending
<1>2. /\ queue' \in Seq(Nat) /\ Increasing(queue')
      /\ h \in Queue /\ h \in 1..Len(made) /\ h \in Nat
      /\ Queue = {h} \cup Queue' /\ Precedes({h}, Queue')
      /\ Precedes(Wire \cup Pending \cup Projecting \cup Queued, {h})
  BY <1>0, <1>1, HeadTaken DEF Strong
<1>3. PICK f \in flush :
        /\ publish(Head(queue), f.wire)
        /\ gapped' = clearBoundary(Head(queue), gapped \cup Overtaken \cup GivenUp(f.pending))
  BY ZenonT(20) DEF relayEnduring
<1>4. /\ f.wire \in Seq(Nat) /\ Increasing(f.wire)
      /\ Range(f.wire) \cup Range(f.pending) = Wire \cup Pending
      /\ Wire \subseteq Range(f.wire) /\ Range(f.pending) \subseteq Pending
      /\ Precedes(Range(f.wire), Range(f.pending)) /\ f.wire \in {wire, wire \o pending}
  BY Flushed DEF Strong
<1>5. CASE tail' # "running" /\ wire' = f.wire
  <2>1. queued' \in Seq(Nat) /\ pending' \in Seq(Nat) /\ projecting' \in Nat
    BY <1>1, NothingIn
  <2>2. TypeOK' /\ ~Open'
    BY <2>1, <1>1, <1>2, <1>4, <1>5 DEF TypeOK, Open
  <2>. QED  BY <2>2, <1>1, <1>4, <1>5, Ending
<1>6. CASE wire' = Append(f.wire, h)
  <2>1. wire' \in Seq(Nat) /\ Increasing(wire') /\ Wire' = Range(f.wire) \cup {h}
    <3>1. Precedes(Range(f.wire), {h})
      BY <1>2, <1>4 DEF Precedes
    <3>2. /\ Append(f.wire, h) \in Seq(Nat) /\ Increasing(Append(f.wire, h))
          /\ Range(Append(f.wire, h)) = Range(f.wire) \cup {h}
      BY <3>1, <1>2, <1>4, AppendLater
    <3>. QED  BY <3>2, <1>6 DEF Wire
  <2>2. Flow' \subseteq Flow /\ Later' = Queue' /\ Queue \subseteq Later /\ Later' \subseteq Later
    BY <1>1, <1>2, <1>4, <2>1 DEF Flow, Later
  <2>3. TypeOK'
    <3>1. queued' \in Seq(Nat) /\ pending' \in Seq(Nat) /\ projecting' \in Nat
      BY <1>1, NothingIn
    <3>. QED  BY <3>1, <1>1, <1>2, <2>1 DEF TypeOK
  <2>4. OrderInv'
    <3>1. Increasing(queued') /\ Increasing(pending') /\ Flow' \subseteq 1..Len(made')
      BY <1>1, <2>2, NothingIn DEF Strong, OrderInv
    <3>2. Precedes(Wire', Queue')
      <4>1. Wire' \subseteq Wire \cup Pending \cup {h} /\ Queue' \subseteq Queue
        BY <1>2, <1>4, <2>1
      <4>2. Precedes(Wire \cup Pending, Queue)
        BY DEF Strong, OrderInv, Precedes
      <4>. QED  BY <4>1, <4>2, <1>2 DEF Precedes
    <3>. QED  BY <3>1, <3>2, <1>1, <1>2, <2>1 DEF OrderInv, Precedes
  <2>5. KindInv'
    BY <1>1 DEF KindInv
  <2>6. JournalInv'
    BY <1>1, <1>2, <1>4, <2>1, <2>2, JournalStep DEF Strong
  <2>7. ASSUME NEW i \in 1..Len(made), IsText(i), i < h,
               KeyOf(i) \in gapped \cup Overtaken \cup GivenUp(f.pending)
        PROVE  Accounted(i)'
    <3>1. CASE KeyOf(i) \in gapped'
      <4>1. Precedes({i}, Queue')
        <5>1. \A u \in Queue' : h < u /\ u \in Nat
          <6>1. Queue \subseteq 1..Len(made)
            BY DEF Strong, OrderInv, Flow
          <6>. QED  BY <6>1, <1>2 DEF Precedes
        <5>2. \A u \in Queue' : i < u
          BY <5>1, <2>7, <1>2
        <5>. QED  BY <5>2 DEF Precedes
      <4>. QED  BY <3>1, <4>1, <1>1, <2>2, Gapped
    <3>2. CASE KeyOf(i) \notin gapped'
      <4>1. made[h].of = "all" \/ LoopOf[KeyOf(i)] = made[h].of
        BY <3>2, <2>7, <1>0, <1>3 DEF clearBoundary, BoundaryLoop
      <4>2. Boundary(h, i)'
        BY <4>1, <1>1 DEF Boundary, Enduring, Kind, KeyOf
      <4>. QED  BY <4>2, <2>1, <2>7 DEF Accounted
    <3>. QED  BY <3>1, <3>2
  <2>8. TextInv'
    <3>1. \A j \in (Wire \cup Pending)' : j \in Wire \cup Pending \/ Kind(j) # "text"
      BY <1>1, <1>4, <2>1 DEF Enduring
    <3>2. ASSUME NEW i \in Flow, IsText(i), i \notin (Flow \cup unmarked)'
          PROVE  /\ Accounted(i)'
                 /\ \A j \in (Wire \cup Pending)' : KeyOf(j) = KeyOf(i) /\ Kind(j) = "text" => j <= i
      <4>1. i \in Range(f.pending) \/ i \in Projecting \cup Queued
        BY <3>2, <1>2, <1>4, <2>1 DEF Flow
      <4>2. KeyOf(i) \in gapped \cup Overtaken \cup GivenUp(f.pending)
        BY <4>1, <3>2, GivenUpKeys, OvertakenKeys
      <4>3. i < h /\ i \in 1..Len(made)
        BY <4>1, <1>2, <1>4 DEF Precedes, Strong, OrderInv, Flow
      <4>4. \A j \in Range(f.wire) : j < i
        BY <4>1, <1>4 DEF Precedes, Strong, OrderInv
      <4>5. \A j \in Wire' : Kind(j) = "text" => j < i /\ j \in Nat /\ i \in Nat
        BY <4>3, <4>4, <2>1, <2>2, <1>1 DEF Enduring, Flow, Strong, OrderInv
      <4>6. \A j \in Wire' : Kind(j) = "text" => j <= i
        BY <4>5
      <4>. QED  BY <4>2, <4>3, <4>6, <3>2, <2>7, <1>1
    <3>3. \A i \in 1..Len(made) :
            IsText(i) /\ KeyOf(i) \in gapped /\ Precedes({i}, Later) => Accounted(i)'
      BY <2>7, <2>2, <1>2 DEF Precedes
    <3>. QED  BY <3>1, <3>2, <3>3, <1>1, <1>4, <2>1, <2>2, TextStep DEF Strong
  <2>. QED  BY <2>3, <2>4, <2>5, <2>6, <2>8, Going DEF Strong
<1>. QED  BY <1>0, <1>1, <1>3, <1>5, <1>6 DEF publish

\* A chunk joins the pending frame, takes its place or is given up, and a text
\* that loses a chunk is gapped.
LEMMA TextProjectedKeeps ==
  ASSUME TypeOK, Strong, TextProjected
  PROVE  IndInv'
<1>0. PICK p : p = projecting
  OBVIOUS
<1>1. /\ Projects /\ UNCHANGED <<pumpVars, tail>> /\ made' = made /\ pump' = pump
      /\ unmarked' = unmarked /\ Kind(p) # "tool"
  BY <1>0 DEF TextProjected, pumpVars
<1>2. /\ p \in Nat /\ p \in 1..Len(made) /\ Projecting = {p} /\ Kind(p) \in {"text", "big"}
      /\ Later = {p} \cup Later' /\ Precedes({p}, Later') /\ Precedes(Wire \cup Pending, {p})
  BY <1>0, <1>1, Projected DEF Ephemeral, Previews
\* It is enough to say what becomes of wire, pending frame and gaps.
<1>3. ASSUME wire' \in Seq(Nat), pending' \in Seq(Nat), Increasing(wire'), Increasing(pending'),
             Wire' \cup Pending' \subseteq Wire \cup Pending \cup {p}, Wire \subseteq Wire',
             Precedes(Wire', Pending'), gapped \subseteq gapped',
             p \in Wire' \cup Pending' => KeyOf(p) \notin gapped,
             \A i \in Pending' : Kind(i) \in {"text", "big"} /\ KeyOf(i) = KeyOf(pending'[1]),
             \A i \in Pending \cup {p} : i \notin Wire' \cup Pending' =>
               /\ KeyOf(i) \in gapped'
               /\ \A j \in Wire' \cup Pending' : KeyOf(j) = KeyOf(i) => j < i
      PROVE  IndInv'
  <2>1. TypeOK' /\ OrderInv' /\ Flow' \subseteq Flow /\ Later' \subseteq Later
    BY <1>0, <1>1, <1>3, ProjectedOrder
  <2>2. KindInv'
    BY <1>1, <1>3, ProjectedKind
  <2>3. JournalInv'
    BY <1>1, <1>3, <2>1, ProjectedJournal
  <2>4. \A i \in 1..Len(made) :
          IsText(i) /\ KeyOf(i) \in gapped /\ Precedes({i}, Later) => Accounted(i)'
    BY <1>1, <1>3, <2>1, Gapped DEF Precedes
  <2>5. ASSUME NEW i \in Flow, i \notin (Flow \cup unmarked)'
        PROVE  /\ Accounted(i)'
               /\ \A j \in (Wire \cup Pending)' : KeyOf(j) = KeyOf(i) /\ Kind(j) = "text" => j <= i
    <3>1. i \in Pending \cup {p} /\ i \notin Wire' \cup Pending'
      BY <2>5, <1>2, <1>3 DEF Flow, Later
    <3>2. Precedes({i}, Later')
      BY <3>1, <1>2, <2>1 DEF Precedes, Strong, OrderInv, Later
    <3>3. \A j \in (Wire \cup Pending)' : KeyOf(j) = KeyOf(i) => j < i
      BY <3>1, <1>3
    <3>4. \A j \in (Wire \cup Pending)' : j \in Nat /\ i \in Nat
      <4>1. Flow \subseteq Nat /\ (Wire \cup Pending)' \subseteq Flow'
        BY DEF Strong, OrderInv, Flow
      <4>. QED  BY <4>1, <2>1, <2>5
    <3>5. \A j \in (Wire \cup Pending)' : KeyOf(j) = KeyOf(i) => j <= i
      BY <3>3, <3>4
    <3>. QED  BY <3>1, <3>2, <3>5, <1>1, <1>3, Gapped
  <2>6. \A j \in (Wire \cup Pending)' :
          j \in Wire \cup Pending \/ (j \in Projecting /\ KeyOf(j) \notin gapped)
    BY <1>2, <1>3
  <2>7. TextInv'
    BY <2>1, <2>4, <2>5, <2>6, <1>1, <1>3, TextStep DEF Strong
  <2>. QED  BY <2>1, <2>2, <2>3, <2>7, Going DEF Strong
<1>4. /\ wire \in Seq(Nat) /\ pending \in Seq(Nat) /\ Increasing(wire) /\ Increasing(pending)
      /\ Precedes(Wire, Pending)
      /\ \A i \in Pending : Kind(i) \in {"text", "big"} /\ KeyOf(i) = KeyOf(pending[1])
  BY DEF TypeOK, Strong, OrderInv, KindInv, PendingKey, Precedes
<1>5. p \notin Wire \cup Pending
  BY <1>2 DEF Precedes
<1>6. CASE KeyOf(p) \in gapped' /\ gapped \subseteq gapped' /\ UNCHANGED <<pending, wire>>
  <2>1. Wire' = Wire /\ Pending' = Pending
    BY <1>6 DEF Wire, Pending
  <2>2. \A j \in Wire' \cup Pending' : j < p
    BY <2>1, <1>2 DEF Precedes
  <2>. QED  BY <2>1, <2>2, <1>3, <1>4, <1>5, <1>6
<1>7. CASE KeyOf(p) \notin gapped /\ pending # <<>> /\ PendingKey = KeyOf(p) /\ Merges(p)
  <2>1. CASE pending' = Append(pending, p) /\ UNCHANGED <<gapped, wire>>
    <3>1. /\ pending' \in Seq(Nat) /\ Increasing(pending') /\ Pending' = Pending \cup {p}
      <4>1. Precedes(Range(pending), {p})
        BY <1>2 DEF Precedes, Pending
      <4>2. /\ Append(pending, p) \in Seq(Nat) /\ Increasing(Append(pending, p))
            /\ Range(Append(pending, p)) = Range(pending) \cup {p}
        BY <4>1, <1>2, <1>4, AppendLater
      <4>. QED  BY <4>2, <2>1 DEF Pending
    <3>2. pending'[1] = pending[1]
      BY <2>1, <1>4, <1>7, <1>2
    <3>3. \A i \in Pending' : Kind(i) \in {"text", "big"} /\ KeyOf(i) = KeyOf(pending'[1])
      BY <3>1, <3>2, <1>2, <1>4, <1>7 DEF PendingKey
    <3>4. Wire' = Wire /\ Precedes(Wire', Pending')
      BY <2>1, <3>1, <1>2, <1>4 DEF Wire, Precedes
    <3>. QED  BY <2>1, <3>1, <3>3, <3>4, <1>3, <1>4, <1>7
  <2>2. CASE pending' = <<>> /\ gapped' = gapped \cup {KeyOf(p)} /\ UNCHANGED wire
    <3>1. Pending' = {} /\ Wire' = Wire /\ pending' \in Seq(Nat) /\ Increasing(pending')
      BY <2>2, NothingIn DEF Pending, Wire
    <3>2. \A i \in Pending \cup {p} : KeyOf(i) = KeyOf(p) /\ \A j \in Wire : j < i
      BY <1>2, <1>4, <1>7 DEF Precedes, PendingKey
    <3>. QED  BY <2>2, <3>1, <3>2, <1>3, <1>4, <1>5 DEF Precedes
  <2>. QED  BY <2>1, <2>2, <1>7 DEF Merges
<1>8. CASE KeyOf(p) \notin gapped /\ ~(pending # <<>> /\ PendingKey = KeyOf(p)) /\ Replaces(p)
  <2>1. PICK f \in flush : /\ wire' = f.wire /\ gapped' = gapped \cup GivenUp(f.pending)
                           /\ pending' = <<p>>
    BY <1>8 DEF Replaces
  <2>2. /\ f.wire \in Seq(Nat) /\ Increasing(f.wire)
        /\ Range(f.wire) \cup Range(f.pending) = Wire \cup Pending
        /\ Wire \subseteq Range(f.wire) /\ Precedes(Range(f.wire), Range(f.pending))
    BY Flushed DEF Strong
  <2>3. /\ pending' \in Seq(Nat) /\ Increasing(pending') /\ Pending' = {p}
        /\ Wire' = Range(f.wire)
    BY <2>1, <1>2, OneIn DEF Pending, Wire
  <2>4. pending'[1] = p
    BY <2>1
  <2>5. Precedes(Wire', Pending')
    BY <2>2, <2>3, <1>2 DEF Precedes
  <2>6. \A i \in Pending \cup {p} : i \notin Wire' \cup Pending' => i \in Range(f.pending)
    BY <2>2, <2>3
  <2>7. \A i \in Range(f.pending) :
          /\ KeyOf(i) \in gapped'
          /\ \A j \in Wire' \cup Pending' : KeyOf(j) = KeyOf(i) => j < i
    <3> SUFFICES ASSUME NEW i \in Range(f.pending)
                 PROVE  /\ KeyOf(i) \in gapped'
                        /\ \A j \in Wire' \cup Pending' : KeyOf(j) = KeyOf(i) => j < i
      OBVIOUS
    <3>1. KeyOf(i) \in GivenUp(f.pending) /\ pending # <<>> /\ KeyOf(i) = PendingKey
      BY GivenUpKeys
    <3>. QED  BY <3>1, <2>1, <2>2, <2>3, <1>8 DEF Precedes
  <2>8. \A i \in Pending' : Kind(i) \in {"text", "big"} /\ KeyOf(i) = KeyOf(pending'[1])
    BY <2>3, <2>4, <1>2
  <2>9. wire' \in Seq(Nat) /\ Increasing(wire') /\ gapped \subseteq gapped'
    BY <2>1, <2>2
  <2>. QED  BY <2>2, <2>3, <2>5, <2>6, <2>7, <2>8, <2>9, <1>3, <1>8
<1>. QED  BY <1>0, <1>6, <1>7, <1>8 DEF TextProjected

-----------------------------------------------------------------------------

\* No step breaks the invariant.
LEMMA NextKeeps ==
  ASSUME IndInv, [Next]_vars
  PROVE  IndInv'
<1>1. CASE UNCHANGED vars
  <2>1. UNCHANGED <<live, made, pump, queue, tail, projecting, queued, pending, gapped, unmarked, wire>>
    BY <1>1 DEF vars, pumpVars, previewVars
  <2>. QED  BY <2>1, Unchanged
<1>2. CASE Stop
  <2>1. UNCHANGED <<live, made, pump, queue, tail, projecting, queued, pending, gapped, unmarked, wire>>
    BY <1>2 DEF Stop, previewVars
  <2>. QED  BY <2>1, Unchanged
<1>3. CASE Next /\ ~Stop
  <2>1. Open
    <3>1. (\E e \in Events : Deliver(e)) \/ PumpEnds => Open
      BY DEF Deliver, PumpEnds
    <3>2. relay \/ relayEnduring \/ relayEphemeral \/ relayTerminal => Open
      BY DEF relay, relayEnduring, relayEphemeral, relayTerminal, Takes, TakesEnduring, Open
    <3>3. StreamEnds \/ Stops \/ FlushTick => Open
      BY DEF StreamEnds, Stops, FlushTick, Open
    <3>4. ProjectionFails \/ ToolProjected \/ TextProjected => Open
      BY DEF ProjectionFails, ToolProjected, TextProjected, Projects, Open
    <3>. QED  BY <3>1, <3>2, <3>3, <3>4, <1>3 DEF Next, Relays
  <2>2. TypeOK /\ Strong
    BY <2>1 DEF IndInv
  <2>. QED  BY <2>2, <1>3, DeliverKeeps, PumpEndsKeeps, RelayKeeps, RelayEnduringKeeps,
                RelayEphemeralKeeps, EndsKeeps, FlushTickKeeps, ProjectionFailsKeeps,
                ToolProjectedKeeps, TextProjectedKeeps DEF Next, Relays
<1>. QED  BY <1>1, <1>2, <1>3

\* What every reachable state of a tail satisfies, whatever the events, the slots
\* and the length of the stream.
THEOREM Inductive == Spec => []IndInv
BY InitEstablishes, NextKeeps, PTL DEF Spec

\* What is on the wire is in the order the runtime made it, and nothing is there
\* twice: relayEnduring, publishToolStep and flush keep the order.
THEOREM WireIsInOrder == Spec => []WireKeepsOrder
<1>1. IndInv => WireKeepsOrder
  BY DEF IndInv
<1>. QED  BY <1>1, Inductive, PTL

\* No text is shown past a chunk of it that was lost before its loop commits the
\* step: markGap, Merge and clearBoundary account for every chunk.
THEOREM TextsHaveNoHole == Spec => []NoHoleInText
<1>1. IndInv => NoHoleInText
  BY DEF IndInv
<1>. QED  BY <1>1, Inductive, PTL

\* Nothing is on the wire after a committed event that is not: the pump ends
\* when it cannot hold one, and the relay when it cannot publish one.
THEOREM JournalHasNoHole == Spec => []NoHoleInJournal
<1>1. IndInv => NoHoleInJournal
  BY DEF IndInv
<1>. QED  BY <1>1, Inductive, PTL

=============================================================================
