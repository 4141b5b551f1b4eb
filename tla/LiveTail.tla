------------------------------ MODULE LiveTail -------------------------------
(* The live tail of one resident session, from the runtime's subscription to  *)
(* the wire: the pump of the bound session (harnessruntime/session.go) and    *)
(* the relay it feeds (service/events.go).  A tail is opened over committed   *)
(* events alone or over both classes; in the second kind previews of text and *)
(* of tool steps travel between the committed events, each projected by a     *)
(* worker, merged while they are adjacent, and given up under pressure.  A    *)
(* text that lost a part is gapped: nothing more of it is shown before its    *)
(* loop commits the step.  What a tail's end does to routes is Links'.        *)
EXTENDS Naturals, Sequences, Functions

CONSTANTS
  Keys,             \* texts: a loop, its turn and the kind of chunk
  LoopOf,           \* the loop of each text
  Events,           \* what the runtime may deliver
  EnduringSlots,    \* committedEgressBuffer
  EphemeralSlots,   \* liveEphemeralBuffer
  ProjectionSlots,  \* liveProjectionQueue
  FrameChunks,      \* chunks of a text that fit one frame
  MaxEvents         \* bound on deliveries

Loops == {LoopOf[k] : k \in Keys}

ASSUME TailAssumption ==
  /\ {EnduringSlots, EphemeralSlots, ProjectionSlots, FrameChunks, MaxEvents} \subseteq Nat \ {0}
  /\ Events \subseteq [kind : {"text", "big"}, of : Keys]
               \cup [kind : {"tool", "uncommitted"}, of : {"none"}]
               \cup [kind : {"enduring"}, of : Loops \cup {"none", "all"}]

VARIABLES
  live,        \* the tail carries previews
  made,        \* every delivery, in the order the runtime made them
  pump,        \* the pump: running, sending its last, or closed
  queue,       \* deliveries the pump holds for the relay
  tail,        \* Tail.end
  cancelled,   \* Tail.Stop was called
  projecting,  \* the preview a worker projects, 0 for none
  queued,      \* previews that wait for the worker
  pending,     \* the chunks of the one text frame held back for more
  gapped,      \* texts that lost a chunk
  wire,        \* what was published: deliveries in the order of their frames
  unmarked     \* previews dropped with no mark on their text

pumpVars == <<live, made, pump, queue, cancelled>>
previewVars == <<projecting, queued, pending, gapped, unmarked>>
vars == <<pumpVars, tail, previewVars, wire>>

Init ==
  /\ live \in BOOLEAN /\ made = <<>> /\ pump = "running" /\ queue = <<>>
  /\ tail = "running" /\ cancelled = FALSE
  /\ projecting = 0 /\ queued = <<>> /\ pending = <<>> /\ gapped = {}
  /\ wire = <<>> /\ unmarked = {}

Kind(i) == made[i].kind
Enduring(i) == Kind(i) = "enduring"
Previews == {"text", "big", "tool"}
Ephemeral(i) == Kind(i) \in Previews

\* What happens to a stream whose relay has ended is not followed.
Open == tail = "running"

-----------------------------------------------------------------------------
(* The pump.                                                                  *)

Holds(kinds) == Len(SelectSeq(queue, LAMBDA i : Kind(i) \in kinds))

Full(e) ==
  \/ e.kind = "enduring" /\ Holds({"enduring"}) = EnduringSlots
  \/ e.kind \in Previews /\ Holds(Previews) = EphemeralSlots

\* The pump of a live tail hands over one delivery at a time, and what it still
\* holds when it ends is gone; the other's channel is read to its end.
Closes ==
  /\ pump' = "closed"
  /\ queue' = IF live THEN <<>> ELSE queue

Holding(i) == queue' = Append(queue, i) /\ UNCHANGED pump

\* mutant of Overflows: a committed event that finds its slots taken is passed over
SkipsFull(i) == UNCHANGED <<queue, pump>>

\* A committed event that finds its slots taken ends the pump.
Overflows(i) == Closes

\* pumpLive: previews have slots of their own, and are dropped for want of one
\* or when the runtime's projector refuses them; a committed event without its
\* durable fields is the last thing sent.
pumpLive(e, i) ==
  \/ e.kind = "enduring" /\ ~Full(e) /\ Holding(i) /\ UNCHANGED unmarked
  \/ e.kind = "enduring" /\ Full(e) /\ Overflows(i) /\ UNCHANGED unmarked
  \/ /\ e.kind = "uncommitted"
     /\ queue' = Append(queue, i) /\ pump' = "last" /\ UNCHANGED unmarked
  \/ e.kind \in {"text", "big", "tool"} /\ ~Full(e) /\ Holding(i) /\ UNCHANGED unmarked
  \/ /\ e.kind \in {"text", "big", "tool"}
     /\ unmarked' = unmarked \cup {i} /\ UNCHANGED <<queue, pump>>

\* pump: the subscription is to committed events, and any other is skipped.
pumpCommitted(e, i) ==
  /\ UNCHANGED unmarked
  /\ \/ e.kind = "enduring" /\ ~Full(e) /\ Holding(i)
     \/ e.kind = "enduring" /\ Full(e) /\ Overflows(i)
     \/ e.kind = "uncommitted" /\ UNCHANGED <<queue, pump>>

Deliver(e) ==
  /\ pump = "running" /\ Open /\ Len(made) < MaxEvents
  /\ made' = Append(made, e)
  /\ IF live THEN pumpLive(e, Len(made)') ELSE pumpCommitted(e, Len(made)')
  /\ UNCHANGED <<live, cancelled, tail, projecting, queued, pending, gapped, wire>>

\* The subscription ends, or the tail's context.
PumpEnds ==
  /\ pump # "closed" /\ Open /\ Closes
  /\ UNCHANGED <<live, made, cancelled, tail, previewVars, wire>>

Stop ==
  /\ Open /\ ~cancelled /\ cancelled' = TRUE
  /\ UNCHANGED <<live, made, pump, queue, tail, previewVars, wire>>

-----------------------------------------------------------------------------
(* What both relays do with the stream.                                       *)

Takes == tail = "running" /\ queue # <<>>

Taken ==
  /\ queue' = Tail(queue)
  /\ UNCHANGED <<live, made, pump, cancelled>>

\* The relay is gone; a worker's answer is for nobody.
Ends(end) ==
  /\ tail' = end
  /\ projecting' = 0 /\ queued' = <<>> /\ pending' = <<>> /\ gapped' = {}

\* publish: the committed event is on the wire, or it is refused and the tail
\* ends, by the Host's own stop if that came first.
publish(i, shown) ==
  \/ wire' = Append(shown, i) /\ UNCHANGED tail
  \/ tail' = (IF cancelled THEN "stopped" ELSE "refused") /\ wire' = shown

\* The stream is closed: a stop, or a loss when nobody asked for it.
StreamEnds ==
  /\ tail = "running" /\ pump = "closed" /\ queue = <<>>
  /\ Ends(IF cancelled THEN "stopped" ELSE "lost")
  /\ UNCHANGED <<pumpVars, wire, unmarked>>

Stops ==
  /\ tail = "running" /\ cancelled
  /\ Ends("stopped")
  /\ UNCHANGED <<pumpVars, wire, unmarked>>

\* relay: one committed event after the other.
relay ==
  /\ ~live /\ Takes /\ Taken
  /\ publish(Head(queue), wire)
  /\ UNCHANGED previewVars
-----------------------------------------------------------------------------
(* relayLive.                                                                 *)

\* textKey: the loop, turn and kind of a chunk.
KeyOf(i) == made[i].of
PendingKey == KeyOf(pending[1])

\* The transport takes a preview when every subscriber has room for it.
TryPublishEphemeral(shown, frame) == {shown, shown \o frame}

\* flush offers the pending frame; a refused one stays pending.
flush ==
  {[wire |-> w, pending |-> IF w = wire THEN pending ELSE <<>>] :
     w \in TryPublishEphemeral(wire, pending)}

\* A held text that could not be flushed makes room and is gapped.
GivenUp(held) == IF held = <<>> THEN {} ELSE {KeyOf(held[1])}

\* markGap, for previews that are given up unprojected.
markGap(S) == {KeyOf(i) : i \in {j \in S : Kind(j) # "tool"}}

\* The loop whose step or turn a committed event ends: "none" if it ends none,
\* "all" if it names no loop.
BoundaryLoop(i) == made[i].of

\* clearBoundary: the end of a step or turn clears the gaps of its loop.
clearBoundary(i, gaps) ==
  {k \in gaps : BoundaryLoop(i) # "all" /\ LoopOf[k] # BoundaryLoop(i)}

\* startProjection: the next preview in line is the worker's.
startProjection ==
  /\ projecting' = IF queued = <<>> THEN 0 ELSE Head(queued)
  /\ queued' = IF queued = <<>> THEN <<>> ELSE Tail(queued)

\* The flush interval passes: the frame goes out unless an earlier preview may
\* still join it.
FlushTick ==
  /\ live /\ tail = "running" /\ pending # <<>> /\ projecting = 0 /\ queued = <<>>
  /\ \E f \in flush : wire' = f.wire /\ pending' = f.pending
  /\ UNCHANGED <<pumpVars, tail, projecting, queued, gapped, unmarked>>

Projects == live /\ tail = "running" /\ projecting # 0 /\ startProjection

\* The projection fails, or what it made is not this session's or not asked for.
ProjectionFails ==
  /\ Projects
  /\ unmarked' = unmarked \cup {projecting}
  /\ UNCHANGED <<pumpVars, tail, pending, gapped, wire>>

\* mutant of publishToolStep: a tool step does not wait for the text before it
ToolFirst ==
  /\ wire' \in {wire, Append(wire, projecting)}
  /\ UNCHANGED pending

\* A tool step goes out once, after the text before it, or is dropped.
publishToolStep ==
  \E f \in flush :
    /\ pending' = f.pending
    /\ \/ f.pending = <<>> /\ wire' \in TryPublishEphemeral(f.wire, <<projecting>>)
       \/ f.pending # <<>> /\ wire' = f.wire

ToolProjected ==
  /\ Projects /\ Kind(projecting) = "tool" /\ publishToolStep
  /\ UNCHANGED <<pumpVars, tail, gapped, unmarked>>

fitsEphemeralFrame(chunks) ==
  Len(chunks) <= FrameChunks /\ \A n \in 1..Len(chunks) : Kind(chunks[n]) # "big"

\* Merge: the chunk joins the pending frame, or both are given up.
Merges(i) ==
  IF fitsEphemeralFrame(Append(pending, i))
  THEN pending' = Append(pending, i) /\ UNCHANGED <<gapped, wire>>
  ELSE pending' = <<>> /\ gapped' = gapped \cup {KeyOf(i)} /\ UNCHANGED wire

\* The chunk of another text takes the pending frame's place.
Replaces(i) ==
  \E f \in flush :
    /\ wire' = f.wire /\ gapped' = gapped \cup GivenUp(f.pending)
    /\ pending' = <<i>>

TextProjected ==
  /\ Projects /\ Kind(projecting) # "tool"
  /\ LET i == projecting
         k == KeyOf(i)
     IN \/ k \in gapped /\ UNCHANGED <<pending, gapped, wire>>
        \/ /\ k \notin gapped /\ ~fitsEphemeralFrame(<<i>>)
           /\ gapped' = gapped \cup {k} /\ UNCHANGED <<pending, wire>>
        \/ /\ k \notin gapped /\ fitsEphemeralFrame(<<i>>)
           /\ IF pending # <<>> /\ PendingKey = k THEN Merges(i) ELSE Replaces(i)
  /\ UNCHANGED <<pumpVars, tail, unmarked>>

\* mutant of Overtaken: only the preview in the worker's hands is marked
MarksProjecting == markGap({projecting} \ {0})

\* What a committed event overtakes is given up, and its texts are marked.
Overtaken == markGap(({projecting} \ {0}) \cup Range(queued))

\* mutant of TakesEnduring: a committed event waits for the worker
WaitsForWorker == Takes /\ projecting = 0

\* A committed event does not wait for any preview.
TakesEnduring == Takes

relayEnduring ==
  /\ live /\ TakesEnduring /\ Enduring(Head(queue)) /\ Taken
  /\ projecting' = 0 /\ queued' = <<>> /\ pending' = <<>>
  /\ \E f \in flush :
       /\ publish(Head(queue), f.wire)
       /\ gapped' = clearBoundary(Head(queue), gapped \cup Overtaken \cup GivenUp(f.pending))
  /\ UNCHANGED unmarked

\* A preview goes to the worker, waits for it, or finds no place to wait.
relayEphemeral ==
  /\ live /\ Takes /\ Ephemeral(Head(queue)) /\ Taken
  /\ \/ /\ projecting = 0 /\ projecting' = Head(queue)
        /\ UNCHANGED <<queued, unmarked>>
     \/ /\ projecting # 0 /\ Len(queued) < ProjectionSlots
        /\ queued' = Append(queued, Head(queue))
        /\ UNCHANGED <<projecting, unmarked>>
     \/ /\ projecting # 0 /\ Len(queued) = ProjectionSlots
        /\ unmarked' = unmarked \cup {Head(queue)}
        /\ UNCHANGED <<projecting, queued>>
  /\ UNCHANGED <<tail, pending, gapped, wire>>

\* The runtime broke its promise: the tail is lost, and the pump is done.
relayTerminal ==
  /\ live /\ Takes /\ Kind(Head(queue)) = "uncommitted"
  /\ Ends("lost") /\ Closes
  /\ UNCHANGED <<live, made, cancelled, wire, unmarked>>

Relays == relay \/ relayEnduring \/ relayEphemeral \/ relayTerminal \/ StreamEnds \/ Stops

Next ==
  \/ \E e \in Events : Deliver(e)
  \/ PumpEnds \/ Stop \/ Relays
  \/ FlushTick \/ ProjectionFails \/ ToolProjected \/ TextProjected

Spec == Init /\ [][Next]_vars

\* The relay takes what the pump offers.  No worker has to answer and no
\* transport to take a preview.
FairSpec == Spec /\ WF_vars(Relays)

-----------------------------------------------------------------------------
(* Properties.                                                                *)

\* What is on the wire is in the order the runtime made it: no preview is shown
\* after the committed event that overtook it, no tool step before the text
\* that led to it, and nothing is shown twice.
WireKeepsOrder == \A m, n \in 1..Len(wire) : m < n => wire[m] < wire[n]

Between(i, j) == \E b \in i..j : Enduring(b) /\ made[b].of \in {"all", LoopOf[made[i].of]}

\* No text is shown past a chunk of it that a full transport, a frame too large
\* or a committed event had it lose, before its loop commits the step: a chunk
\* is missing in what is shown only if it never came out of the projection.
NoHoleInText ==
  \A j \in Range(wire) : \A i \in 1..(j - 1) :
    Kind(j) = "text" /\ Kind(i) \in {"text", "big"} /\ made[i].of = made[j].of /\ ~Between(i, j)
      => i \in Range(wire) \cup unmarked

\* Nothing, preview or committed event, is on the wire after a committed event
\* that is not.
NoHoleInJournal ==
  \A j \in Range(wire) : \A i \in 1..(j - 1) : Enduring(i) => i \in Range(wire)

\* A committed event the pump holds is published or the tail ends, although no
\* projection answers and no preview is taken.
EnduringGoesOut ==
  \A i \in 1..MaxEvents :
    (i \in Range(queue) /\ Enduring(i)) ~> (i \in Range(wire) \/ tail # "running")
==============================================================================
