---------------------------- MODULE Consumption ----------------------------
(***************************************************************************)
(* Who may apply commands to one resident session, and when it is let go:   *)
(* the consumer's pass slot and halt, the work sampler, the warm watch and  *)
(* release of internal/residency/warm.go, and a drain's release of the same *)
(* session running beside it.                                               *)
(*                                                                          *)
(* The three meet in one halt flag, one pass slot and two success latches   *)
(* of the resident: a warm release that stops short resumes the consumer    *)
(* and reopens the latches, a drain must not be undone by it.  A pass       *)
(* consumes commands; what one command goes through is Disposition's, the   *)
(* teardown of the runtime Teardown's, and the rest of a release            *)
(* Residency's.  A hint only ends the consumer's wait early, so acquirePass *)
(* stands for it and for the reconcile timer.  The session's attach has     *)
(* returned: before that ConfirmIdle refuses and the drain waits.           *)
(***************************************************************************)
EXTENDS Integers

CONSTANTS
    MaxCommands,    \* commands accepted into the session's inbox
    MaxOwn,         \* turns the runtime begins on its own
    TTL,            \* ticks of a warm countdown
    MaxMishaps      \* blocked passes, failed reads, writes and checkpoints,
                    \* releases refused or cut short

ASSUME ConsumptionAssumption ==
    /\ MaxCommands \in Nat
    /\ MaxOwn \in Nat
    /\ MaxMishaps \in Nat
    /\ TTL \in Nat \ {0}

VARIABLES
    consumer,       \* the loop: where it is, halted, stopped
    inbox,          \* commands accepted, and consumed by passes
    runtime,        \* turns of its own, whether one runs, whether it was let go
    sampler,        \* the position sampled last, and a sample not yet observed
    watch,          \* the warm watch: armed, releasing, its timer
    warm,           \* where the watch goroutine is
    drain,          \* where the drain's release is, and whether its halt succeeded
    route,          \* the registry entry
    latch,          \* beginOnce and checkpointOnce
    covered,        \* the last checkpoint covers every turn begun
    mishaps

vars == <<consumer, inbox, runtime, sampler, watch, warm, drain,
          route, latch, covered, mishaps>>

NewWatch ==
    [held |-> TRUE, armed |-> FALSE, releasing |-> FALSE, timer |-> 0, due |-> FALSE]

Init ==
    /\ consumer = [at |-> "idle", halted |-> FALSE, stopped |-> FALSE]
    /\ inbox = [accepted |-> 0, consumed |-> 0]
    /\ runtime = [busy |-> FALSE, own |-> 0, over |-> FALSE]
    /\ sampler = [mark |-> "none", saw |-> "nothing"]
    /\ watch = NewWatch
    /\ warm = "watch"
    /\ drain = [at |-> "off", quiet |-> FALSE]
    /\ route = "resident"
    /\ latch = [begun |-> FALSE, checkpoint |-> FALSE]
    /\ covered = TRUE
    /\ mishaps = 0

Mishap == mishaps < MaxMishaps /\ mishaps' = mishaps + 1

Pending == inbox.accepted > inbox.consumed

----------------------------------------------------------------------------
(* The session: what it is sent, and its runtime's own turns.              *)

\* A command enters the durable order, whatever this Host is doing.
Accept ==
    /\ inbox.accepted < MaxCommands
    /\ inbox' = [inbox EXCEPT !.accepted = @ + 1]
    /\ UNCHANGED <<consumer, runtime, sampler, watch, warm, drain,
                   route, latch, covered, mishaps>>

\* A turn moves the journal past what was sampled and what was checkpointed.
BeginTurn ==
    /\ covered' = FALSE
    /\ sampler' = [sampler EXCEPT !.mark = IF @ = "none" THEN @ ELSE "passed"]

\* The runtime begins a turn no command asked for.
OwnTurn ==
    /\ ~runtime.over
    /\ runtime.own < MaxOwn
    /\ runtime' = [runtime EXCEPT !.busy = TRUE, !.own = @ + 1]
    /\ BeginTurn
    /\ UNCHANGED <<consumer, inbox, watch, warm, drain, route, latch, mishaps>>

EndTurn ==
    /\ runtime.busy
    /\ runtime' = [runtime EXCEPT !.busy = FALSE]
    /\ UNCHANGED <<consumer, inbox, sampler, watch, warm, drain,
                   route, latch, covered, mishaps>>

----------------------------------------------------------------------------
(* The consumer.  Its pass slot is taken while it is at "held" or "pass".  *)

SlotFree == consumer.at \notin {"held", "pass"}

ConsumerStep(c) ==
    /\ consumer' = c
    /\ UNCHANGED <<inbox, runtime, sampler, watch, warm, drain, route, latch, covered,
                   mishaps>>

\* Run's wait ends, by a hint, the reconcile interval or a stop: it leaves if
\* stopped, else it takes the slot.
acquirePass ==
    /\ consumer.at = "idle"
    /\ ConsumerStep([consumer EXCEPT !.at = IF consumer.stopped THEN "gone" ELSE "held"])

\* Reconcile's head: a halted consumer claims nothing.
Reconcile ==
    /\ consumer.at = "held"
    /\ ConsumerStep([consumer EXCEPT !.at = IF consumer.halted THEN "idle" ELSE "pass"])

\* One command of the pass reaches the runtime and is consumed.
ApplyCommand ==
    /\ consumer.at = "pass"
    /\ Pending
    /\ ~runtime.over
    /\ inbox' = [inbox EXCEPT !.consumed = @ + 1]
    /\ runtime' = [runtime EXCEPT !.busy = TRUE]
    /\ BeginTurn
    /\ UNCHANGED <<consumer, watch, warm, drain, route, latch, mishaps>>

\* The page is used up, or its next command blocked: by a mishap, or because
\* the runtime is gone.
releasePass ==
    /\ consumer.at = "pass"
    /\ consumer' = [consumer EXCEPT !.at = "idle"]
    /\ IF Pending /\ ~runtime.over THEN Mishap ELSE UNCHANGED mishaps
    /\ UNCHANGED <<inbox, runtime, sampler, watch, warm, drain, route,
                   latch, covered>>

\* The drain has taken the resident's drainHalted latch.
Latched == drain.at \notin {"off", "draining"}

\* The composition forgets the consumer it stops, so it halts and resumes
\* nothing from then on.
Halt(c) == IF c.stopped THEN c ELSE [c EXCEPT !.halted = TRUE]
Halted == SlotFree \/ consumer.stopped

\* mutant of Resume: the drain's latch is not consulted
ResumesAlways(c) == IF c.stopped THEN c ELSE [c EXCEPT !.halted = FALSE]

\* Service.Resume: silently refused once the drain has latched its halt.
Resume(c) == IF Latched \/ c.stopped THEN c ELSE [c EXCEPT !.halted = FALSE]

\* stopWork: the consumer is stopped and forgotten; a pass in flight goes on.
stopWork == consumer' = [consumer EXCEPT !.stopped = TRUE]

----------------------------------------------------------------------------
(* The sampler and the countdown.                                          *)

idleNow == ~runtime.busy /\ ~runtime.over
WorkStateIdle == idleNow

Disarmed(w) == [w EXCEPT !.armed = FALSE, !.timer = 0, !.due = FALSE]
Armed(w) == [w EXCEPT !.armed = TRUE, !.timer = TTL, !.due = FALSE]

\* mutant of Observe: every idle sample starts the countdown again
RearmsOnIdle(w, state) ==
    IF ~w.held \/ w.releasing THEN w
    ELSE IF state = "idle" THEN Armed(w) ELSE Disarmed(w)

\* Only the first idle after work starts a countdown; any other state ends it.
Observe(w, state) ==
    IF ~w.held \/ w.releasing THEN w
    ELSE IF state # "idle" THEN Disarmed(w)
    ELSE IF w.armed THEN w ELSE Armed(w)

\* The sampler reads the work state and the journal position, and keeps the
\* position.  A working session is observed at once; an idle answer may be old
\* when it is observed, and is "moved" when the position changed since the
\* last sample.
sampleWork ==
    /\ sampler.saw = "nothing"
    /\ route # "gone" /\ watch.held
    /\ \/ /\ ~WorkStateIdle
          /\ sampler' = [sampler EXCEPT !.mark = "current"]
          /\ watch' = Observe(watch, "working")
       \/ /\ WorkStateIdle
          /\ sampler' = [mark |-> "current",
                         saw |-> IF sampler.mark = "passed" THEN "moved" ELSE "idle"]
          /\ UNCHANGED watch
    /\ UNCHANGED <<consumer, inbox, runtime, warm, drain, route, latch, covered, mishaps>>

\* An idle sample is observed: a moved position as work first.
observeSample ==
    /\ sampler.saw # "nothing"
    /\ sampler' = [sampler EXCEPT !.saw = "nothing"]
    /\ watch' = IF sampler.saw = "moved" THEN Observe(Observe(watch, "working"), "idle")
                ELSE Observe(watch, "idle")
    /\ UNCHANGED <<consumer, inbox, runtime, warm, drain, route, latch,
                   covered, mishaps>>

Countdown ==
    /\ watch.timer > 0
    /\ watch' = [watch EXCEPT !.timer = @ - 1, !.due = watch.timer = 1]
    /\ UNCHANGED <<consumer, inbox, runtime, sampler, warm, drain,
                   route, latch, covered, mishaps>>

----------------------------------------------------------------------------
(* The warm watch's goroutine and its release.                             *)

\* A release step that moves only the goroutine and the given variables.
Warm(from, to) == warm = from /\ warm' = to

\* The tick is taken from the timer, before the watch's lock.
takeTick ==
    /\ Warm("watch", "taken")
    /\ watch.held /\ watch.due
    /\ watch' = [watch EXCEPT !.due = FALSE]
    /\ UNCHANGED <<consumer, inbox, runtime, sampler, drain, route,
                   latch, covered, mishaps>>

\* The arming is read again under the lock: a cancelled one is let go.  An
\* attempt begins by halting the consumer.
run ==
    /\ warm = "taken"
    /\ \/ /\ watch.armed
          /\ warm' = "halting"
          /\ watch' = [watch EXCEPT !.armed = FALSE, !.releasing = TRUE]
          /\ consumer' = Halt(consumer)
       \/ /\ ~watch.armed
          /\ warm' = "watch"
          /\ UNCHANGED <<watch, consumer>>
    /\ UNCHANGED <<inbox, runtime, sampler, drain, route, latch, covered, mishaps>>

\* mutant of Aborts: an aborted attempt leaves the consumer halted
AbortsHalted ==
    /\ warm' = "watch"
    /\ consumer' = consumer
    /\ watch' = [watch EXCEPT !.releasing = FALSE]

\* An attempt that took nothing: the consumer resumes and the watch goes on.
Aborts ==
    /\ warm' = "watch"
    /\ consumer' = Resume(consumer)
    /\ watch' = [watch EXCEPT !.releasing = FALSE]

\* The watch is dropped with the attempt.
finish ==
    /\ warm' = "done"
    /\ watch' = [Disarmed(watch) EXCEPT !.held = FALSE]

\* The halt has waited out the pass in flight, or its bound ran out first.
haltEnds ==
    /\ warm = "halting"
    /\ \/ /\ Halted
          /\ warm' = "confirm"
          /\ UNCHANGED <<consumer, watch, mishaps>>
       \/ /\ ~Halted
          /\ Mishap
          /\ Aborts
    /\ UNCHANGED <<inbox, runtime, sampler, drain, route, latch,
                   covered>>

\* Step 0b: idle now, and at the position the last sample recorded.
ConfirmIdle ==
    /\ warm = "confirm"
    /\ IF route # "gone" /\ WorkStateIdle /\ sampler.mark = "current"
         THEN warm' = "inbox" /\ UNCHANGED <<consumer, watch>>
         ELSE Aborts
    /\ UNCHANGED <<inbox, runtime, sampler, drain, route, latch,
                   covered, mishaps>>

\* Step 1: accepted work, or an inbox that cannot be read, ends the attempt.
AcceptedWork ==
    /\ warm = "inbox"
    /\ \/ ~Pending /\ warm' = "stop" /\ UNCHANGED <<consumer, watch, mishaps>>
       \/ Pending /\ Aborts /\ UNCHANGED mishaps
       \/ Mishap /\ Aborts
    /\ UNCHANGED <<inbox, runtime, sampler, drain, route, latch,
                   covered>>

\* Step 2: no command is admitted any more; a residency that is gone is
\* another path's.
StopAdmitting ==
    /\ warm = "stop"
    /\ IF route = "gone"
         THEN finish /\ consumer' = Resume(consumer) /\ UNCHANGED route
         ELSE /\ warm' = "begin"
              /\ route' = IF route = "resident" THEN "closed" ELSE route
              /\ UNCHANGED <<consumer, watch>>
    /\ UNCHANGED <<inbox, runtime, sampler, drain, latch,
                   covered, mishaps>>

\* beginOnce: the entry is marked releasing unless a release already did.
BeginRelease ==
    \/ latch.begun /\ UNCHANGED <<route, latch, mishaps>>
    \/ /\ ~latch.begun
       /\ route' = IF route = "gone" THEN route ELSE "releasing"
       /\ \/ latch' = [latch EXCEPT !.begun = TRUE] /\ UNCHANGED mishaps
          \/ Mishap /\ UNCHANGED latch

\* checkpointOnce: the turns so far are covered unless a release already
\* covered.
Checkpoint ==
    \/ latch.checkpoint /\ UNCHANGED <<latch, covered, mishaps>>
    \/ /\ ~latch.checkpoint
       /\ \/ /\ latch' = [latch EXCEPT !.checkpoint = TRUE]
             /\ covered' = TRUE
             /\ UNCHANGED mishaps
          \/ Mishap /\ UNCHANGED <<latch, covered>>

beginWarm ==
    /\ Warm("begin", "checkpoint")
    /\ BeginRelease
    /\ UNCHANGED <<consumer, inbox, runtime, sampler, watch, drain,
                   covered>>

checkpointWarm ==
    /\ Warm("checkpoint", "idle")
    /\ Checkpoint
    /\ UNCHANGED <<consumer, inbox, runtime, sampler, watch, drain, route>>

\* Step 4 waits for an idle runtime before any work stops.  A runtime let go
\* by another path answers either way.
waitIdleWarm ==
    /\ warm = "idle"
    /\ \/ ~runtime.busy /\ warm' = "release"
       \/ (runtime.busy \/ runtime.over) /\ warm' = "revert"
    /\ UNCHANGED <<consumer, inbox, runtime, sampler, watch, drain, route,
                   latch, covered, mishaps>>

\* The work stops, then the runtime is released: refused while it works, or by
\* a mishap.
Released == runtime' = [runtime EXCEPT !.over = TRUE]
Releasable == runtime.over \/ ~runtime.busy

releaseWarm ==
    /\ warm = "release"
    /\ stopWork
    /\ \/ Releasable /\ Released /\ warm' = "finish" /\ UNCHANGED mishaps
       \/ ~Releasable /\ warm' = "revert" /\ UNCHANGED <<runtime, mishaps>>
       \/ ~runtime.over /\ Mishap /\ warm' = "revert" /\ UNCHANGED runtime
    /\ UNCHANGED <<inbox, sampler, watch, drain, route, latch, covered>>

\* AbortRelease is refused once the work stopped, the entry is gone or the
\* Host drains; otherwise the entry is resident and accepting again.
AbortRelease ==
    /\ warm = "revert"
    /\ IF consumer.stopped \/ route = "gone" \/ drain.at # "off"
         THEN warm' = "held" /\ UNCHANGED route
         ELSE warm' = "forget" /\ route' = "resident"
    /\ UNCHANGED <<consumer, inbox, runtime, sampler, watch, drain, latch,
                   covered, mishaps>>

\* mutant of forgetReleaseProgress: the checkpoint latch stays
KeepsCheckpoint == latch' = [latch EXCEPT !.begun = FALSE]

forgetReleaseProgress == latch' = [begun |-> FALSE, checkpoint |-> FALSE]

\* The release was taken back: progress is forgotten, then consumption resumes.
resumed ==
    /\ warm = "forget"
    /\ forgetReleaseProgress
    /\ Aborts
    /\ UNCHANGED <<inbox, runtime, sampler, drain, route, covered,
                   mishaps>>

\* It could not be taken back: consumption resumes, the session is the drain's.
heldWarm ==
    /\ Warm("held", "report")
    /\ consumer' = Resume(consumer)
    /\ UNCHANGED <<inbox, runtime, sampler, watch, drain, route, latch,
                   covered, mishaps>>

WarmRelease ==
    /\ warm = "report"
    /\ finish
    /\ forgetReleaseProgress
    /\ UNCHANGED <<consumer, inbox, runtime, sampler, drain, route,
                   covered, mishaps>>

finishWarm ==
    /\ warm = "finish"
    /\ finish
    /\ route' = "gone"
    /\ UNCHANGED <<consumer, inbox, runtime, sampler, drain, latch,
                   covered, mishaps>>

----------------------------------------------------------------------------
(* The drain's release of the same session.                                *)

Drain(from, to) == drain.at = from /\ drain' = [drain EXCEPT !.at = to]

\* The Host stops admitting: AbortRelease is refused from here on.
StartDrain ==
    /\ Drain("off", "draining")
    /\ UNCHANGED <<consumer, inbox, runtime, sampler, watch, warm, route,
                   latch, covered, mishaps>>

\* haltForDrain, under the lock Resume takes: the latch precedes the halt.
latchDrain ==
    /\ drain.at = "draining"
    /\ drain' = [drain EXCEPT !.at = "latched"]
    /\ UNCHANGED <<consumer, inbox, runtime, sampler, watch, warm, route,
                   latch, covered, mishaps>>

haltForDrain ==
    /\ Drain("latched", "halting")
    /\ consumer' = Halt(consumer)
    /\ UNCHANGED <<inbox, runtime, sampler, watch, warm, route, latch,
                   covered, mishaps>>

\* The pass in flight was waited out, or the boundary ended the wait.
haltEndsDrain ==
    /\ drain.at = "halting"
    /\ drain' = [drain EXCEPT !.at = "begin", !.quiet = SlotFree]
    /\ UNCHANGED <<consumer, inbox, runtime, sampler, watch, warm, route,
                   latch, covered, mishaps>>

beginDrain ==
    /\ Drain("begin", "idle")
    /\ BeginRelease
    /\ UNCHANGED <<consumer, inbox, runtime, sampler, watch, warm,
                   covered>>

\* The wait for idle ended by itself or at its boundary.
checkpointDrain ==
    /\ Drain("idle", "release")
    /\ Checkpoint
    /\ UNCHANGED <<consumer, inbox, runtime, sampler, watch, warm, route>>

\* The work stops, and the runtime is released; or refused and then abandoned;
\* or parked.
releaseDrain ==
    /\ Drain("release", "finish")
    /\ stopWork
    /\ \/ Released /\ UNCHANGED mishaps
       \/ ~runtime.over /\ Mishap /\ UNCHANGED runtime
    /\ UNCHANGED <<inbox, sampler, watch, warm, route, latch, covered>>

finishDrain ==
    /\ Drain("finish", "done")
    /\ route' = "gone"
    /\ UNCHANGED <<consumer, inbox, runtime, sampler, watch, warm, latch,
                   covered, mishaps>>

----------------------------------------------------------------------------
Consumes == acquirePass \/ Reconcile \/ ApplyCommand \/ releasePass

Samples == sampleWork \/ observeSample

Warms ==
    \/ takeTick \/ run \/ haltEnds \/ ConfirmIdle \/ AcceptedWork
    \/ StopAdmitting \/ beginWarm \/ checkpointWarm \/ waitIdleWarm
    \/ releaseWarm \/ AbortRelease \/ resumed \/ heldWarm \/ WarmRelease \/ finishWarm

Drains ==
    \/ latchDrain \/ haltForDrain \/ haltEndsDrain \/ beginDrain
    \/ checkpointDrain \/ releaseDrain \/ finishDrain

Next ==
    \/ Accept \/ OwnTurn \/ EndTurn
    \/ Consumes
    \/ Samples \/ Countdown
    \/ Warms
    \/ StartDrain \/ Drains

Spec == Init /\ [][Next]_vars

(***************************************************************************)
(* Every goroutine runs, timers run out and turns end.                       *)
(* Nothing forces a command, a turn of the runtime's own or a drain.  The   *)
(* strong conjuncts say that the loop is not scheduled only inside the      *)
(* halts of aborted attempts: an attempt is short beside the countdown that *)
(* must run out before the next, and Resume hints the loop.  A halt waits   *)
(* in the slot's queue, so a pass that ends hands the slot to it.           *)
(***************************************************************************)
Fair ==
    /\ WF_vars(Consumes)
    /\ SF_vars(acquirePass /\ ~consumer.halted)
    /\ SF_vars(Reconcile /\ ~consumer.halted)
    /\ SF_vars(haltEnds)
    /\ WF_vars(Samples)
    /\ WF_vars(Countdown)
    /\ WF_vars(Warms)
    /\ WF_vars(Drains)
    /\ WF_vars(EndTurn)

FairSpec == Spec /\ Fair
============================================================================
