--------------------------- MODULE ResidencyState ---------------------------
(***************************************************************************)
(* The state of ONE session's residencies on one Host, and the operations  *)
(* the attach and the paths that end a residency share.                    *)
(*                                                                         *)
(* An attach attempt is numbered by the registry generation it inserts     *)
(* under, so `a' below is both the attempt and the residency it installs.  *)
(* 0 stands for none.  What a map of the code holds for the session is one *)
(* variable: sessions = a says Service.sessions maps the key to a.         *)
(***************************************************************************)
EXTENDS AdmissionLedger

CONSTANTS session,     \* the key
          Rival,       \* another Host that may take the session's lease
          MaxRivals,   \* bound: how often it does
          Abandonable, \* the runtimes offer the crash-equivalent abandon
          Paths,       \* the ends and failures an instance of the model meets
          Mortal       \* the residencies that meet them, the drain apart

ASSUME ResidencyConstants == /\ session \in Keys
                             /\ Rival \in Nat \ (Generations \cup {0})
                             /\ MaxRivals \in Nat
                             /\ Abandonable \in BOOLEAN
                             /\ Paths \subseteq {"warm", "unusable", "drain", "expiry", "failure"}
                             /\ Mortal \subseteq Generations

VARIABLES
    \* the session store: its lease and the location projection
    holder, lastEpoch, rivals, location,
    \* the grants of this Host: Lease.Lost, Lease.Epoch, the residencies whose
    \* leaseRelease ran, epochFence.ended
    grant, epoch, handedBack, fenceEnded,
    \* the runtimes, the session contexts, and the cancellations handed to
    \* teardown.whenReleased
    runtime, context, onRelease,
    \* Heartbeat: the loop, begun and finished
    beat, begun, finished,
    \* Service.consumers and resident.workDone
    consumers, workDone,
    \* Service.sessions, WarmReleaser.watches
    sessions, watches,
    \* Manager.sessions, Manager.overtaken, Manager.pending
    recorded, overtaken, pending,
    \* the node-local workspace, and the residencies whose stateDrop ran
    workspace, dropped,
    \* Service.draining, how far the drain is, the registry snapshot it
    \* republishes, the attaches it waits for and how far that wait is, and
    \* whether something it was told of (Drainer.failures, Service.unreleased)
    \* withholds `drained'
    hostDraining, drain, noted, awaits, settling, withheld,
    \* the attach attempts, and the entry step 8 read
    step, read,
    \* the paths that end a residency, and resident.giveUpOnce
    at, gaveUp

storeVars   == <<holder, lastEpoch, rivals, location>>
leaseVars   == <<grant, epoch, handedBack>>
grantVars   == <<leaseVars, fenceEnded>>
runtimeVars == <<runtime, context, onRelease>>
beatVars    == <<beat, begun, finished>>
workVars    == <<consumers, workDone>>
recordVars  == <<recorded, overtaken>>
spaceVars   == <<workspace, dropped>>
drainVars   == <<hostDraining, drain, noted, awaits, settling>>
attachVars  == <<step, read>>
endVars     == <<at, gaveUp>>

vars == <<registryVars, ledgerVars, storeVars, grantVars, runtimeVars, beatVars,
          workVars, sessions, watches, recordVars, pending, spaceVars, drainVars,
          withheld, attachVars, endVars>>

-----------------------------------------------------------------------------
\* The steps of an attach, in order; each names what has been done.
StepOrder == <<"admitted", "leased", "hydrated", "launched", "inserted",
               "published", "begun", "tracked", "owned", "read", "announced">>

AttachSteps == {StepOrder[i] : i \in DOMAIN StepOrder}

\* The paths that end a residency: the attach's own rollback, a warm release,
\* a lost grant, a runtime its host cannot use any more, and the drain.
Ends == {"rollback", "warm", "lost", "unusable", "drain"}

NoLocation == [epoch |-> 0, state |-> "absent", accepting |-> FALSE]

NoRead == [state |-> "gone", accepting |-> FALSE]

Init ==
    /\ RegistryInit /\ LedgerInit
    /\ holder = 0 /\ lastEpoch = 0 /\ rivals = 0 /\ location = NoLocation
    /\ grant = [a \in Generations |-> "none"]
    /\ epoch = [a \in Generations |-> 0]
    /\ fenceEnded = {} /\ handedBack = {}
    /\ runtime = [a \in Generations |-> "none"]
    /\ context = [a \in Generations |-> "none"]
    /\ onRelease = {}
    /\ beat = [a \in Generations |-> "none"]
    /\ begun = {} /\ finished = {}
    /\ consumers = 0 /\ workDone = {}
    /\ sessions = 0 /\ watches = 0
    /\ recorded = 0 /\ overtaken = {} /\ pending = 0
    /\ workspace = "absent" /\ dropped = {}
    /\ hostDraining = FALSE /\ drain = "none" /\ noted = NoEntry
    /\ awaits = [all |-> 0, session |-> 0] /\ settling = "off"
    /\ withheld = FALSE
    /\ step = [a \in Generations |-> "idle"]
    /\ read = [a \in Generations |-> NoRead]
    /\ at = [a \in Generations |-> [e \in Ends |-> "off"]]
    /\ gaveUp = {}

-----------------------------------------------------------------------------
(* Leases, and location writes through the epoch fence *)

\* epochFence.held
Held(a) == a \notin fenceEnded /\ grant[a] = "held"

\* The store's rule for a location write: no later epoch has committed one.
NotSuperseded(a) == location.epoch <= epoch[a]

Written(a, state, accepting) ==
    [epoch |-> epoch[a], state |-> state, accepting |-> accepting]

\* The store accepts the write, or it refuses it for a later epoch and the
\* fence ends, or it fails and nothing is known to be written.
StoreWrite(a, state, accepting, ok) ==
    \/ /\ ok /\ NotSuperseded(a)
       /\ location' = Written(a, state, accepting)
       /\ UNCHANGED fenceEnded
    \/ /\ ~ok /\ ~NotSuperseded(a)
       /\ fenceEnded' = fenceEnded \cup {a}
       /\ UNCHANGED location
    \/ /\ ~ok /\ NotSuperseded(a) /\ "failure" \in Paths
       /\ UNCHANGED <<location, fenceEnded>>

\* epochFence.write
FencedWrite(a, state, accepting, ok) ==
    IF Held(a) THEN StoreWrite(a, state, accepting, ok)
               ELSE ~ok /\ UNCHANGED <<location, fenceEnded>>

\* A tombstone that was not written is owed, and withholds `drained', unless
\* it was refused because the grant is gone (withoutLostGrant); so does an entry
\* that somebody else removed.
Tombstone(a) == \E ok \in BOOLEAN :
    /\ FencedWrite(a, "tombstone", FALSE, ok)
    /\ withheld' = (withheld \/ (Held(a) /\ ~ok) \/ ~current(session, a))

\* Lease.Release, once per residency (leaseRelease): the grant is over on both
\* sides and Lost closes, or the store fails and the grant is owed.
ReleaseLease(a, ok) ==
    /\ ~ok => a \notin handedBack /\ grant[a] = "held" /\ "failure" \in Paths
    /\ handedBack' = handedBack \cup {a}
    /\ UNCHANGED <<lastEpoch, rivals, epoch>>
    /\ IF ok /\ a \notin handedBack
       THEN /\ holder' = IF holder = a THEN 0 ELSE holder
            /\ grant' = [grant EXCEPT ![a] = IF @ = "none" THEN @ ELSE "gone"]
       ELSE UNCHANGED <<holder, grant>>

-----------------------------------------------------------------------------
(* What a residency owns, ended through its resident *)

\* resident.teardown at the level of TeardownPromise: a call ends the runtime,
\* is refused by it, fails it, or is left running by a caller that gave up
\* ("closing" a graceful one, "abandoning" once an abandon was asked for).
\* whenReleased runs the cancellation handed to it when the runtime releases.
RuntimeTo(a, r) ==
    /\ runtime' = [runtime EXCEPT ![a] = r]
    /\ context' = IF r = "released" /\ a \in onRelease
                  THEN [context EXCEPT ![a] = "cancelled"] ELSE context
    /\ UNCHANGED onRelease

Over(a) == runtime[a] \in {"released", "failed"}

InTeardown(a) == runtime[a] \in {"closing", "abandoning"}

AbandonOutcomes(a) == IF Over(a) THEN {runtime[a]}
                      ELSE {"released", "failed", "abandoning"}

\* A release that finds an abandon joins it.
GracefulOutcomes(a) == IF Over(a) \/ runtime[a] = "abandoning" THEN AbandonOutcomes(a)
                       ELSE {"released", "failed", "live", "closing"}

\* A runtime that failed may have kept its journal lease (ErrResidencyStillHeld).
KeptLease(r) == withheld' \in IF r = "failed" THEN {withheld, TRUE} ELSE {withheld}

\* mutant of StopWork: not guarded by the sync.Once
StopWorkRepeated(a) ==
    /\ workDone' = workDone \cup {a}
    /\ consumers' = 0

\* resident.stopWork: once; beginWork's stop forgets the KEY's consumer.
StopWork(a) ==
    /\ workDone' = workDone \cup {a}
    /\ consumers' = IF a \in workDone THEN consumers ELSE 0

\* Heartbeat.Stop waits for the loop.
StoppedBeat(a) == [beat EXCEPT ![a] = IF @ = "beating" THEN "stopped" ELSE @]

\* Heartbeat.releasable
Releasable(a) == /\ current(session, a) /\ Held(a)
                 /\ ~entries[session].teardownOwned

\* Heartbeat.BeginRelease, latched on the attempt.
BeginRelease(a) ==
    IF a \in begun \/ ~Releasable(a)
    THEN /\ begun' = begun \cup {a}
         /\ UNCHANGED <<registryVars, location, fenceEnded, beat, finished>>
    ELSE /\ begun' = begun \cup {a}
         /\ MarkReleasing(session, a)
         /\ \E ok \in BOOLEAN : FencedWrite(a, "releasing", FALSE, ok)
         /\ UNCHANGED <<beat, finished>>

\* mutant of OwnedElsewhere: the teardown flag is asked before the grant
OwnedByLostGrantToo(a) == entries[session].teardownOwned

\* ErrTeardownOwnedElsewhere.  The grant is asked first, so that the teardown a
\* lost grant claimed is finished and not refused.
OwnedElsewhere(a) == Held(a) /\ entries[session].teardownOwned

\* Heartbeat.FinishRelease: stop the loop, then once: the tombstone through
\* the fence, and the local entry whether or not it was written.
FinishRelease(a) ==
    /\ beat' = StoppedBeat(a)
    /\ finished' = finished \cup {a}
    /\ UNCHANGED begun
    /\ \/ /\ a \in finished
          /\ UNCHANGED <<registryVars, location, fenceEnded, withheld>>
       \/ /\ a \notin finished
          /\ ~current(session, a) \/ OwnedElsewhere(a)
          /\ withheld' = TRUE
          /\ UNCHANGED <<registryVars, location, fenceEnded>>
       \/ /\ a \notin finished
          /\ current(session, a) /\ ~OwnedElsewhere(a)
          /\ RemoveByGeneration(session, a)
          /\ Tombstone(a)

\* Workspaces.ReleaseWorkspace
ReleaseWorkspace(ok) ==
    /\ ~ok => "failure" \in Paths
    /\ workspace' = IF ok THEN "absent" ELSE workspace

\* resident.dropState: once per residency, keyed by session alone.
DropState(a, ok) ==
    /\ dropped' = dropped \cup {a}
    /\ IF a \in dropped THEN ok /\ UNCHANGED workspace ELSE ReleaseWorkspace(ok)

\* mutant of Owe: a release that did not finish is only logged
Unbooked(whole) == UNCHANGED withheld

\* recordUnreleased, and the drain's record of a failed FinishRelease.
Owe(whole) == withheld' = (withheld \/ ~whole)

\* Service.endResidency: prune the Manager's record, and cancel the session
\* context when the runtime has released, now or later.
Pruned(a) == recorded = a \/ a \in overtaken

PruneRecord(a) ==
    /\ recorded' = IF recorded = a THEN 0 ELSE recorded
    /\ overtaken' = IF recorded = a THEN overtaken ELSE overtaken \ {a}

\* mutant of ContextMayEnd: the context is cancelled whatever the runtime does
ContextAlwaysEnds(a) == TRUE

ContextMayEnd(a) == runtime[a] = "released"

endResidency(a) ==
    /\ PruneRecord(a)
    /\ UNCHANGED runtime
    /\ IF ~Pruned(a) THEN UNCHANGED <<context, onRelease>>
       ELSE IF ContextMayEnd(a)
       THEN /\ context' = [context EXCEPT ![a] = "cancelled"]
            /\ UNCHANGED onRelease
       ELSE /\ onRelease' = onRelease \cup {a}
            /\ UNCHANGED context

ForgetSession(a) == sessions' = IF sessions = a THEN 0 ELSE sessions

\* Service.forgetResident
forgetResident(a) ==
    /\ ForgetSession(a)
    /\ endResidency(a)

Goto(a, e, label) == at' = [at EXCEPT ![a][e] = label]
=============================================================================
