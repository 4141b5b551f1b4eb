--------------------------- MODULE ResidencyAttach ---------------------------
(***************************************************************************)
(* Attach: residency.Manager's eight steps, the ownership the composition  *)
(* begins at step 7, and the rollback of an attach that fails.  One attach *)
(* of the key runs at a time (acquireKey); it may be answered by a         *)
(* residency that is already installed, which changes nothing.             *)
(***************************************************************************)
EXTENDS ResidencyState

Reached(a, s) == \E i, j \in DOMAIN StepOrder :
                    StepOrder[i] = s /\ StepOrder[j] = step[a] /\ i <= j

\* The attach holds the key's slot until it has returned.
InFlight(a) == step[a] \in AttachSteps

Unwinding(a) == at[a]["rollback"] # "off"

SlotFree == \A a \in Generations : ~InFlight(a)

NextAttempt(a) == /\ step[a] = "idle"
                  /\ \A b \in Generations : b < a => step[b] # "idle"

\* attachedResidency: a record and an entry of the same generation.
AttachedResidency == recorded # 0 /\ current(session, recorded)

StepAt(a, s) == step[a] = s /\ ~Unwinding(a)

To(a, s) == step' = [step EXCEPT ![a] = s] /\ UNCHANGED read

-----------------------------------------------------------------------------
\* Steps 0 and 1: the charge, the session context, and the pending record that
\* lets a drain cancel the attach.
AttachAdmits(a) ==
    /\ NextAttempt(a) /\ SlotFree /\ ~AttachedResidency
    /\ \E agent \in Agents : Admit(session, agent)
    /\ context' = [context EXCEPT ![a] = "open"]
    /\ pending' = a
    /\ To(a, "admitted")
    /\ UNCHANGED <<registryVars, storeVars, grantVars, runtime, onRelease, beatVars,
                   workVars, sessions, watches, recordVars, spaceVars, drainVars, withheld,
                   endVars>>

\* Step 2: a free lease, at the next epoch.
AttachAcquires(a) ==
    /\ StepAt(a, "admitted")
    /\ holder = 0
    /\ holder' = a
    /\ lastEpoch' = lastEpoch + 1
    /\ epoch' = [epoch EXCEPT ![a] = lastEpoch + 1]
    /\ grant' = [grant EXCEPT ![a] = "held"]
    /\ To(a, "leased")
    /\ UNCHANGED <<registryVars, ledgerVars, rivals, location, handedBack, fenceEnded,
                   runtimeVars, beatVars, workVars, sessions, watches, recordVars, pending,
                   spaceVars, drainVars, withheld, endVars>>

\* Steps 3 and 4: the session state and the workspace, then the runtime.
AttachHydrates(a) ==
    /\ StepAt(a, "leased")
    /\ workspace' = "present"
    /\ To(a, "hydrated")
    /\ UNCHANGED <<registryVars, ledgerVars, storeVars, grantVars, runtimeVars, beatVars,
                   workVars, sessions, watches, recordVars, pending, dropped, drainVars, withheld,
                   endVars>>

AttachLaunches(a) ==
    /\ StepAt(a, "hydrated")
    /\ ~ledgerDraining
    /\ runtime' = [runtime EXCEPT ![a] = "live"]
    /\ To(a, "launched")
    /\ UNCHANGED <<registryVars, ledgerVars, storeVars, grantVars, context, onRelease,
                   beatVars, workVars, sessions, watches, recordVars, pending, spaceVars,
                   drainVars, withheld, endVars>>

\* Step 5: the registry entry, and the charge bound to its generation.
AttachInserts(a) ==
    /\ StepAt(a, "launched")
    /\ Insert(session, a)
    /\ Own(session, a)
    /\ To(a, "inserted")
    /\ UNCHANGED <<storeVars, grantVars, runtimeVars, beatVars, workVars, sessions,
                   watches, recordVars, pending, spaceVars, drainVars, withheld, endVars>>

\* Step 6: the projection `attaching', through the fence.
AttachPublishes(a) ==
    /\ StepAt(a, "inserted")
    /\ FencedWrite(a, "attaching", FALSE, TRUE)
    /\ To(a, "published")
    /\ UNCHANGED <<registryVars, ledgerVars, holder, lastEpoch, rivals, leaseVars,
                   runtimeVars, beatVars, workVars, sessions, watches, recordVars,
                   pending, spaceVars, drainVars, withheld, endVars>>

\* Step 7: the heartbeat and the session's work start ...
AttachBegins(a) ==
    /\ StepAt(a, "published")
    /\ ~hostDraining
    /\ beat' = [beat EXCEPT ![a] = "beating"]
    /\ consumers' = a
    /\ To(a, "begun")
    /\ UNCHANGED <<registryVars, ledgerVars, storeVars, grantVars, runtimeVars, begun,
                   finished, workDone, sessions, watches, recordVars, pending, spaceVars,
                   drainVars, withheld, endVars>>

\* mutant of Commits: trackResident does not ask for the drain again
CommitsUnasked(a) == pending = a /\ context[a] = "open"

Commits(a) == /\ ~hostDraining
              /\ pending = a /\ context[a] = "open"

\* ... the attach commits, atomically with the drain's snapshot ...
AttachTracks(a) ==
    /\ StepAt(a, "begun")
    /\ Commits(a)
    /\ sessions' = a
    /\ pending' = 0
    /\ To(a, "tracked")
    /\ UNCHANGED <<registryVars, ledgerVars, storeVars, grantVars, runtimeVars, beatVars,
                   workVars, watches, recordVars, spaceVars, drainVars, withheld, endVars>>

\* ... and the warm releaser watches the residency: one watch per key.
AttachWatches(a) ==
    /\ StepAt(a, "tracked")
    /\ watches = 0
    /\ watches' = a
    /\ To(a, "owned")
    /\ UNCHANGED <<registryVars, ledgerVars, storeVars, grantVars, runtimeVars, beatVars,
                   workVars, sessions, recordVars, pending, spaceVars, drainVars, withheld, endVars>>

\* mutant of Accepting: the route is accepting whatever the Host does
AcceptingEntry == entries[session].accepting

\* A route accepts work while its entry and the Host do.
Accepting == entries[session].accepting /\ ~ledgerDraining

\* Step 8: the entry is read, the fence asked, ...
AttachReads(a) ==
    /\ StepAt(a, "owned")
    /\ current(session, a)
    /\ Held(a)
    /\ read' = [read EXCEPT ![a] = [state |-> entries[session].state,
                                        accepting |-> Accepting]]
    /\ step' = [step EXCEPT ![a] = "read"]
    /\ UNCHANGED <<registryVars, ledgerVars, storeVars, grantVars, runtimeVars, beatVars,
                   workVars, sessions, watches, recordVars, pending, spaceVars, drainVars, withheld,
                   endVars>>

residencyOf(state) == IF state = "resident" THEN "resident" ELSE "releasing"

\* ... the reading is written, ...
AttachAnnounces(a) ==
    /\ StepAt(a, "read")
    /\ StoreWrite(a, residencyOf(read[a].state), read[a].accepting, TRUE)
    /\ To(a, "announced")
    /\ UNCHANGED <<registryVars, ledgerVars, holder, lastEpoch, rivals, leaseVars,
                   runtimeVars, beatVars, workVars, sessions, watches, recordVars,
                   pending, spaceVars, drainVars, withheld, endVars>>

\* mutant of SetAside: the older record is overwritten
Overwrite(a) == UNCHANGED overtaken

SetAside(a) == overtaken' = IF recorded \in {0, a} THEN overtaken
                            ELSE overtaken \cup {recorded}

\* ... and the residency recorded; an older record is set aside.  settleAttach
\* runs with it: a residency is settled when its attach has returned.
AttachRecords(a) ==
    /\ StepAt(a, "announced")
    /\ SetAside(a)
    /\ recorded' = a
    /\ To(a, "attached")
    /\ UNCHANGED <<registryVars, ledgerVars, storeVars, grantVars, runtimeVars, beatVars,
                   workVars, sessions, watches, pending, spaceVars, drainVars, withheld, endVars>>

-----------------------------------------------------------------------------
(* Failure and rollback *)

\* What the code tests at a step and finds wrong.
StepRefused(a) ==
    \/ step[a] = "admitted" /\ holder # 0
    \/ step[a] = "hydrated" /\ ledgerDraining
    \/ step[a] = "inserted" /\ (~Held(a) \/ ~NotSuperseded(a))
    \/ step[a] = "published" /\ hostDraining
    \/ step[a] = "begun" /\ ~Commits(a)
    \/ step[a] = "owned" /\ (~current(session, a) \/ ~Held(a))
    \/ step[a] = "read" /\ ~NotSuperseded(a)

\* Beside that a collaborator may fail, or the attach may find its context
\* cancelled.
MayFail(a) == StepRefused(a) \/ "failure" \in Paths \/ context[a] = "cancelled"

FailsPlainly(a) ==
    /\ step[a] \in {"admitted", "leased", "hydrated", "launched", "inserted", "published"}
    /\ MayFail(a)
    /\ Goto(a, "rollback", "location")
    /\ UNCHANGED <<beat, consumers, sessions>>

\* beginWork fails or trackResident refuses: the work and the loop stop.
FailsToCommit(a) ==
    /\ step[a] = "begun" /\ MayFail(a)
    /\ beat' = StoppedBeat(a)
    /\ consumers' = 0
    /\ Goto(a, "rollback", "location")
    /\ UNCHANGED sessions

\* Watch refuses a key that has one; forgetResident finds no record to prune.
WatchRefused(a) ==
    /\ step[a] = "tracked" /\ watches # 0
    /\ ForgetSession(a)
    /\ beat' = StoppedBeat(a)
    /\ consumers' = 0
    /\ Goto(a, "rollback", "location")

\* Step 8 fails under an ownership that was begun, which rolls it back.
FailsToAnnounce(a) ==
    /\ step[a] \in {"owned", "read"} /\ MayFail(a)
    /\ Goto(a, "rollback", "stop")
    /\ UNCHANGED <<beat, consumers, sessions>>

AttachFails(a) ==
    /\ InFlight(a) /\ ~Unwinding(a)
    /\ FailsPlainly(a) \/ FailsToCommit(a) \/ WatchRefused(a) \/ FailsToAnnounce(a)
    /\ IF step[a] \in {"inserted", "read"} /\ ~NotSuperseded(a)
       THEN fenceEnded' = fenceEnded \cup {a} ELSE UNCHANGED fenceEnded
    /\ UNCHANGED <<registryVars, ledgerVars, storeVars, leaseVars, runtimeVars, begun,
                   finished, workDone, watches, recordVars, pending, spaceVars, drainVars, withheld,
                   attachVars, gaveUp>>

Rollback(a, label) == at[a]["rollback"] = label

\* Without an authority: the tombstone through the fence, and the entry.
RollbackLocation(a) ==
    /\ Rollback(a, "location")
    /\ IF Reached(a, "published")
       THEN Tombstone(a) ELSE UNCHANGED <<location, fenceEnded, withheld>>
    /\ IF current(session, a) THEN RemoveByGeneration(session, a)
                              ELSE UNCHANGED registryVars
    /\ Goto(a, "rollback", "runtime")
    /\ UNCHANGED <<ledgerVars, holder, lastEpoch, rivals, leaseVars, runtimeVars,
                   beatVars, workVars, sessions, watches, recordVars, pending, spaceVars,
                   drainVars, attachVars, gaveUp>>

\* With one, committedOwnership.Stop: the composition lets the residency go.
RollbackStops(a) ==
    /\ Rollback(a, "stop")
    /\ StopWork(a)
    /\ watches' = 0
    /\ forgetResident(a)
    /\ beat' = StoppedBeat(a)
    /\ Goto(a, "rollback", "finish")
    /\ UNCHANGED <<registryVars, ledgerVars, storeVars, grantVars, begun, finished,
                   pending, spaceVars, drainVars, withheld, attachVars, gaveUp>>

RollbackFinishes(a) ==
    /\ Rollback(a, "finish")
    /\ FinishRelease(a)
    /\ Goto(a, "rollback", "runtime")
    /\ UNCHANGED <<ledgerVars, holder, lastEpoch, rivals, leaseVars, runtimeVars,
                   workVars, sessions, watches, recordVars, pending, spaceVars, drainVars,
                   attachVars, gaveUp>>

\* The rollback's context has no deadline: it waits a running teardown out.
RollbackRuntime(a) ==
    /\ Rollback(a, "runtime")
    /\ ~InTeardown(a)
    /\ IF Reached(a, "launched")
       THEN \E r \in GracefulOutcomes(a) \ {"closing"} :
              /\ RuntimeTo(a, r)
              /\ withheld' = (withheld \/ r # "released")
       ELSE UNCHANGED <<runtimeVars, withheld>>
    /\ Goto(a, "rollback", "rest")
    /\ UNCHANGED <<registryVars, ledgerVars, storeVars, grantVars, beatVars, workVars,
                   sessions, watches, recordVars, pending, spaceVars, drainVars,
                   attachVars, gaveUp>>

\* The workspace, the lease, the session context and the charge: through the
\* residency's once-only steps when ownership was begun, else directly.
OwnershipBegan(a) == Reached(a, "owned")

RollbackReturnsRest(a) ==
    /\ Rollback(a, "rest")
    /\ \E drops, hands \in BOOLEAN :
         /\ IF OwnershipBegan(a) THEN DropState(a, drops)
            ELSE IF Reached(a, "hydrated") THEN ReleaseWorkspace(drops) /\ UNCHANGED dropped
            ELSE drops /\ UNCHANGED spaceVars
         /\ ReleaseLease(a, hands)
         /\ Owe(drops /\ hands /\ (OwnershipBegan(a) \/ Charged(session)))
    /\ context' = [context EXCEPT ![a] = "cancelled"]
    /\ IF OwnershipBegan(a) THEN ReleaseOwned(session, a) ELSE ReleaseCharge(session)
    /\ pending' = IF pending = a THEN 0 ELSE pending
    /\ Goto(a, "rollback", "done")
    /\ To(a, "failed")
    /\ UNCHANGED <<registryVars, location, fenceEnded, runtime, onRelease, beatVars,
                   workVars, sessions, watches, recordVars, drainVars, gaveUp>>
=============================================================================
