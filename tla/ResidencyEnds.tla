---------------------------- MODULE ResidencyEnds ----------------------------
(***************************************************************************)
(* What happens to a residency after its attach: the heartbeat that keeps  *)
(* its route and notices that the grant is gone, and the paths that end it *)
(* beside the rollback.  They run concurrently and share the resident's    *)
(* once-only steps.                                                        *)
(***************************************************************************)
EXTENDS ResidencyAttach

Path(a, e, label) == at[a][e] = label

-----------------------------------------------------------------------------
(* The store's lease and another Host, both external *)

\* The lease lapses in the store; this Host learns of it later.
LeaseExpires(a) ==
    /\ "expiry" \in Paths /\ a \in Mortal
    /\ holder = a
    /\ holder' = 0
    /\ UNCHANGED <<registryVars, ledgerVars, lastEpoch, rivals, location, grantVars,
                   runtimeVars, beatVars, workVars, sessions, watches, recordVars, pending,
                   spaceVars, drainVars, withheld, attachVars, endVars>>

LostCloses(a) ==
    /\ grant[a] = "held" /\ holder # a
    /\ grant' = [grant EXCEPT ![a] = "gone"]
    /\ UNCHANGED <<registryVars, ledgerVars, storeVars, epoch, handedBack, fenceEnded,
                   runtimeVars, beatVars, workVars, sessions, watches, recordVars, pending, spaceVars,
                   drainVars, withheld, attachVars, endVars>>

\* Another Host acquires the session and publishes it; later it releases it.
RivalAcquires ==
    /\ holder = 0 /\ rivals < MaxRivals
    /\ holder' = Rival
    /\ lastEpoch' = lastEpoch + 1
    /\ rivals' = rivals + 1
    /\ location' = [epoch |-> lastEpoch + 1, state |-> "resident", accepting |-> TRUE]
    /\ UNCHANGED <<registryVars, ledgerVars, grantVars, runtimeVars, beatVars, workVars,
                   sessions, watches, recordVars, pending, spaceVars, drainVars, withheld,
                   attachVars, endVars>>

RivalReleases ==
    /\ holder = Rival
    /\ holder' = 0
    /\ location' = [location EXCEPT !.state = "tombstone", !.accepting = FALSE]
    /\ UNCHANGED <<registryVars, ledgerVars, lastEpoch, rivals, grantVars, runtimeVars,
                   beatVars, workVars, sessions, watches, recordVars, pending, spaceVars,
                   drainVars, withheld, attachVars, endVars>>

-----------------------------------------------------------------------------
(* Heartbeat *)

heartbeatFrame == UNCHANGED <<ledgerVars, holder, lastEpoch, rivals, leaseVars,
                              runtimeVars, begun, finished, workVars, sessions, watches,
                              recordVars, pending, spaceVars, drainVars, withheld,
                              attachVars, endVars>>

\* surrender: claim the teardown and end the fence; only a claim that was won
\* is handed to ResidencyLost.
Surrender(a) ==
    /\ fenceEnded' = fenceEnded \cup {a}
    /\ \/ /\ BeginTeardown(session, a)
          /\ beat' = [beat EXCEPT ![a] = "lost"]
       \/ /\ ~current(session, a) \/ entries[session].teardownOwned
          /\ beat' = [beat EXCEPT ![a] = "stopped"]
          /\ UNCHANGED registryVars

\* beat: the route is republished from the entry as it is now.
Beat(a) ==
    /\ beat[a] = "beating"
    /\ current(session, a) /\ Held(a) /\ NotSuperseded(a)
    /\ location' = Written(a, residencyOf(entries[session].state), Accepting)
    /\ UNCHANGED <<registryVars, fenceEnded, beat>>
    /\ heartbeatFrame

\* The grant is gone, or the store refuses the beat for a later epoch.
BeatSurrenders(a) ==
    /\ beat[a] = "beating"
    /\ grant[a] = "gone" \/ (current(session, a) /\ (~Held(a) \/ ~NotSuperseded(a)))
    /\ Surrender(a)
    /\ UNCHANGED location
    /\ heartbeatFrame

\* The entry is another's, or the session context is cancelled.
BeatEnds(a) ==
    /\ beat[a] = "beating"
    /\ ~current(session, a) \/ context[a] = "cancelled"
    /\ beat' = [beat EXCEPT ![a] = "stopped"]
    /\ UNCHANGED <<registryVars, location, fenceEnded>>
    /\ heartbeatFrame

-----------------------------------------------------------------------------
(* Giving a residency up: a lost grant, or a runtime that is unusable *)

\* mutant of LostGoes: only the keyed handles are let go
LostLetsGo(a) == Goto(a, "lost", "absent") /\ UNCHANGED gaveUp

\* Where a lost grant is taken: to the give-up of the residency the key maps
\* to, once, or past it.
LostGoes(a) ==
    IF sessions # a THEN Goto(a, "lost", "absent") /\ UNCHANGED gaveUp
    ELSE IF a \in gaveUp THEN UNCHANGED endVars
    ELSE Goto(a, "lost", "abandon") /\ gaveUp' = gaveUp \cup {a}

\* ResidencyLost, on the residency the key maps to ...
ResidencyLost(a) ==
    /\ beat[a] = "lost"
    /\ beat' = [beat EXCEPT ![a] = "stopped"]
    /\ LostGoes(a)
    /\ UNCHANGED <<registryVars, ledgerVars, storeVars, grantVars, runtimeVars, begun,
                   finished, workVars, sessions, watches, recordVars, pending, spaceVars,
                   drainVars, withheld, attachVars>>

\* ... or on one it does not: the watch of the KEY, and the record.
LostForgets(a) ==
    /\ Path(a, "lost", "absent")
    /\ watches' = 0
    /\ PruneRecord(a)
    /\ Goto(a, "lost", "done")
    /\ UNCHANGED <<registryVars, ledgerVars, storeVars, grantVars, runtimeVars, beatVars,
                   workVars, sessions, pending, spaceVars, drainVars, withheld, attachVars,
                   gaveUp>>

\* superviseFaults and strandedAttempt: a fault reported while the runtime
\* runs and the session context is open.  giveUp leaves alone a runtime that
\* cannot be abandoned.
FaultStrikes(a) ==
    /\ "unusable" \in Paths /\ Abandonable /\ a \in Mortal
    /\ (Reached(a, "tracked") /\ sessions = a) \/ Reached(a, "owned") \/ step[a] = "attached"
    /\ a \notin gaveUp
    /\ runtime[a] # "none" /\ ~Over(a) /\ context[a] = "open"
    /\ gaveUp' = gaveUp \cup {a}
    /\ Goto(a, "unusable", "begin")
    /\ UNCHANGED <<registryVars, ledgerVars, storeVars, grantVars, runtimeVars, beatVars,
                   workVars, sessions, watches, recordVars, pending, spaceVars, drainVars,
                   withheld, attachVars>>

\* BeginRelease for the paths that write `releasing' first.
PathBegins(a, e, next) ==
    /\ Path(a, e, "begin")
    /\ BeginRelease(a)
    /\ Goto(a, e, next)
    /\ UNCHANGED <<ledgerVars, holder, lastEpoch, rivals, leaseVars, runtimeVars,
                   workVars, sessions, watches, recordVars, pending, spaceVars, drainVars,
                   withheld, attachVars, gaveUp>>

UnusableBegins(a) == PathBegins(a, "unusable", "abandon")

\* stopWork, then the crash-equivalent abandon of the runtime, or its bounded
\* graceful release where it offers none.
GiveUpOutcomes(a) == IF Abandonable THEN AbandonOutcomes(a) ELSE GracefulOutcomes(a)

GiveUpAbandons(a, e) ==
    /\ Path(a, e, "abandon")
    /\ StopWork(a)
    /\ \E r \in GiveUpOutcomes(a) : RuntimeTo(a, r) /\ KeptLease(r)
    /\ Goto(a, e, "finish")
    /\ UNCHANGED <<registryVars, ledgerVars, storeVars, grantVars, beatVars, sessions,
                   watches, recordVars, pending, spaceVars, drainVars, attachVars, gaveUp>>

\* releaseSession.FinishRelease: the entry, the grant, the workspace, in turn.
PathFinishes(a, e) ==
    /\ Path(a, e, "finish")
    /\ FinishRelease(a)
    /\ Goto(a, e, "lease")
    /\ UNCHANGED <<ledgerVars, holder, lastEpoch, rivals, leaseVars, runtimeVars,
                   workVars, sessions, watches, recordVars, pending, spaceVars, drainVars,
                   attachVars, gaveUp>>

PathReleasesLease(a, e) ==
    /\ Path(a, e, "lease")
    /\ \E ok \in BOOLEAN : ReleaseLease(a, ok) /\ Owe(ok)
    /\ Goto(a, e, "drop")
    /\ UNCHANGED <<registryVars, ledgerVars, location, fenceEnded, runtimeVars, beatVars,
                   workVars, sessions, watches, recordVars, pending, spaceVars, drainVars,
                   attachVars, gaveUp>>

AfterDrop(e) == IF e = "drain" THEN "end" ELSE "check"

PathDrops(a, e) ==
    /\ Path(a, e, "drop") /\ e # "warm"
    /\ \E ok \in BOOLEAN : DropState(a, ok) /\ Owe(ok)
    /\ Goto(a, e, AfterDrop(e))
    /\ UNCHANGED <<registryVars, ledgerVars, storeVars, grantVars, runtimeVars, beatVars,
                   workVars, sessions, watches, recordVars, pending, drainVars, attachVars,
                   gaveUp>>

\* Keyed calls run only while this residency is still the one held.
GiveUpChecks(a, e) ==
    /\ Path(a, e, "check")
    /\ IF sessions = a
       THEN ReleaseOwned(session, a) /\ Goto(a, e, "unwatch")
       ELSE UNCHANGED ledgerVars /\ Goto(a, e, "forget")
    /\ UNCHANGED <<registryVars, storeVars, grantVars, runtimeVars, beatVars, workVars,
                   sessions, watches, recordVars, pending, spaceVars, drainVars, withheld,
                   attachVars, gaveUp>>

GiveUpUnwatches(a, e) ==
    /\ Path(a, e, "unwatch") /\ e # "warm"
    /\ watches' = 0
    /\ Goto(a, e, "forget")
    /\ UNCHANGED <<registryVars, ledgerVars, storeVars, grantVars, runtimeVars, beatVars,
                   workVars, sessions, recordVars, pending, spaceVars, drainVars, withheld,
                   attachVars, gaveUp>>

GiveUpForgets(a, e) ==
    /\ Path(a, e, "forget") /\ e # "warm"
    /\ forgetResident(a)
    /\ Goto(a, e, "done")
    /\ UNCHANGED <<registryVars, ledgerVars, storeVars, grantVars, beatVars, workVars,
                   watches, pending, spaceVars, drainVars, withheld, attachVars, gaveUp>>
=============================================================================
