-------------------------- MODULE ResidencyReleases --------------------------
(***************************************************************************)
(* The graceful ends of a residency: the warm release of a session that    *)
(* has been idle, and the drain of the Host.                               *)
(***************************************************************************)
EXTENDS ResidencyEnds

(* Warm release *)

\* ConfirmIdle asks the residency the KEY maps to, and that its attach settled.
ConfirmIdle == sessions # 0 /\ step[sessions] = "attached"

\* The countdown of a's watch runs out; StopAdmitting is refused when the
\* entry is another generation's, and then the watch is over.
WarmStarts(a) ==
    /\ "warm" \in Paths /\ a \in Mortal
    /\ watches = a /\ Path(a, "warm", "off")
    /\ ConfirmIdle
    /\ IF current(session, a)
       THEN StopAdmitting(session, a) /\ Goto(a, "warm", "begin")
       ELSE UNCHANGED registryVars /\ Goto(a, "warm", "ending")
    /\ UNCHANGED <<ledgerVars, storeVars, grantVars, runtimeVars, beatVars, workVars,
                   sessions, watches, recordVars, pending, spaceVars, drainVars, withheld,
                   attachVars, gaveUp>>

\* The watch's own select on Lost.
WarmSeesLoss(a) ==
    /\ watches = a /\ Path(a, "warm", "off")
    /\ grant[a] = "gone"
    /\ Goto(a, "warm", "ending")
    /\ UNCHANGED <<registryVars, ledgerVars, storeVars, grantVars, runtimeVars, beatVars,
                   workVars, sessions, watches, recordVars, pending, spaceVars, drainVars,
                   withheld, attachVars, gaveUp>>

WarmBegins(a) == PathBegins(a, "warm", "release")

\* WaitIdle runs out before any work was stopped ...
WarmWaitsInVain(a) ==
    /\ Path(a, "warm", "release")
    /\ Goto(a, "warm", "abort")
    /\ UNCHANGED <<registryVars, ledgerVars, storeVars, grantVars, runtimeVars, beatVars,
                   workVars, sessions, watches, recordVars, pending, spaceVars, drainVars,
                   withheld, attachVars, gaveUp>>

\* ... or the work stops and the runtime releases, or does not.
WarmReleases(a) ==
    /\ Path(a, "warm", "release")
    /\ StopWork(a)
    /\ \E r \in GracefulOutcomes(a) :
         /\ RuntimeTo(a, r)
         /\ Goto(a, "warm", IF r = "released" THEN "finish" ELSE "abort")
    /\ UNCHANGED <<registryVars, ledgerVars, storeVars, grantVars, beatVars, sessions,
                   watches, recordVars, pending, spaceVars, drainVars, withheld,
                   attachVars, gaveUp>>

\* AbortRelease: the release is taken back, and the watch goes on; refused, the
\* session stays with this Host under its grant and the watch ends.
MayTakeBack(a) == /\ a \notin workDone /\ a \notin finished
                  /\ Held(a) /\ ~ledgerDraining
                  /\ Resumable(session, a)

WarmTakesBack(a) ==
    /\ Path(a, "warm", "abort")
    /\ MayTakeBack(a)
    /\ ResumeResident(session, a)
    /\ begun' = begun \ {a}
    /\ \E ok \in BOOLEAN :
         /\ FencedWrite(a, "resident", TRUE, ok)
         /\ Goto(a, "warm", IF a \in fenceEnded' THEN "ending" ELSE "off")
    /\ UNCHANGED <<ledgerVars, holder, lastEpoch, rivals, leaseVars, runtimeVars, beat,
                   finished, workVars, sessions, watches, recordVars, pending, spaceVars,
                   drainVars, withheld, attachVars, gaveUp>>

WarmHolds(a) ==
    /\ Path(a, "warm", "abort")
    /\ ~MayTakeBack(a)
    /\ Goto(a, "warm", "ending")
    /\ UNCHANGED <<registryVars, ledgerVars, storeVars, grantVars, runtimeVars, beatVars,
                   workVars, sessions, watches, recordVars, pending, spaceVars, drainVars,
                   withheld, attachVars, gaveUp>>

\* The charge, and then the local state of the KEY.
WarmCreditsAndDrops(a) ==
    /\ Path(a, "warm", "drop")
    /\ ReleaseOwned(session, a)
    /\ \E ok \in BOOLEAN : DropState(a, ok) /\ Owe(ok)
    /\ Goto(a, "warm", "unwatch")
    /\ UNCHANGED <<registryVars, storeVars, grantVars, runtimeVars, beatVars, workVars,
                   sessions, watches, recordVars, pending, drainVars, attachVars, gaveUp>>

\* finish: the watch goes if the key still maps to this one; a completed
\* release then drops the composition's handle.
WarmUnwatches(a) ==
    /\ at[a]["warm"] \in {"ending", "unwatch"}
    /\ watches' = IF watches = a THEN 0 ELSE watches
    /\ Goto(a, "warm", IF at[a]["warm"] = "ending" THEN "done" ELSE "forget")
    /\ UNCHANGED <<registryVars, ledgerVars, storeVars, grantVars, runtimeVars, beatVars,
                   workVars, sessions, recordVars, pending, spaceVars, drainVars, withheld,
                   attachVars, gaveUp>>

WarmForgets(a) ==
    /\ Path(a, "warm", "forget")
    /\ forgetResident(a)
    /\ Goto(a, "warm", "done")
    /\ UNCHANGED <<registryVars, ledgerVars, storeVars, grantVars, beatVars, workVars,
                   watches, pending, spaceVars, drainVars, withheld, attachVars, gaveUp>>

-----------------------------------------------------------------------------
(* Drain *)

drainFrame == UNCHANGED <<registryVars, holder, lastEpoch, rivals, grantVars, beatVars,
                          workVars, sessions, watches, recordVars, spaceVars, attachVars,
                          gaveUp>>

\* Service.StartDrain sets its own flag, then Drainer.StartDrain the ledger's.
DrainStarts ==
    /\ "drain" \in Paths
    /\ drain = "none"
    /\ hostDraining' = TRUE
    /\ drain' = "flagged"
    /\ drainFrame
    /\ UNCHANGED <<ledgerVars, location, runtimeVars, pending, noted, awaits, settling,
                   withheld, at>>

DrainStopsAdmission ==
    /\ drain = "flagged"
    /\ BeginDrain
    /\ drain' = "closed"
    /\ drainFrame
    /\ UNCHANGED <<location, runtimeVars, pending, hostDraining, noted, awaits, settling,
                   withheld, at>>

\* PublishNonaccepting: a snapshot of the registry, then a location write that
\* asks the store for the epoch and no fence.  A refused publication leaves the
\* drain to be asked for again.
DrainSnapshotsRegistry ==
    /\ drain = "closed"
    /\ noted' = entries[session]
    /\ drain' = "publishing"
    /\ drainFrame
    /\ UNCHANGED <<ledgerVars, location, runtimeVars, pending, hostDraining, awaits,
                   settling, withheld, at>>

DrainPublishes ==
    /\ drain = "publishing"
    /\ LET a == noted.generation IN
       \/ /\ IF a # 0 /\ NotSuperseded(a)
             THEN location' = Written(a, residencyOf(noted.state), FALSE)
             ELSE UNCHANGED location
          /\ drain' = "published"
       \/ /\ a # 0 /\ "failure" \in Paths
          /\ drain' = "closed"
          /\ UNCHANGED location
    /\ drainFrame
    /\ UNCHANGED <<ledgerVars, runtimeVars, pending, hostDraining, noted, awaits,
                   settling, withheld, at>>

\* ResidentSessions: what this drain releases.
DrainSnapshotsSessions ==
    /\ drain = "published"
    /\ drain' = "running"
    /\ settling' = "look"
    /\ at' = [a \in Generations |-> [at[a] EXCEPT
                !["drain"] = IF a = sessions THEN "look" ELSE @]]
    /\ drainFrame
    /\ UNCHANGED <<ledgerVars, location, runtimeVars, pending, hostDraining, noted, awaits,
                   withheld>>

\* awaitAttaches: the attach in flight at the moment of the call ...
InFlightNow(c) == IF c = 0 THEN SlotFree ELSE InFlight(c)

\* mutant of Returned: the drain does not wait for attaches
NotAwaited(who) == TRUE

\* ... has returned.
Returned(who) == IF awaits[who] = 0 THEN TRUE ELSE ~InFlight(awaits[who])

\* release: an attach of this session that is still returning comes first; one
\* that outlives the grace is recorded and the session left to it.
DrainLooks(a) ==
    /\ Path(a, "drain", "look")
    /\ \E c \in Generations \cup {0} :
         InFlightNow(c) /\ awaits' = [awaits EXCEPT !.session = c]
    /\ Goto(a, "drain", "await")
    /\ drainFrame
    /\ UNCHANGED <<ledgerVars, location, runtimeVars, pending, hostDraining, drain, noted,
                   settling, withheld>>

DrainAwaits(a) ==
    /\ Path(a, "drain", "await")
    /\ \/ /\ Returned("session")
          /\ Goto(a, "drain", IF step[a] = "failed" THEN "done" ELSE "begin")
          /\ UNCHANGED withheld
       \/ /\ ~Returned("session")
          /\ Goto(a, "drain", "done")
          /\ withheld' = TRUE
    /\ awaits' = [awaits EXCEPT !.session = 0]
    /\ drainFrame
    /\ UNCHANGED <<ledgerVars, location, runtimeVars, pending, hostDraining, drain, noted,
                   settling>>

DrainBegins(a) == PathBegins(a, "drain", "release")

\* mutant of AfterRelease: a runtime that would not release is left as it is
AfterAnyRelease(r) == "finish"

\* A runtime that did not release in its grace is abandoned.
AfterRelease(r) == IF r = "released" THEN "finish" ELSE "abandon"

DrainReleases(a) ==
    /\ Path(a, "drain", "release")
    /\ StopWork(a)
    /\ \E r \in GracefulOutcomes(a) :
         /\ RuntimeTo(a, r)
         /\ KeptLease(r)
         /\ Goto(a, "drain", AfterRelease(r))
    /\ UNCHANGED <<registryVars, ledgerVars, storeVars, grantVars, beatVars, sessions,
                   watches, recordVars, pending, spaceVars, drainVars, attachVars, gaveUp>>

\* A runtime that cannot be abandoned, or not in time, is booked as parked.
DrainAbandons(a) ==
    /\ Path(a, "drain", "abandon")
    /\ \E r \in IF Abandonable THEN AbandonOutcomes(a) ELSE {runtime[a]} :
         RuntimeTo(a, r) /\ KeptLease(r)
    /\ Goto(a, "drain", "finish")
    /\ drainFrame
    /\ UNCHANGED <<ledgerVars, location, pending, drainVars>>

DrainEnds(a) ==
    /\ Path(a, "drain", "end")
    /\ endResidency(a)
    /\ Goto(a, "drain", "done")
    /\ UNCHANGED <<registryVars, ledgerVars, storeVars, grantVars, beatVars, workVars,
                   sessions, watches, pending, spaceVars, drainVars, withheld, attachVars,
                   gaveUp>>

\* settleAttaches: wait for every attach in flight, then cancel what has not
\* committed and look again; what outlives the grace is recorded.
SettleLooks ==
    /\ settling \in {"look", "lookAgain"}
    /\ \E c \in Generations \cup {0} :
         InFlightNow(c) /\ awaits' = [awaits EXCEPT !.all = c]
    /\ settling' = IF settling = "look" THEN "patient" ELSE "grace"
    /\ drainFrame
    /\ UNCHANGED <<ledgerVars, location, runtimeVars, pending, hostDraining, drain, noted,
                   withheld, at>>

CancelAttaches ==
    /\ settling = "patient" /\ ~Returned("all")
    /\ context' = [a \in Generations |-> IF a = pending THEN "cancelled" ELSE context[a]]
    /\ pending' = 0
    /\ settling' = "lookAgain"
    /\ drainFrame
    /\ UNCHANGED <<ledgerVars, location, runtime, onRelease, hostDraining, drain, noted,
                   awaits, withheld, at>>

AttachesSettle ==
    /\ \/ settling \in {"patient", "grace"} /\ Returned("all") /\ UNCHANGED withheld
       \/ settling = "grace" /\ ~Returned("all") /\ withheld' = TRUE
    /\ settling' = "done"
    /\ awaits' = [awaits EXCEPT !.all = 0]
    /\ drainFrame
    /\ UNCHANGED <<ledgerVars, location, runtimeVars, pending, hostDraining, drain, noted,
                   at>>

\* settledState, once every session and the attaches were waited for.
DrainSettles ==
    /\ drain = "running" /\ settling = "done"
    /\ \A a \in Generations : at[a]["drain"] \in {"off", "done"}
    /\ drain' = IF withheld THEN "draining" ELSE "drained"
    /\ drainFrame
    /\ UNCHANGED <<ledgerVars, location, runtimeVars, pending, hostDraining, noted, awaits,
                   settling, withheld, at>>

-----------------------------------------------------------------------------
\* A teardown whose callers gave up ends later (Teardown models how).
RuntimeSettles(a) ==
    /\ InTeardown(a)
    /\ \E r \in {"released", "failed"} \cup IF runtime[a] = "closing" THEN {"live"} ELSE {} :
         RuntimeTo(a, r)
    /\ UNCHANGED <<registryVars, ledgerVars, storeVars, grantVars, beatVars, workVars,
                   sessions, watches, recordVars, pending, spaceVars, drainVars, withheld,
                   attachVars, endVars>>
=============================================================================
