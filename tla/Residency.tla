------------------------------ MODULE Residency ------------------------------
(***************************************************************************)
(* The residencies of one session on one Host: the attach, the heartbeat,  *)
(* every path that ends a residency, the lease store and a rival Host,     *)
(* interleaved.                                                            *)
(***************************************************************************)
EXTENDS ResidencyReleases

\* An attach that has started, and the rollback it may end in.
AttachWorks(a) ==
    \/ AttachAcquires(a) \/ AttachHydrates(a) \/ AttachLaunches(a)
    \/ AttachInserts(a) \/ AttachPublishes(a) \/ AttachBegins(a) \/ AttachTracks(a)
    \/ AttachWatches(a) \/ AttachReads(a) \/ AttachAnnounces(a) \/ AttachRecords(a)
    \/ AttachFails(a)
    \/ RollbackLocation(a) \/ RollbackStops(a) \/ RollbackFinishes(a)
    \/ RollbackRuntime(a) \/ RollbackReturnsRest(a)

HeartbeatWorks(a) == Beat(a) \/ BeatSurrenders(a) \/ BeatEnds(a)

LostWorks(a) == ResidencyLost(a) \/ LostForgets(a)

\* The path e of a residency, once begun.
PathWorks(a, e) ==
    \/ e \in {"lost", "unusable"} /\ \/ GiveUpAbandons(a, e) \/ GiveUpChecks(a, e)
                                     \/ GiveUpUnwatches(a, e) \/ GiveUpForgets(a, e)
    \/ e = "unusable" /\ UnusableBegins(a)
    \/ e \in {"lost", "unusable", "warm", "drain"} /\
         (PathFinishes(a, e) \/ PathReleasesLease(a, e) \/ PathDrops(a, e))

WarmWorks(a) ==
    \/ WarmSeesLoss(a) \/ WarmBegins(a) \/ WarmWaitsInVain(a)
    \/ WarmReleases(a) \/ WarmTakesBack(a) \/ WarmHolds(a) \/ WarmCreditsAndDrops(a)
    \/ WarmUnwatches(a) \/ WarmForgets(a)

DrainWorks ==
    \/ DrainStopsAdmission \/ DrainSnapshotsRegistry \/ DrainPublishes
    \/ DrainSnapshotsSessions \/ SettleLooks \/ CancelAttaches \/ AttachesSettle
    \/ DrainSettles
    \/ \E a \in Generations :
         DrainLooks(a) \/ DrainAwaits(a) \/ DrainBegins(a) \/ DrainReleases(a) \/ DrainAbandons(a)
         \/ DrainEnds(a)

Environment ==
    \/ RivalAcquires \/ RivalReleases
    \/ \E a \in Generations : LeaseExpires(a) \/ LostCloses(a) \/ FaultStrikes(a)

Next == \/ \E a \in Generations :
             \/ AttachAdmits(a) \/ AttachWorks(a)
             \/ HeartbeatWorks(a)
             \/ LostWorks(a)
             \/ \E e \in Ends : PathWorks(a, e)
             \/ WarmStarts(a) \/ WarmWorks(a)
             \/ RuntimeSettles(a)
        \/ DrainStarts \/ DrainWorks
        \/ Environment

Spec == Init /\ [][Next]_vars

\* Goroutines that can run do run: an attach, a heartbeat, the two paths that end
\* a lost or an unusable residency, and the drain.  A lapsed lease is noticed by
\* its renewal.  Nobody has to attach, to drain or to be idle, a warm release
\* need not go on, and a runtime need not ever answer its teardown.
Fairness ==
    /\ \A a \in Generations :
         /\ WF_vars(AttachWorks(a))
         /\ WF_vars(HeartbeatWorks(a))
         /\ WF_vars(LostWorks(a))
         /\ \A e \in {"lost", "unusable"} : WF_vars(PathWorks(a, e))
         /\ WF_vars(LostCloses(a))
    /\ WF_vars(DrainWorks \/ \E a \in Generations : PathWorks(a, "drain"))

FairSpec == Spec /\ Fairness

-----------------------------------------------------------------------------
(* The attach *)

\* An attach that failed has given back what it took (manager.go: unwinder),
\* although a give-up, a watch or a drain of the same residency may have been
\* under way: route handles, consumer, charge, record and heartbeat, and the
\* grant unless its release is on the ledger of what the Host still owes.
FailedAttachHoldsNothing ==
    \A a \in Generations : step[a] = "failed" =>
        /\ a \notin {sessions, watches, recorded, consumers, pending}
        /\ ~current(session, a) /\ ~OwnedBy(session, a)
        /\ context[a] = "cancelled" /\ beat[a] # "beating"
        /\ holder = a \/ grant[a] = "held" => withheld

-----------------------------------------------------------------------------
(* A residency and the ends of its predecessor *)

\* The paths of a that have started.
Ending(a) == {e \in Ends : at[a][e] # "off"}

\* An attach that failed and that a give-up had caught.
StoppedTwice == \E b \in gaveUp : step[b] = "failed"

Untouched(a) == step[a] = "attached" /\ Ending(a) = {} /\ beat[a] = "beating"

\* The ends of its predecessor do not reach a residency.  While it is registered
\* it holds the session's charge, although a release before it may still be
\* about to credit (booked finding B2; warm.go: release, after ReleaseLease).
\* While nothing has begun to end it, it keeps its place in Service.sessions, from
\* which a drain takes what it must release (adapters.go: forgetResident), and
\* its command consumer, although stopping the work of another forgets the
\* consumer of the KEY (session.go: stopWork and its once).  The once does not
\* cover a give-up that caught an attach which then failed: BeginOwnership stops
\* that attach's work beside it, and the give-up stops it again.
ResidentIsIntact ==
    \A a \in Generations :
        /\ current(session, a) => admitted[session].owner = a
        /\ Untouched(a) => sessions = a /\ (consumers = a \/ StoppedTwice)

-----------------------------------------------------------------------------
(* The end of a residency *)

\* A residency whose release is finished has no registry entry, whichever of the
\* concurrent paths finished it and whoever owned the teardown (heartbeat.go:
\* finishRelease), so the key can be attached again: an attach that reaches
\* step 5 finds no entry and can bind its charge, and the branch for a lost race
\* there (manager.go) has nothing to do.
FinishedIsRemoved ==
    /\ \A a \in finished : ~current(session, a)
    /\ \A a \in Generations : StepAt(a, "launched") =>
           entries[session] = NoEntry /\ Ownable(session, a)

\* A route is given up only after the runtime behind it: once an attached
\* residency is finished its runtime has ended or is being abandoned, and never
\* goes on serving beside a successor's (drain.go: release, session.go).  A
\* runtime that offers no abandon may: it is reported as parked.
RuntimeEndsFirst ==
    Abandonable => \A a \in finished : step[a] = "attached" => Over(a) \/ runtime[a] = "abandoning"

\* The session context of an attached residency is cancelled only after its
\* runtime released, however late that is (adapters.go: endResidency).
RuntimeOutlivedByContext ==
    \A a \in Generations : step[a] = "attached" /\ context[a] = "cancelled"
                             => runtime[a] = "released"

\* After its tombstone a route does not accept work again at that epoch
\* (heartbeat.go:501 stops the loop first for this reason), neither through a
\* beat in flight nor through the attach's own last write.  The give-up of an
\* unusable runtime, which does not wait for the attach, is not part of this.
TombstoneIsFinal ==
    [][location.state = "tombstone" /\ location'.epoch = location.epoch
         => ~location'.accepting]_vars

\* The Manager holds no record of a, and a released runtime's context is over.
Forgotten(a) == /\ recorded # a /\ a \notin overtaken
                /\ runtime[a] = "released" => context[a] = "cancelled"

\* The last step of a path that ends an attached residency forgets it, also when
\* its record was overtaken by a successor's (manager.go: PruneResidency).  A
\* lost grant whose residency is no longer the key's prunes and leaves the
\* context, so that case is left to the path that owns the residency.
EndForgets ==
    [][\A a \in Generations : \A e \in Ends :
         /\ step[a] = "attached" /\ (e = "lost" \/ at[a]["lost"] = "off")
         /\ at[a][e] \in {"forget", "end"} /\ at'[a][e] = "done"
         => Forgotten(a)']_vars

-----------------------------------------------------------------------------
(* Drain *)

\* A Host that reports `drained' has neither the grant nor the entry of any
\* session it had attached, also of one that committed while the drain began
\* (drain.go: settledState; adapters.go: trackResident).
DrainedHoldsNothing ==
    drain = "drained" =>
        \A a \in Generations : step[a] = "attached" => holder # a /\ ~current(session, a)

-----------------------------------------------------------------------------
(* Progress *)

\* A residency that lost its grant leaves the registry, wherever its attach or
\* another end of it was: a lost session must not stay registered with nobody
\* to release it (adapters.go: ResidencyLost, manager.go: step 8).
LostIsRemoved ==
    \A a \in Generations :
        current(session, a) /\ grant[a] = "gone" ~> ~current(session, a)

\* From some time after the drain stopped admission no route this Host owns
\* accepts work, although an attach or a beat may have read the entry before
\* (drain.go: publish, heartbeat.go: beat), unless a write the store refused is
\* accounted for.
DrainWithdrawsRoute ==
    \A a \in Generations :
        ledgerDraining ~> [](Held(a) /\ location.epoch = epoch[a] /\ location.accepting => withheld)
=============================================================================
