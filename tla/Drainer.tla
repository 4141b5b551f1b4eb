------------------------------- MODULE Drainer -------------------------------
(* The Host's drain (lifecycle/drain.go) with the Service that admits it
   (compose/compose.go) and the HostLink request that asks for it
   (realtime/hostlink/drain.go).  Callers, a process stopping the Service or a
   tenant over its link, race to begin one drain: admission stops, the
   nonaccepting row is published within a bound, and only then is the drain
   begun and run.  The run settles the attaches in flight, takes every resident
   session through its release, and reads the ledger of releases that left
   something held.  What a release does inside one session is the module
   Residency's; here it is a sequence of waits, each of them bounded by a timer
   because the session may ignore its cancellation.                            *)
EXTENDS Naturals, FiniteSets

CONSTANTS Sessions,     \* the sessions placed on this Host
          Processes,    \* callers of Service.Stop
          Tenants,      \* callers over a tenant-authenticated HostLink
          Owner,        \* the tenant whose sessions these are
          Deaf,         \* sessions never idle, whose waits ignore their cancellation
          NoKey,        \* the zero scope, and the absent fixed session
          MaxMishaps    \* bound: failures of the store, the runtime or a bound

ASSUME DrainerAssumption ==
  /\ IsFiniteSet(Sessions) /\ Sessions # {} /\ Deaf \subseteq Sessions
  /\ NoKey \notin Sessions /\ NoKey \notin Tenants
  /\ Owner \in Tenants /\ MaxMishaps \in Nat

VARIABLES
  fixed,      \* Options.FixedSessionID: a dedicated Host's session, or NoKey
  store,      \* the session store Compose opens: none, open or closed
  service,    \* Service: none, composing, new, starting, started, stopped, ...
  draining,   \* Service.draining
  ledger,     \* Admissions.Draining
  drainer,    \* Drainer: begun, starting, startErr, begunScope, drainState ...
  caller,     \* each caller: where it is, and the answer it was given
  row,        \* the Host's target row: does it advertise an accepting Host?
  beat,       \* the heartbeat's publication in flight
  sess,       \* each session: where it is, and whether its grant is held
  rel,        \* the drain's release of each session
  attaches,   \* the drain's settleAttaches
  grace,      \* has the platform grace run out?
  unreleased, \* Service.unreleased, the release ledger
  mishaps

vars == <<fixed, store, service, draining, ledger, drainer, caller, row, beat, sess,
          rel, attaches, grace, unreleased, mishaps>>

hostVars == <<fixed, store, service, draining, ledger, row, beat>>
runVars  == <<rel, attaches, grace>>

Callers == Processes \cup Tenants

Init ==
  /\ fixed \in Sessions \cup {NoKey}
  /\ store = "none" /\ service = "none" /\ draining = FALSE /\ ledger = FALSE
  /\ drainer = [begun |-> FALSE, starting |-> FALSE, startErr |-> FALSE, scope |-> NoKey,
                state |-> "draining", settled |-> FALSE, failures |-> {}]
  /\ caller = [c \in Callers |-> [at |-> "out", answer |-> "none"]]
  /\ row = "absent" /\ beat = "none"
  /\ sess = [s \in Sessions |-> [at |-> "absent", held |-> FALSE]]
  /\ rel = [s \in Sessions |-> "none"]
  /\ attaches = "none" /\ grace = FALSE /\ unreleased = {} /\ mishaps = 0

Mishap == mishaps < MaxMishaps /\ mishaps' = mishaps + 1

-------------------------------------------------------------------------------
(* The Service around the drain.                                              *)

\* Service.attaching: attaches entered and not yet answered.
Inflight(s) == sess[s].at \in {"attaching", "committed"}
\* Service.sessions: the residents a drain's snapshot takes.
ResidentSessions ==
  {s \in Sessions : sess[s].at \in {"committed", "resident", "released", "leaked", "reported"}}

\* Compose refuses a composition that does not validate before it opens the
\* store.
Compose ==
  /\ service = "none"
  /\ \/ service' = "refused" /\ UNCHANGED store
     \/ service' = "composing" /\ store' = "open"
  /\ UNCHANGED <<fixed, draining, ledger, drainer, caller, row, beat, sess, runVars,
                 unreleased, mishaps>>

\* New: every collaborator built, nothing running and nothing held.
New == /\ service' = "new" /\ draining' = FALSE /\ ledger' = FALSE
       /\ unreleased' = {}

\* Every refusal after the store was opened closes it again.
Composed ==
  /\ service = "composing"
  /\ \/ New /\ UNCHANGED store
     \/ service' = "refused" /\ store' = "closed" /\ UNCHANGED <<draining, ledger, unreleased>>
  /\ UNCHANGED <<fixed, drainer, caller, row, beat, sess, runVars, mishaps>>

\* Start claims the transition, publishes outside the lock, and is started only
\* if the publication succeeded.
Start ==
  /\ service = "new"
  /\ service' = "starting"
  /\ UNCHANGED <<fixed, store, draining, ledger, drainer, caller, row, beat, sess, runVars,
                 unreleased, mishaps>>

Started ==
  /\ service = "starting"
  /\ \/ service' = "started" /\ row' = "accepting" /\ UNCHANGED mishaps
     \/ service' = "new" /\ Mishap /\ row' \in {row, "accepting"}
  /\ UNCHANGED <<fixed, store, draining, ledger, drainer, caller, beat, sess, runVars, unreleased>>

\* A Host that started, or holds anything, refuses to be disposed.
CloseUnstarted ==
  /\ service = "new" /\ ~draining
  /\ \A s \in Sessions : ~Inflight(s)
  /\ ResidentSessions = {}
  /\ service' = "disposed"
  /\ UNCHANGED <<fixed, store, draining, ledger, drainer, caller, row, beat, sess, runVars,
                 unreleased, mishaps>>

\* mutant of Advertised: the row is derived without asking whether the Host drains
AdvertisesAlways == "accepting"

\* What the ledger derives for a publication: a draining Host accepts nothing.
Advertised == IF ledger THEN "withdrawn" ELSE "accepting"

\* The heartbeat derives its row and writes it in two steps; the ledger may
\* flip, and the drain publish, between them.
Beat ==
  /\ \/ /\ beat = "none" /\ service = "started"
        /\ beat' = Advertised /\ UNCHANGED row
     \/ /\ beat # "none"
        /\ row' = beat /\ beat' = "none"
  /\ UNCHANGED <<fixed, store, service, draining, ledger, drainer, caller, sess, runVars,
                 unreleased, mishaps>>

-------------------------------------------------------------------------------
(* Sessions coming and going beside the drain.                                *)

SessionStep == UNCHANGED <<hostVars, drainer, caller, runVars>>

\* Attach: entered, registered as in flight, and admitted by a ledger that has
\* not stopped; a dedicated Host holds its fixed session only.  A second attach
\* of a session, which the charge of its first lets past the ledger, is not here.
Attach(s) ==
  /\ service = "started" /\ ~ledger
  /\ sess[s].at = "absent" /\ (fixed = NoKey \/ s = fixed)
  /\ sess' = [sess EXCEPT ![s] = [at |-> "attaching", held |-> TRUE]]
  /\ SessionStep /\ UNCHANGED <<unreleased, mishaps>>

\* mutant of trackResident: the commit point does not ask whether the Host drains
CommitsWhileDraining(s) ==
  /\ sess[s].at = "attaching"
  /\ sess' = [sess EXCEPT ![s].at = "committed"]
  /\ SessionStep /\ UNCHANGED <<unreleased, mishaps>>

\* The commit point, in the critical section the drain's snapshot reads under.
trackResident(s) ==
  /\ sess[s].at = "attaching" /\ ~draining /\ attaches # "cancelled"
  /\ sess' = [sess EXCEPT ![s].at = "committed"]
  /\ SessionStep /\ UNCHANGED <<unreleased, mishaps>>

\* The attach returns: resident, or rolled back; what a failed rollback leaves
\* held is on the ledger before the attach leaves the in-flight set.
settleAttach(s) ==
  /\ Inflight(s)
  /\ \/ /\ sess[s].at = "committed"
        /\ sess' = [sess EXCEPT ![s].at = "resident"]
        /\ UNCHANGED <<unreleased, mishaps>>
     \/ /\ sess' = [sess EXCEPT ![s] = [at |-> "ended", held |-> FALSE]]
        /\ UNCHANGED <<unreleased, mishaps>>
     \/ /\ Mishap
        /\ sess' = [sess EXCEPT ![s].at = "ended"]
        /\ unreleased' = unreleased \cup {s}
  /\ SessionStep

\* A warm release ends the residency beside the drain; a lease that would not
\* be given back is recorded first, and the handle dropped after.
WarmEnds(s) ==
  /\ sess[s].at = "resident"
  /\ \/ sess' = [sess EXCEPT ![s] = [at |-> "released", held |-> FALSE]] /\ UNCHANGED mishaps
     \/ sess' = [sess EXCEPT ![s].at = "leaked"] /\ Mishap
  /\ SessionStep /\ UNCHANGED unreleased

WarmRelease(s) ==
  /\ \/ /\ sess[s].at = "leaked"
        /\ unreleased' = unreleased \cup {s}
        /\ sess' = [sess EXCEPT ![s].at = "reported"]
     \/ /\ sess[s].at \in {"released", "reported"}
        /\ sess' = [sess EXCEPT ![s].at = "ended"]
        /\ UNCHANGED unreleased
  /\ SessionStep /\ UNCHANGED mishaps

-------------------------------------------------------------------------------
(* StartDrain and its callers.                                                *)

CallStep(c, at, answer) == caller' = [caller EXCEPT ![c] = [at |-> at, answer |-> answer]]
Outside == UNCHANGED <<fixed, store, service, row, beat, sess, unreleased>>

\* The registry: the fixed session is held, by this tenant.
Holds(c) == c = Owner /\ fixed \in ResidentSessions
\* beganDrainFor: the drain was begun under this caller's own scope.
beganDrainFor(c) == drainer.begun /\ drainer.scope # NoKey /\ drainer.scope = c
\* The ladder's last rungs: a tenant drains the fixed session it holds; to
\* observe, it may also be the caller whose request began the drain.
drainScope(c, observing) ==
  /\ fixed # NoKey
  /\ Holds(c) \/ (observing /\ beganDrainFor(c))

\* A caller arrives: HostLink attributes a tenant's request, the Service has
\* started, and it is marked draining whatever comes of the attempt.
StartDrain(c) ==
  /\ caller[c].at = "out" /\ caller[c].answer # "status"
  /\ service \in {"started", "stopped"}
  /\ c \in Tenants => drainScope(c, FALSE)
  /\ draining' = TRUE
  /\ CallStep(c, "called", "none")
  /\ Outside /\ UNCHANGED <<ledger, drainer, runVars, mishaps>>

\* mutant of Joins: an attempt forgets how the one before it failed
ForgetsFailure(c) ==
  /\ caller[c].at = "called"
  /\ \/ drainer.begun /\ CallStep(c, "out", "status") /\ UNCHANGED <<ledger, drainer>>
     \/ /\ ~drainer.begun /\ drainer.starting
        /\ CallStep(c, "waiting", "none") /\ UNCHANGED <<ledger, drainer>>
     \/ /\ ~drainer.begun /\ ~drainer.starting
        /\ ledger' = TRUE
        /\ drainer' = [drainer EXCEPT !.starting = TRUE, !.startErr = FALSE]
        /\ CallStep(c, "publishing", "none")
  /\ Outside /\ UNCHANGED <<draining, runVars, mishaps>>

\* Under the lock: a begun drain answers at once, a starting one is waited for,
\* and otherwise the ledger flips and this caller owns the publication.
Joins(c) ==
  /\ caller[c].at = "called"
  /\ \/ drainer.begun /\ CallStep(c, "out", "status") /\ UNCHANGED <<ledger, drainer>>
     \/ /\ ~drainer.begun /\ drainer.starting
        /\ CallStep(c, "waiting", "none") /\ UNCHANGED <<ledger, drainer>>
     \/ /\ ~drainer.begun /\ ~drainer.starting
        /\ ledger' = TRUE
        /\ drainer' = [drainer EXCEPT !.starting = TRUE]
        /\ CallStep(c, "publishing", "none")
  /\ Outside /\ UNCHANGED <<draining, runVars, mishaps>>

\* The publication lands: the drain is begun, under the caller's scope, over
\* the sessions resident at that moment.
begin(c) ==
  /\ drainer' = [drainer EXCEPT !.starting = FALSE, !.startErr = FALSE, !.begun = TRUE,
                                !.scope = IF c \in Tenants THEN c ELSE NoKey]
  /\ rel' = [s \in Sessions |-> IF s \in ResidentSessions THEN "attach" ELSE "none"]
  /\ attaches' = "waiting"
  /\ CallStep(c, "out", "status")

\* publish: nonaccepting within PublishBound, or a refusal that leaves the Host
\* stopped and the drain unbegun; the row may have landed all the same, and one
\* that lands past the bound is what the next beat writes.
publish(c) ==
  /\ caller[c].at = "publishing"
  /\ \/ row' = "withdrawn" /\ begin(c) /\ UNCHANGED mishaps
     \/ /\ Mishap
        /\ drainer' = [drainer EXCEPT !.starting = FALSE, !.startErr = TRUE]
        /\ row' \in {row, "withdrawn"}
        /\ CallStep(c, "out", "error") /\ UNCHANGED <<rel, attaches>>
  /\ UNCHANGED <<fixed, store, service, draining, ledger, beat, sess, grace, unreleased>>

\* The waiter wakes when the attempt it waited for settles and answers from
\* what it then finds, which a later attempt may be changing.
Wakes(c) ==
  /\ caller[c].at = "waiting"
  /\ drainer.begun \/ ~drainer.starting
  /\ CallStep(c, "awake", "none")
  /\ Outside /\ UNCHANGED <<draining, ledger, drainer, runVars, mishaps>>

Answers(c) ==
  /\ caller[c].at = "awake"
  /\ CallStep(c, "out", IF drainer.begun THEN "status"
                        ELSE IF drainer.startErr THEN "error" ELSE "empty")
  /\ Outside /\ UNCHANGED <<draining, ledger, drainer, runVars, mishaps>>

\* Stop waits for the drain it began or joined, then ends the heartbeat, whose
\* publication in flight it lets finish.
Stop(c) ==
  /\ c \in Processes /\ caller[c].answer = "status"
  /\ drainer.settled /\ service = "started"
  /\ service' = "stopped"
  /\ UNCHANGED <<fixed, store, draining, ledger, drainer, caller, row, beat, sess, runVars,
                 unreleased, mishaps>>

\* mutant of CloseStore: Stop does not wait for the heartbeat it cancelled
ClosesUnderBeat ==
  /\ service \in {"stopped", "disposed"} /\ store = "open"
  /\ store' = "closed"
  /\ UNCHANGED <<fixed, service, draining, ledger, drainer, caller, row, beat, sess, runVars,
                 unreleased, mishaps>>

\* The end of Stop, and the cleanup CloseUnstarted leaves behind: the heartbeat
\* is waited for and the store closed last.
CloseStore ==
  /\ service \in {"stopped", "disposed"} /\ beat = "none" /\ store = "open"
  /\ store' = "closed"
  /\ UNCHANGED <<fixed, service, draining, ledger, drainer, caller, row, beat, sess, runVars,
                 unreleased, mishaps>>

-------------------------------------------------------------------------------
(* The run: one release per session in the snapshot, beside settleAttaches.   *)

RunStep == UNCHANGED <<hostVars, caller>>
Fail(s, step) == drainer' = [drainer EXCEPT !.failures = @ \cup {<<s, step>>}]
To(s, at) == rel' = [rel EXCEPT ![s] = at]

\* The platform grace runs out.
Grace ==
  /\ drainer.begun /\ ~drainer.settled /\ ~grace
  /\ grace' = TRUE
  /\ RunStep /\ UNCHANGED <<drainer, sess, rel, attaches, unreleased, mishaps>>

\* AwaitSessionAttaches, bounded by the grace; a session its attach unwound is
\* released already, and one still in its attach is left to it.
AwaitSessionAttaches(s) ==
  /\ rel[s] = "attach"
  /\ \/ /\ ~Inflight(s)
        /\ To(s, IF sess[s].at = "ended" THEN "done" ELSE "halt")
        /\ UNCHANGED drainer
     \/ Inflight(s) /\ grace /\ Fail(s, "settleAttaches") /\ To(s, "done")
  /\ RunStep /\ UNCHANGED <<sess, attaches, grace, unreleased, mishaps>>

\* The two waits on the session, consumption halting and the idle boundary:
\* answered, cancelled when the boundary passes, and left when the grace does.
After(at) == CASE at \in {"halt", "haltCancelled"} -> "idle"
               [] at \in {"idle", "idleCancelled"} -> "runtime"
Cancelled(at) == IF at = "halt" THEN "haltCancelled" ELSE "idleCancelled"

\* mutant of bounded: a wait that ignores its cancellation is waited for
WaitsForAnswer(s) ==
  /\ rel[s] \in {"halt", "idle", "haltCancelled", "idleCancelled"}
  /\ \/ s \notin Deaf /\ To(s, After(rel[s]))
     \/ rel[s] \in {"halt", "idle"} /\ To(s, Cancelled(rel[s]))
  /\ RunStep /\ UNCHANGED <<drainer, sess, attaches, grace, unreleased, mishaps>>

bounded(s) ==
  /\ rel[s] \in {"halt", "idle", "haltCancelled", "idleCancelled"}
  /\ \/ s \notin Deaf /\ To(s, After(rel[s]))
     \/ rel[s] \in {"halt", "idle"} /\ To(s, Cancelled(rel[s]))
     \/ rel[s] \in {"haltCancelled", "idleCancelled"} /\ grace /\ To(s, After(rel[s]))
  /\ RunStep /\ UNCHANGED <<drainer, sess, attaches, grace, unreleased, mishaps>>

\* The runtime's release, bounded by the grace: done, refused and so given up,
\* or torn down with its lease still held, which withholds drained.
ReleaseResidency(s) ==
  /\ rel[s] = "runtime"
  /\ \/ s \notin Deaf /\ To(s, "finish") /\ UNCHANGED <<drainer, mishaps>>
     \/ grace /\ To(s, "abandon") /\ UNCHANGED <<drainer, mishaps>>
     \/ Mishap /\ To(s, "abandon") /\ UNCHANGED drainer
     \/ Mishap /\ Fail(s, "stillHeld") /\ To(s, "finish")
  /\ RunStep /\ UNCHANGED <<sess, attaches, grace, unreleased>>

\* abandon: answered, or left after two boundaries; either way the residency is
\* handed back next, and the session is booked abandoned or parked.
abandon(s) ==
  /\ rel[s] = "abandon"
  /\ To(s, "finish")
  /\ RunStep /\ UNCHANGED <<drainer, sess, attaches, grace, unreleased, mishaps>>

\* What the session still holds once its lease is released: the journal lease
\* of a runtime that was torn down with it, or what its other end left.
Keeps(s) == <<s, "stillHeld">> \in drainer.failures \/ (sess[s].at = "ended" /\ sess[s].held)

\* The tombstone and the lease; a warm release that already failed to give the
\* lease back shares its answer.
FinishRelease(s) ==
  /\ rel[s] = "finish"
  /\ \/ /\ sess[s].at \in {"leaked", "reported"} /\ Fail(s, "finishRelease")
        /\ UNCHANGED <<sess, mishaps>>
     \/ /\ sess[s].at \notin {"leaked", "reported"}
        /\ sess' = [sess EXCEPT ![s] = [at |-> "ended", held |-> Keeps(s)]]
        /\ UNCHANGED <<drainer, mishaps>>
     \/ /\ sess[s].at = "resident" /\ Mishap /\ Fail(s, "finishRelease")
        /\ sess' = [sess EXCEPT ![s].at = "ended"]
  /\ To(s, "done")
  /\ RunStep /\ UNCHANGED <<attaches, grace, unreleased>>

\* settleAttaches: wait, cancel what is left when patience runs out, and record
\* what is still in flight when the grace does.
settleAttaches ==
  /\ attaches \in {"waiting", "cancelled"}
  /\ \/ /\ \A s \in Sessions : ~Inflight(s)
        /\ attaches' = "done" /\ UNCHANGED drainer
     \/ /\ attaches = "waiting" /\ \E s \in Sessions : Inflight(s)
        /\ attaches' = "cancelled" /\ UNCHANGED drainer
     \/ /\ attaches = "cancelled" /\ grace /\ \E s \in Sessions : Inflight(s)
        /\ attaches' = "done" /\ Fail(NoKey, "settleAttaches")
  /\ RunStep /\ UNCHANGED <<sess, rel, grace, unreleased, mishaps>>

\* settledState: every recorded failure withholds drained, and so does an entry
\* of the ledger, which is read when everything the run waited for is over.
settledState(failures) == IF failures = {} THEN "drained" ELSE "draining"

run ==
  /\ drainer.begun /\ ~drainer.settled /\ attaches = "done"
  /\ \A s \in Sessions : rel[s] \in {"none", "done"}
  /\ LET failures == drainer.failures \cup {<<s, "unreleased">> : s \in unreleased}
     IN drainer' = [drainer EXCEPT !.failures = failures, !.settled = TRUE,
                                   !.state = settledState(failures)]
  /\ RunStep /\ UNCHANGED <<sess, runVars, unreleased, mishaps>>

-------------------------------------------------------------------------------
Release(s) ==
  AwaitSessionAttaches(s) \/ bounded(s) \/ ReleaseResidency(s) \/ abandon(s) \/ FinishRelease(s)

Calls(c) == Joins(c) \/ publish(c) \/ Wakes(c) \/ Answers(c)

Next ==
  \/ Compose \/ Composed \/ Start \/ Started \/ CloseUnstarted \/ Beat \/ CloseStore
  \/ \E s \in Sessions : Attach(s) \/ trackResident(s) \/ settleAttach(s)
                          \/ WarmEnds(s) \/ WarmRelease(s)
  \/ \E c \in Callers : StartDrain(c) \/ Calls(c) \/ Stop(c)
  \/ Grace \/ settleAttaches \/ run
  \/ \E s \in Sessions : Release(s)

Spec == Init /\ [][Next]_vars

\* The process schedules its goroutines and its timers fire: calls proceed, the
\* heartbeat beats, the drain's steps are taken and the grace runs out.  An
\* attach in flight need not ever return.
Fair ==
  /\ WF_vars(Beat) /\ WF_vars(Grace) /\ WF_vars(settleAttaches) /\ WF_vars(run)
  /\ \A c \in Callers : WF_vars(Calls(c))
  /\ \A s \in Sessions : WF_vars(Release(s))

FairSpec == Spec /\ Fair

-------------------------------------------------------------------------------
(* Properties.                                                                *)

\* Whatever attempts fail and are retried around it, a caller of StartDrain is
\* answered with the status of a drain that has begun or with an error, never
\* with an empty status it could take for an acknowledgement.
AnswersAreHonest ==
  \A c \in Callers : /\ caller[c].answer # "empty"
                     /\ caller[c].answer = "status" => drainer.begun /\ ledger

\* A drain that reports drained left no residency held: not by a session it
\* released, by an attach in flight when it began, by one that committed
\* beside it, nor by a warm release that failed before or during it.
DrainedMeansReleased ==
  drainer.state = "drained" => \A s \in Sessions : ~sess[s].held

\* A drain that began settles, though sessions ignore every cancellation and
\* attaches never return.
DrainSettles == drainer.begun ~> drainer.settled

\* Once a drain has begun the directory soon says for good that this Host does
\* not accept, though a heartbeat in flight may overwrite the drain's own
\* publication, until the process stops its heartbeat.
WithdrawnForGood == <>[](drainer.begun /\ service # "stopped" => row = "withdrawn")

\* The store is closed last, because everything before it may still write: by
\* then no heartbeat and no caller has a publication in flight, every release of
\* the drain is over, and a session that might still write is one the drain
\* recorded a failure for.
StoreClosesLast ==
  store = "closed" =>
    /\ beat = "none"
    /\ \A c \in Callers : caller[c].at # "publishing"
    /\ \A s \in Sessions : rel[s] \in {"none", "done"}
    /\ \A s \in Sessions : sess[s].at \notin {"absent", "ended"} => drainer.failures # {}
=============================================================================
