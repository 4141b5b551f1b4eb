------------------------------- MODULE Teardown -------------------------------
(* compose/teardown.go: the runtime teardown of ONE residency. The graceful   *)
(* release and the crash-equivalent abandon share one mutex; every action     *)
(* below that reads or writes the phase is one critical section of it. The    *)
(* runtime (department.Runtime) is external: it answers a call with success,  *)
(* with a refusal that tore nothing down, or with a failure after it tore     *)
(* down, and its Done channel may also close by itself.                       *)
EXTENDS Naturals

CONSTANTS
    Releasers,      \* callers of release: drain, warm release, rollback
    Abandoners,     \* callers of abandon: drain, lost grant, give-up
    Hooks,          \* callbacks handed to whenReleased
    MaxFlights      \* bound: the runtime calls made for one residency

ASSUME TeardownConstants ==
    /\ MaxFlights \in Nat
    /\ MaxFlights >= 2
    /\ Releasers \cap Abandoners = {}

VARIABLES
    phase,
    flight,         \* the flight last elected, 0 before the first
    made,           \* flights elected so far; flight f was the f-th
    kind, stage, err, handedTo, cancelled,      \* the flights, by number
    elector,        \* the caller whose context a graceful flight ends with
    pendingAbandon,
    torn,           \* the runtime's Done channel is closed
    pc, joined, answer,     \* the callers
    hook

runtimeVars == <<torn>>
flightVars  == <<flight, made, kind, stage, err, handedTo, cancelled, elector>>
callerVars  == <<pc, joined, answer>>
vars == <<phase, flightVars, pendingAbandon, runtimeVars, callerVars, hook>>

Flights == 1 .. MaxFlights
Callers == Releasers \cup Abandoners

Init ==
    /\ phase = "resident"
    /\ flight = 0 /\ made = 0
    /\ kind = [f \in Flights |-> "graceful"]
    /\ stage = [f \in Flights |-> "unborn"]
    /\ err = [f \in Flights |-> "none"]
    /\ handedTo = [f \in Flights |-> 0]
    /\ cancelled = [f \in Flights |-> FALSE]
    /\ elector = [f \in Flights |-> {}]
    /\ pendingAbandon = FALSE
    /\ torn = FALSE
    /\ pc = [c \in Callers |-> "idle"]
    /\ joined = [c \in Callers |-> 0]
    /\ answer = [c \in Callers |-> "none"]
    /\ hook = [h \in Hooks |-> "unregistered"]

-------------------------------------------------------------------------------
(* Elections and callers *)

\* electLocked; `done` is the stage function the election starts from, so that
\* a flight can complete and hand over in one critical section.
ElectFrom(k, done) ==
    /\ made' = made + 1
    /\ flight' = made + 1
    /\ kind' = [kind EXCEPT ![made + 1] = k]
    /\ stage' = [done EXCEPT ![made + 1] = "calling"]
    /\ phase' = IF k = "graceful" THEN "releasing" ELSE "abandoning"

Elect(k) == ElectFrom(k, stage)

\* mutant of Cancel: the flight is left to its runtime
CancelNothing(f) == UNCHANGED cancelled

\* flight.cancel()
Cancel(f) == cancelled' = [cancelled EXCEPT ![f] = TRUE]

Join(c, f, where) ==
    /\ pc' = [pc EXCEPT ![c] = where]
    /\ joined' = [joined EXCEPT ![c] = f]
    /\ UNCHANGED answer

Return(c, a) ==
    /\ pc' = [pc EXCEPT ![c] = "returned"]
    /\ answer' = [answer EXCEPT ![c] = a]
    /\ UNCHANGED joined

ElectsRelease == phase = "resident"

\* release up to its wait. The bound leaves the last flight to an abandon.
Release(c) ==
    /\ pc[c] = "idle"
    /\ \/ /\ phase = "released"
          /\ Return(c, "nil")
          /\ UNCHANGED <<phase, flightVars>>
       \/ /\ phase \notin {"released", "resident"}
          /\ Join(c, flight, "waiting")
          /\ UNCHANGED <<phase, flightVars>>
       \/ /\ ElectsRelease
          /\ made + 1 < MaxFlights
          /\ Elect("graceful")
          /\ elector' = [elector EXCEPT ![made + 1] = {c}]
          /\ Join(c, made + 1, "waiting")
          /\ UNCHANGED <<err, handedTo, cancelled>>
    /\ UNCHANGED <<pendingAbandon, runtimeVars, hook>>

\* One turn of abandon's loop up to its wait.
Abandon(c) ==
    /\ pc[c] \in {"idle", "redeciding"}
    /\ \/ /\ phase = "released"
          /\ Return(c, "nil")
          /\ UNCHANGED <<phase, flightVars, pendingAbandon>>
       \/ /\ phase \in {"abandoning", "failed"}
          /\ Join(c, flight, "waiting")
          /\ UNCHANGED <<phase, flightVars, pendingAbandon>>
       \/ /\ phase = "releasing"
          /\ pendingAbandon' = TRUE
          /\ Cancel(flight)
          /\ Join(c, flight, "awaiting")
          /\ UNCHANGED <<phase, flight, made, kind, stage, err, handedTo, elector>>
       \/ /\ phase = "resident"
          /\ Elect("abandon")
          /\ Join(c, made + 1, "waiting")
          /\ UNCHANGED <<err, handedTo, cancelled, elector, pendingAbandon>>
    /\ UNCHANGED <<runtimeVars, hook>>

\* mutant of AfterAwaited: the release's error is the abandon's answer
AnswersFromRelease(c, f) == Return(c, err[f])

\* Where an abandon goes once the release it awaited is done: round its loop.
AfterAwaited(c, f) ==
    /\ pc' = [pc EXCEPT ![c] = "redeciding"]
    /\ UNCHANGED <<joined, answer>>

\* waitFor saw the flight's done channel. A release whose flight was handed
\* over follows the abandon; an abandon that awaited a release decides again.
WaitEnds(c) ==
    LET f == joined[c] IN
    /\ pc[c] \in {"waiting", "awaiting"}
    /\ stage[f] = "done"
    /\ \/ /\ pc[c] = "awaiting"
          /\ AfterAwaited(c, f)
       \/ /\ pc[c] = "waiting"
          /\ err[f] = "err" /\ handedTo[f] # 0
          /\ Join(c, handedTo[f], "waiting")
       \/ /\ pc[c] = "waiting"
          /\ ~(err[f] = "err" /\ handedTo[f] # 0)
          /\ Return(c, err[f])
    /\ UNCHANGED <<phase, flightVars, pendingAbandon, runtimeVars, hook>>

\* The caller's context ended, and with it that of a release it elected.
GiveUp(c) ==
    /\ pc[c] \in {"waiting", "awaiting"}
    /\ Return(c, "timeout")
    /\ cancelled' = [f \in Flights |-> cancelled[f] \/ c \in elector[f]]
    /\ UNCHANGED <<phase, flight, made, kind, stage, err, handedTo, elector,
                   pendingAbandon, runtimeVars, hook>>

-------------------------------------------------------------------------------
(* The flight goroutine *)

\* teardownFlightBound, a safety net on every flight's context.
FlightBound(f) ==
    /\ stage[f] = "calling"
    /\ Cancel(f)
    /\ UNCHANGED <<phase, flight, made, kind, stage, err, handedTo, elector,
                   pendingAbandon, runtimeVars, callerVars, hook>>

\* call(ctx) returns: r is the error, t whether the runtime tore down.
RuntimeReturns(f, r, t) ==
    /\ stage[f] = "calling"
    /\ r = "nil" => t
    /\ stage' = [stage EXCEPT ![f] = "returned"]
    /\ err' = [err EXCEPT ![f] = r]
    /\ torn' = (torn \/ t)
    /\ UNCHANGED <<phase, flight, made, kind, handedTo, cancelled, elector,
                   pendingAbandon, callerVars, hook>>

\* The runtime stops by itself.
RuntimeEnds ==
    /\ ~torn
    /\ torn' = TRUE
    /\ UNCHANGED <<phase, flightVars, pendingAbandon, callerVars, hook>>

\* mutant of HandsOver: an abandon nobody waits for is forgotten
HandsOverNothing == FALSE

\* A graceful flight that failed with the runtime's Done still open tore
\* nothing down. What follows it is the abandon asked for meanwhile, if any.
Undone(f) == err[f] = "err" /\ kind[f] = "graceful" /\ ~torn
HandsOver == pendingAbandon

\* run's critical section after the call returned.
Complete(f) ==
    LET done == [stage EXCEPT ![f] = "done"] IN
    /\ stage[f] = "returned"
    /\ pendingAbandon' = FALSE
    /\ \/ /\ err[f] = "nil"
          /\ phase' = "released"
          /\ hook' = [h \in Hooks |->
                        IF hook[h] = "registered" THEN "due" ELSE hook[h]]
          /\ stage' = done
          /\ UNCHANGED <<flight, made, kind, handedTo>>
       \/ /\ Undone(f) /\ HandsOver
          /\ ElectFrom("abandon", done)
          /\ handedTo' = [handedTo EXCEPT ![f] = made + 1]
          /\ UNCHANGED hook
       \/ /\ Undone(f) /\ ~HandsOver
          /\ phase' = "resident"
          /\ stage' = done
          /\ UNCHANGED <<flight, made, kind, handedTo, hook>>
       \/ /\ err[f] = "err" /\ ~Undone(f)
          /\ phase' = "failed"
          /\ stage' = done
          /\ UNCHANGED <<flight, made, kind, handedTo, hook>>
    /\ UNCHANGED <<err, cancelled, elector, runtimeVars, callerVars>>

-------------------------------------------------------------------------------
(* The callbacks *)

\* mutant of Registered: a callback that comes late is not run
RegisteredLate == "registered"

Registered == IF phase = "released" THEN "due" ELSE "registered"

WhenReleased(h) ==
    /\ hook[h] = "unregistered"
    /\ hook' = [hook EXCEPT ![h] = Registered]
    /\ UNCHANGED <<phase, flightVars, pendingAbandon, runtimeVars, callerVars>>

\* A callback runs after the lock was given up.
RunHook(h) ==
    /\ hook[h] = "due"
    /\ hook' = [hook EXCEPT ![h] = "ran"]
    /\ UNCHANGED <<phase, flightVars, pendingAbandon, runtimeVars, callerVars>>

Next ==
    \/ \E c \in Releasers : Release(c)
    \/ \E c \in Abandoners : Abandon(c)
    \/ \E c \in Callers : WaitEnds(c) \/ GiveUp(c)
    \/ \E f \in Flights : FlightBound(f) \/ Complete(f)
    \/ \E f \in Flights, r \in {"nil", "err"}, t \in BOOLEAN :
            RuntimeReturns(f, r, t)
    \/ RuntimeEnds
    \/ \E h \in Hooks : WhenReleased(h) \/ RunHook(h)

Spec == Init /\ [][Next]_vars

\* A runtime answers an abandon, and a release whose context was cancelled;
\* nothing makes it answer a release it is too busy to grant. Goroutines that
\* can run do run. Contexts need not end and callers need not call.
Fairness ==
    /\ \A f \in Flights :
        /\ WF_vars(/\ cancelled[f] \/ kind[f] = "abandon"
                   /\ \E r \in {"nil", "err"}, t \in BOOLEAN :
                            RuntimeReturns(f, r, t))
        /\ WF_vars(Complete(f))
    /\ \A h \in Hooks : WF_vars(RunHook(h))

FairSpec == Spec /\ Fairness

-------------------------------------------------------------------------------
(* Properties *)

FlightTypes ==
    /\ flight \in 0 .. MaxFlights
    /\ made \in 0 .. MaxFlights
    /\ kind \in [Flights -> {"graceful", "abandon"}]
    /\ stage \in [Flights -> {"unborn", "calling", "returned", "done"}]
    /\ err \in [Flights -> {"none", "nil", "err"}]
    /\ handedTo \in [Flights -> 0 .. MaxFlights]
    /\ cancelled \in [Flights -> BOOLEAN]
    /\ elector \in [Flights -> SUBSET Callers]

CallerTypes ==
    /\ pc \in [Callers ->
                 {"idle", "waiting", "awaiting", "redeciding", "returned"}]
    /\ joined \in [Callers -> 0 .. MaxFlights]
    /\ answer \in [Callers -> {"none", "nil", "err", "timeout"}]

\* The values each variable takes.
TypeOK ==
    /\ phase \in {"resident", "releasing", "abandoning", "released", "failed"}
    /\ pendingAbandon \in BOOLEAN
    /\ torn \in BOOLEAN
    /\ hook \in [Hooks -> {"unregistered", "registered", "due", "ran"}]
    /\ FlightTypes
    /\ CallerTypes

InFlight(f) == stage[f] \in {"calling", "returned"}

\* However releases and abandons interleave, the runtime has at most one
\* teardown call in flight, and none once it has released (teardown.go: "a
\* successful release issued twice" is the defect the one mutex replaced).
OneRuntimeCall ==
    /\ \A f, g \in Flights : InFlight(f) /\ InFlight(g) => f = g
    /\ phase = "released" => \A f \in Flights : ~InFlight(f)

\* What a caller is told is the teardown's outcome: nil only for a runtime that
\* has released, and an abandon that is told of an error, whichever flights it
\* waited through, is told so of a teardown that has failed for good.
AnswersAreOutcomes ==
    /\ \A c \in Callers : answer[c] = "nil" => phase = "released"
    /\ \A c \in Abandoners : answer[c] = "err" => phase = "failed"

AbandonAsked == \E c \in Abandoners : pc[c] # "idle"

\* Abandoning dominates and is remembered: from the moment any abandon has been
\* asked for, whether or not its caller still waits, no graceful flight starts.
AbandonDominates ==
    [][AbandonAsked =>
         \A f \in Flights :
            stage[f] = "unborn" /\ stage'[f] # "unborn" => kind'[f] = "abandon"
      ]_vars

\* An abandon settles the residency: the flight it found is cancelled, so the
\* runtime ends released or failed even if every waiter has given up and the
\* runtime would never have become idle.
AbandonSettles == AbandonAsked ~> phase \in {"released", "failed"}

\* A late success still runs what was registered for it: every callback is run
\* once the runtime released, registered before or after, and never otherwise.
HooksRunOnRelease ==
    /\ [](\A h \in Hooks : hook[h] \in {"due", "ran"} => phase = "released")
    /\ \A h \in Hooks :
          (hook[h] = "registered" /\ phase = "released") \/ hook[h] = "due"
             ~> hook[h] = "ran"

\* Teardown implements TeardownPromise.
Promise == INSTANCE TeardownPromise WITH
    outcome <- IF phase \in {"released", "failed"} THEN phase ELSE "live",
    call    <- CASE phase = "releasing" -> "graceful"
                 [] phase = "abandoning" -> "abandon"
                 [] OTHER -> "none",
    wanted  <- pendingAbandon \/ phase = "abandoning"

\* Every behaviour of the state machine is one the promise allows.
KeepsPromise == Promise!Spec
===============================================================================
