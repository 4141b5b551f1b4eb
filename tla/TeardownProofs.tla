---------------------------- MODULE TeardownProofs ----------------------------
(* Theorems about Teardown.tla, for any number of callers, callbacks and       *)
(* flights.                                                                    *)
EXTENDS Teardown, TLAPS

\* The flights: numbered in the order of their election, the last elected is
\* the only one that can be in progress, and the phase says which kind it is.
FlightsInv ==
    /\ flight <= made
    /\ phase # "resident" => flight # 0
    /\ \A f \in Flights : stage[f] = "unborn" <=> f > made
    /\ \A f \in Flights :
          InFlight(f) => f = flight /\ phase \in {"releasing", "abandoning"}
    /\ phase = "releasing" => InFlight(flight) /\ kind[flight] = "graceful"
    /\ phase = "abandoning" => InFlight(flight) /\ kind[flight] = "abandon"
    /\ phase \in {"resident", "releasing"} => made < MaxFlights

\* What a completed flight said is what the phase says.
OutcomesInv ==
    /\ \A f \in Flights : stage[f] = "returned" => err[f] # "none"
    /\ \A f \in Flights :
          stage[f] = "done" =>
            /\ err[f] # "none"
            /\ err[f] = "nil" => phase = "released"
            /\ err[f] = "err" /\ kind[f] = "abandon" => phase = "failed"
    /\ phase = "failed" => stage[flight] = "done" /\ err[flight] = "err"
    /\ \A f \in Flights :
          handedTo[f] # 0 => handedTo[f] <= made /\ kind[handedTo[f]] = "abandon"

\* The callers: what they wait on exists, and an abandon that waits for an
\* answer waits on an abandon or on the failure it found.
CallersInv ==
    /\ \A c \in Callers :
          pc[c] \in {"waiting", "awaiting"} => joined[c] \in 1 .. made
    /\ \A c \in Abandoners :
          pc[c] = "waiting" =>
            \/ kind[joined[c]] = "abandon"
            \/ phase = "failed" /\ joined[c] = flight

\* An abandon that was asked for is in progress, is over, or is remembered.
AbandonInv ==
    /\ pendingAbandon => phase = "releasing"
    /\ AbandonAsked =>
          phase \in {"abandoning", "released", "failed"} \/ pendingAbandon

IndInv ==
    /\ TypeOK
    /\ FlightsInv
    /\ OutcomesInv
    /\ CallersInv
    /\ AbandonInv
    /\ AnswersAreOutcomes

-------------------------------------------------------------------------------

\* The state a residency starts from satisfies the invariant.
LEMMA InitEstablishes == Init => IndInv
<1> SUFFICES ASSUME Init PROVE IndInv
  OBVIOUS
<1> USE TeardownConstants DEF Init, Flights
<1>1. FlightTypes
  BY DEF FlightTypes
<1>2. CallerTypes
  BY DEF CallerTypes
<1>3. TypeOK
  BY <1>1, <1>2 DEF TypeOK
<1>4. FlightsInv /\ OutcomesInv
  BY DEF FlightsInv, OutcomesInv, InFlight
<1>5. CallersInv /\ AbandonInv /\ AnswersAreOutcomes
  BY DEF CallersInv, AbandonInv, AnswersAreOutcomes, AbandonAsked, Callers
<1>. QED  BY <1>3, <1>4, <1>5 DEF IndInv

-------------------------------------------------------------------------------
(* What the shared parts of the actions do to the types. *)

\* An election within the bound keeps the flights' types.
LEMMA ElectTypes ==
  ASSUME FlightTypes, made < MaxFlights,
         NEW k \in {"graceful", "abandon"},
         NEW done \in [Flights -> {"unborn", "calling", "returned", "done"}],
         ElectFrom(k, done)
  PROVE  /\ made' \in 0 .. MaxFlights /\ flight' \in 0 .. MaxFlights
         /\ made + 1 \in Flights
         /\ kind' \in [Flights -> {"graceful", "abandon"}]
         /\ stage' \in [Flights -> {"unborn", "calling", "returned", "done"}]
         /\ phase' = IF k = "graceful" THEN "releasing" ELSE "abandoning"
<1>1. made + 1 \in Flights
  BY TeardownConstants DEF FlightTypes, Flights
<1>2. made' \in 0 .. MaxFlights /\ flight' \in 0 .. MaxFlights
  BY <1>1, TeardownConstants DEF FlightTypes, Flights, ElectFrom
<1>. QED  BY <1>1, <1>2 DEF FlightTypes, ElectFrom

\* A caller that starts to wait keeps the callers' types.
LEMMA JoinTypes ==
  ASSUME CallerTypes, NEW c \in Callers, NEW f \in 0 .. MaxFlights,
         NEW w \in {"waiting", "awaiting"}, Join(c, f, w)
  PROVE  CallerTypes'
BY DEF CallerTypes, Join

\* A caller that returns keeps the callers' types.
LEMMA ReturnTypes ==
  ASSUME CallerTypes, NEW c \in Callers,
         NEW a \in {"nil", "err", "timeout"}, Return(c, a)
  PROVE  CallerTypes'
BY DEF CallerTypes, Return

\* A step that leaves phase and flights alone keeps what is said of them.
LEMMA FlightsUntouched ==
  ASSUME IndInv, UNCHANGED <<phase, flightVars>>
  PROVE  FlightTypes' /\ FlightsInv' /\ OutcomesInv'
BY DEF IndInv, TypeOK, FlightTypes, FlightsInv, OutcomesInv, InFlight, flightVars

-------------------------------------------------------------------------------
(* One lemma per action. *)

\* Release keeps the invariant.
LEMMA ReleaseKeeps ==
  ASSUME IndInv, NEW c \in Releasers, Release(c)
  PROVE  IndInv'
<1> USE TeardownConstants DEF IndInv
<1>0. c \in Callers /\ c \notin Abandoners /\ Abandoners \subseteq Callers
  BY DEF Callers
<1>1. CASE phase = "resident"
  <2>1. /\ made + 1 < MaxFlights
        /\ ElectFrom("graceful", stage)
        /\ elector' = [elector EXCEPT ![made + 1] = {c}]
        /\ Join(c, made + 1, "waiting")
        /\ UNCHANGED <<err, handedTo, cancelled, pendingAbandon, torn, hook>>
    BY <1>1 DEF Release, ElectsRelease, Elect, runtimeVars
  <2> HIDE DEF IndInv
  <2>2. FlightTypes /\ CallerTypes /\ TypeOK /\ made < MaxFlights /\ made \in Nat
    BY <2>1 DEF IndInv, TypeOK, FlightTypes
  <2>3. /\ made' \in 0 .. MaxFlights /\ flight' \in 0 .. MaxFlights
        /\ made + 1 \in Flights
        /\ kind' \in [Flights -> {"graceful", "abandon"}]
        /\ stage' \in [Flights -> {"unborn", "calling", "returned", "done"}]
        /\ phase' = "releasing"
    BY <2>1, <2>2, ElectTypes DEF FlightTypes
  <2>4. elector' \in [Flights -> SUBSET Callers]
    BY <1>0, <2>1, <2>2, <2>3 DEF FlightTypes
  <2>5. FlightTypes'
    BY <2>1, <2>2, <2>3, <2>4 DEF FlightTypes
  <2>6. CallerTypes'
    BY <1>0, <2>1, <2>2, <2>3, JoinTypes DEF Flights
  <2>7. TypeOK'
    BY <2>1, <2>2, <2>3, <2>5, <2>6 DEF TypeOK
  <2>8. FlightsInv'
    BY <1>1, <2>1, <2>2, <2>3
    DEF IndInv, FlightsInv, FlightTypes, ElectFrom, InFlight, Flights
  <2>9. OutcomesInv'
    BY <1>1, <2>1, <2>2, <2>3
    DEF IndInv, OutcomesInv, FlightsInv, FlightTypes, ElectFrom, Flights, InFlight
  <2>10. CallersInv'
    BY <1>0, <1>1, <2>1, <2>2, <2>3
    DEF IndInv, CallersInv, FlightTypes, CallerTypes, ElectFrom, Join, Flights
  <2>11. AbandonInv'
    BY <1>0, <1>1, <2>1, <2>2, <2>3
    DEF IndInv, AbandonInv, AbandonAsked, CallerTypes, Join
  <2>12. AnswersAreOutcomes'
    BY <1>1, <2>1 DEF IndInv, AnswersAreOutcomes, Join
  <2>. QED  BY <2>7, <2>8, <2>9, <2>10, <2>11, <2>12 DEF IndInv
<1>2. CASE phase # "resident"
  <2>1. /\ UNCHANGED <<phase, flightVars, pendingAbandon, torn, hook>>
        /\ \/ phase = "released" /\ Return(c, "nil")
           \/ phase # "released" /\ Join(c, flight, "waiting")
    BY <1>2 DEF Release, ElectsRelease, runtimeVars
  <2>2. CallerTypes'
    BY <1>0, <2>1, JoinTypes, ReturnTypes DEF TypeOK, FlightTypes
  <2>3. FlightTypes' /\ FlightsInv' /\ OutcomesInv'
    BY <2>1, FlightsUntouched
  <2>4. TypeOK'
    BY <2>1, <2>2, <2>3 DEF TypeOK
  <2>5. CallersInv'
    BY <1>0, <1>2, <2>1
    DEF CallersInv, FlightsInv, TypeOK, FlightTypes, CallerTypes, Join, Return,
        flightVars
  <2>6. AbandonInv' /\ AnswersAreOutcomes'
    BY <1>0, <2>1
    DEF AbandonInv, AbandonAsked, AnswersAreOutcomes, TypeOK, CallerTypes,
        Join, Return
  <2>. QED  BY <2>3, <2>4, <2>5, <2>6
<1>. QED  BY <1>1, <1>2

\* One turn of abandon keeps the invariant.
LEMMA AbandonKeeps ==
  ASSUME IndInv, NEW c \in Abandoners, Abandon(c)
  PROVE  IndInv'
<1> USE TeardownConstants DEF IndInv
<1>0. c \in Callers /\ Abandoners \subseteq Callers
  BY DEF Callers
<1>1. CASE phase = "resident"
  <2>1. /\ ElectFrom("abandon", stage)
        /\ Join(c, made + 1, "waiting")
        /\ UNCHANGED <<err, handedTo, cancelled, elector, pendingAbandon, torn,
                       hook>>
    BY <1>1 DEF Abandon, Elect, runtimeVars
  <2> HIDE DEF IndInv
  <2>2. FlightTypes /\ CallerTypes /\ TypeOK /\ made < MaxFlights /\ made \in Nat
    BY <1>1 DEF IndInv, TypeOK, FlightTypes, FlightsInv
  <2>3. /\ made' \in 0 .. MaxFlights /\ flight' \in 0 .. MaxFlights
        /\ made + 1 \in Flights
        /\ kind' \in [Flights -> {"graceful", "abandon"}]
        /\ stage' \in [Flights -> {"unborn", "calling", "returned", "done"}]
        /\ phase' = "abandoning"
    BY <2>1, <2>2, ElectTypes DEF FlightTypes
  <2>4. FlightTypes'
    BY <2>1, <2>2, <2>3 DEF FlightTypes
  <2>5. CallerTypes'
    BY <1>0, <2>1, <2>2, <2>3, JoinTypes DEF Flights
  <2>6. TypeOK'
    BY <2>1, <2>2, <2>3, <2>4, <2>5 DEF TypeOK
  <2>7. FlightsInv'
    BY <1>1, <2>1, <2>2, <2>3
    DEF IndInv, FlightsInv, FlightTypes, ElectFrom, InFlight, Flights
  <2>8. OutcomesInv'
    BY <1>1, <2>1, <2>2, <2>3
    DEF IndInv, OutcomesInv, FlightsInv, FlightTypes, ElectFrom, Flights, InFlight
  <2>9. CallersInv'
    BY <1>0, <1>1, <2>1, <2>2, <2>3
    DEF IndInv, CallersInv, FlightTypes, CallerTypes, ElectFrom, Join, Flights
  <2>10. AbandonInv'
    BY <1>1, <2>1, <2>3 DEF IndInv, AbandonInv
  <2>11. AnswersAreOutcomes'
    BY <1>0, <1>1, <2>1 DEF IndInv, AnswersAreOutcomes, Join
  <2>. QED  BY <2>6, <2>7, <2>8, <2>9, <2>10, <2>11 DEF IndInv
<1>2. CASE phase = "releasing"
  <2>1. /\ pendingAbandon' = TRUE
        /\ cancelled' = [cancelled EXCEPT ![flight] = TRUE]
        /\ Join(c, flight, "awaiting")
        /\ UNCHANGED <<phase, flight, made, kind, stage, err, handedTo, elector,
                       torn, hook>>
    BY <1>2 DEF Abandon, Cancel, runtimeVars
  <2>2. FlightTypes'
    BY <2>1 DEF TypeOK, FlightTypes
  <2>3. CallerTypes'
    BY <1>0, <2>1, JoinTypes DEF TypeOK, FlightTypes
  <2>4. TypeOK'
    BY <2>1, <2>2, <2>3 DEF TypeOK
  <2>5. FlightsInv' /\ OutcomesInv'
    BY <2>1 DEF FlightsInv, OutcomesInv, InFlight
  <2>6. CallersInv'
    BY <1>0, <1>2, <2>1
    DEF CallersInv, FlightsInv, TypeOK, FlightTypes, CallerTypes, Join
  <2>7. AbandonInv' /\ AnswersAreOutcomes'
    BY <1>2, <2>1 DEF AbandonInv, AnswersAreOutcomes, Join
  <2>. QED  BY <2>4, <2>5, <2>6, <2>7
<1>3. CASE phase \notin {"resident", "releasing"}
  <2>1. /\ UNCHANGED <<phase, flightVars, pendingAbandon, torn, hook>>
        /\ \/ phase = "released" /\ Return(c, "nil")
           \/ phase \in {"abandoning", "failed"} /\ Join(c, flight, "waiting")
    BY <1>3 DEF Abandon, runtimeVars
  <2>2. CallerTypes'
    BY <1>0, <2>1, JoinTypes, ReturnTypes DEF TypeOK, FlightTypes
  <2>3. FlightTypes' /\ FlightsInv' /\ OutcomesInv'
    BY <2>1, FlightsUntouched
  <2>4. TypeOK'
    BY <2>1, <2>2, <2>3 DEF TypeOK
  <2>5. CallersInv'
    BY <1>0, <1>3, <2>1
    DEF CallersInv, FlightsInv, TypeOK, FlightTypes, CallerTypes, Join, Return,
        flightVars
  <2>6. AbandonInv' /\ AnswersAreOutcomes'
    BY <1>0, <1>3, <2>1
    DEF AbandonInv, AnswersAreOutcomes, TypeOK, CallerTypes, Join, Return
  <2>. QED  BY <2>3, <2>4, <2>5, <2>6
<1>. QED  BY <1>1, <1>2, <1>3

\* The end of a wait keeps the invariant.
LEMMA WaitEndsKeeps ==
  ASSUME IndInv, NEW c \in Callers, WaitEnds(c)
  PROVE  IndInv'
<1> USE TeardownConstants DEF IndInv
<1>1. /\ UNCHANGED <<phase, flightVars, pendingAbandon, torn, hook>>
      /\ pc[c] \in {"waiting", "awaiting"}
      /\ stage[joined[c]] = "done"
  BY DEF WaitEnds, runtimeVars
<1>2. FlightTypes' /\ FlightsInv' /\ OutcomesInv'
  BY <1>1, FlightsUntouched
<1>3. joined[c] \in Flights /\ joined[c] <= made /\ Abandoners \subseteq Callers
  BY <1>1 DEF CallersInv, TypeOK, FlightTypes, CallerTypes, Flights, Callers
<1>4. CASE pc[c] = "awaiting"
  <2>1. pc' = [pc EXCEPT ![c] = "redeciding"] /\ UNCHANGED <<joined, answer>>
    BY <1>4 DEF WaitEnds, AfterAwaited
  <2>2. CallerTypes'
    BY <2>1 DEF TypeOK, CallerTypes
  <2>3. TypeOK'
    BY <1>1, <1>2, <2>2 DEF TypeOK
  <2>4. CallersInv'
    BY <1>1, <1>3, <2>1 DEF CallersInv, TypeOK, CallerTypes, flightVars
  <2>5. AbandonInv' /\ AnswersAreOutcomes'
    BY <1>1, <1>3, <1>4, <2>1
    DEF AbandonInv, AbandonAsked, AnswersAreOutcomes, TypeOK, CallerTypes
  <2>. QED  BY <1>2, <2>3, <2>4, <2>5
<1>5. CASE /\ pc[c] = "waiting"
           /\ err[joined[c]] = "err" /\ handedTo[joined[c]] # 0
  <2>1. Join(c, handedTo[joined[c]], "waiting")
    BY <1>5 DEF WaitEnds
  <2>2. /\ handedTo[joined[c]] \in 1 .. made
        /\ handedTo[joined[c]] \in 0 .. MaxFlights
        /\ kind[handedTo[joined[c]]] = "abandon"
    BY <1>3, <1>5 DEF OutcomesInv, TypeOK, FlightTypes
  <2>3. CallerTypes'
    BY <2>1, <2>2, JoinTypes DEF TypeOK
  <2>4. TypeOK'
    BY <1>1, <1>2, <2>3 DEF TypeOK
  <2>5. CallersInv'
    BY <1>1, <1>3, <2>1, <2>2 DEF CallersInv, TypeOK, CallerTypes, Join, flightVars
  <2>6. AbandonInv' /\ AnswersAreOutcomes'
    BY <1>1, <1>3, <1>5, <2>1
    DEF AbandonInv, AbandonAsked, AnswersAreOutcomes, TypeOK, CallerTypes, Join
  <2>. QED  BY <1>2, <2>4, <2>5, <2>6
<1>6. CASE /\ pc[c] = "waiting"
           /\ ~(err[joined[c]] = "err" /\ handedTo[joined[c]] # 0)
  <2>1. Return(c, err[joined[c]])
    BY <1>6 DEF WaitEnds
  <2>2. /\ err[joined[c]] \in {"nil", "err"}
        /\ err[joined[c]] = "nil" => phase = "released"
        /\ err[joined[c]] = "err" /\ c \in Abandoners => phase = "failed"
    BY <1>1, <1>3, <1>6 DEF OutcomesInv, CallersInv, TypeOK, FlightTypes
  <2>3. CallerTypes'
    BY <2>1, <2>2, ReturnTypes DEF TypeOK
  <2>4. TypeOK'
    BY <1>1, <1>2, <2>3 DEF TypeOK
  <2>5. CallersInv'
    BY <1>1, <1>3, <2>1 DEF CallersInv, TypeOK, CallerTypes, Return, flightVars
  <2>6. AbandonInv' /\ AnswersAreOutcomes'
    BY <1>1, <1>3, <1>6, <2>1, <2>2
    DEF AbandonInv, AbandonAsked, AnswersAreOutcomes, TypeOK, CallerTypes, Return
  <2>. QED  BY <1>2, <2>4, <2>5, <2>6
<1>. QED  BY <1>1, <1>4, <1>5, <1>6

\* A caller that gives up keeps the invariant.
LEMMA GiveUpKeeps ==
  ASSUME IndInv, NEW c \in Callers, GiveUp(c)
  PROVE  IndInv'
<1> USE DEF IndInv
<1>1. /\ pc[c] \in {"waiting", "awaiting"}
      /\ Return(c, "timeout")
      /\ cancelled' \in [Flights -> BOOLEAN]
      /\ UNCHANGED <<phase, flight, made, kind, stage, err, handedTo, elector,
                     pendingAbandon, torn, hook>>
  BY DEF GiveUp, runtimeVars, TypeOK, FlightTypes
<1>2. CallerTypes'
  BY <1>1, ReturnTypes DEF TypeOK
<1>3. FlightTypes'
  BY <1>1 DEF TypeOK, FlightTypes
<1>4. TypeOK'
  BY <1>1, <1>2, <1>3 DEF TypeOK
<1>5. FlightsInv' /\ OutcomesInv'
  BY <1>1 DEF FlightsInv, OutcomesInv, InFlight
<1>6. CallersInv'
  BY <1>1 DEF CallersInv, TypeOK, CallerTypes, Return, Callers
<1>7. AbandonInv' /\ AnswersAreOutcomes'
  BY <1>1
  DEF AbandonInv, AbandonAsked, AnswersAreOutcomes, TypeOK, CallerTypes, Return,
      Callers
<1>. QED  BY <1>4, <1>5, <1>6, <1>7

\* The bound on a flight, and a runtime that stops by itself, keep the invariant.
LEMMA EnvironmentKeeps ==
  ASSUME IndInv,
         (\E f \in Flights : FlightBound(f)) \/ RuntimeEnds
  PROVE  IndInv'
<1> USE DEF IndInv
<1>1. /\ cancelled' \in [Flights -> BOOLEAN]
      /\ torn' \in BOOLEAN
      /\ UNCHANGED <<phase, flight, made, kind, stage, err, handedTo, elector,
                     pendingAbandon, callerVars, hook>>
  BY DEF FlightBound, RuntimeEnds, Cancel, TypeOK, FlightTypes, runtimeVars,
         flightVars
<1>2. FlightTypes' /\ CallerTypes'
  BY <1>1 DEF TypeOK, FlightTypes, CallerTypes, callerVars
<1>3. TypeOK'
  BY <1>1, <1>2 DEF TypeOK
<1>4. FlightsInv' /\ OutcomesInv'
  BY <1>1 DEF FlightsInv, OutcomesInv, InFlight
<1>5. CallersInv' /\ AbandonInv' /\ AnswersAreOutcomes'
  BY <1>1
  DEF CallersInv, AbandonInv, AbandonAsked, AnswersAreOutcomes, callerVars
<1>. QED  BY <1>3, <1>4, <1>5

\* The return of the runtime's call keeps the invariant.
LEMMA RuntimeReturnsKeeps ==
  ASSUME IndInv, NEW f \in Flights, NEW r \in {"nil", "err"},
         NEW t \in BOOLEAN, RuntimeReturns(f, r, t)
  PROVE  IndInv'
<1> USE DEF IndInv
<1>1. /\ stage[f] = "calling"
      /\ stage' = [stage EXCEPT ![f] = "returned"]
      /\ err' = [err EXCEPT ![f] = r]
      /\ torn' \in BOOLEAN
      /\ UNCHANGED <<phase, flight, made, kind, handedTo, cancelled, elector,
                     pendingAbandon, callerVars, hook>>
  BY DEF RuntimeReturns
<1>2. FlightTypes'
  BY <1>1 DEF TypeOK, FlightTypes
<1>3. CallerTypes'
  BY <1>1 DEF TypeOK, CallerTypes, callerVars
<1>4. TypeOK'
  BY <1>1, <1>2, <1>3 DEF TypeOK
<1>5. FlightsInv'
  BY <1>1 DEF FlightsInv, TypeOK, FlightTypes, InFlight, Flights
<1>6. OutcomesInv'
  BY <1>1 DEF OutcomesInv, FlightsInv, InFlight, TypeOK, FlightTypes, Flights
<1>7. CallersInv' /\ AbandonInv' /\ AnswersAreOutcomes'
  BY <1>1
  DEF CallersInv, AbandonInv, AbandonAsked, AnswersAreOutcomes, callerVars
<1>. QED  BY <1>4, <1>5, <1>6, <1>7

\* The completion of a flight keeps the invariant.
LEMMA CompleteKeeps ==
  ASSUME IndInv, NEW f \in Flights, Complete(f)
  PROVE  IndInv'
<1> USE TeardownConstants DEF IndInv
<1> DEFINE done == [stage EXCEPT ![f] = "done"]
<1>1. /\ stage[f] = "returned" /\ err[f] \in {"nil", "err"} /\ f = flight
      /\ phase \in {"releasing", "abandoning"}
      /\ kind[f] = (IF phase = "releasing" THEN "graceful" ELSE "abandon")
      /\ done \in [Flights -> {"unborn", "calling", "returned", "done"}]
  BY DEF Complete, OutcomesInv, FlightsInv, InFlight, TypeOK, FlightTypes
<1>2. /\ pendingAbandon' = FALSE
      /\ UNCHANGED <<err, cancelled, elector, torn, callerVars>>
  BY DEF Complete, runtimeVars
<1>3. CallerTypes'
  BY <1>2 DEF TypeOK, CallerTypes, callerVars
<1>4. CASE Undone(f) /\ HandsOver
  <2>1. /\ ElectFrom("abandon", done)
        /\ handedTo' = [handedTo EXCEPT ![f] = made + 1]
        /\ hook' = hook
    BY <1>4 DEF Complete, Undone
  <2>2. /\ phase = "releasing" /\ made < MaxFlights /\ made \in Nat
        /\ kind[f] = "graceful" /\ err[f] = "err"
    BY <1>1, <1>4 DEF Undone, FlightsInv, TypeOK, FlightTypes
  <2> HIDE DEF done
  <2>3. /\ made' \in 0 .. MaxFlights /\ flight' \in 0 .. MaxFlights
        /\ made + 1 \in Flights
        /\ kind' \in [Flights -> {"graceful", "abandon"}]
        /\ stage' \in [Flights -> {"unborn", "calling", "returned", "done"}]
        /\ phase' = "abandoning"
    BY <1>1, <2>1, <2>2, ElectTypes DEF TypeOK
  <2>4. FlightTypes'
    BY <1>2, <2>1, <2>3 DEF TypeOK, FlightTypes, Flights
  <2>5. TypeOK'
    BY <1>2, <1>3, <2>1, <2>3, <2>4 DEF TypeOK
  <2>6. /\ made' = made + 1 /\ flight' = made + 1
        /\ kind' = [kind EXCEPT ![made + 1] = "abandon"]
        /\ stage' = [done EXCEPT ![made + 1] = "calling"]
    BY <2>1 DEF ElectFrom
  <2>7. FlightsInv'
    <3>1. \A g \in Flights :
            stage'[g] = IF g = made + 1 THEN "calling" ELSE
                        IF g = f THEN "done" ELSE stage[g]
      BY <1>1, <2>3, <2>6 DEF TypeOK, FlightTypes, done
    <3>2. \A g \in Flights : g # f => ~InFlight(g)
      BY <1>1 DEF FlightsInv
    <3>3. f <= made
      BY <1>1 DEF FlightsInv
    <3>4. \A g \in Flights : stage'[g] = "unborn" <=> g > made'
      BY <1>1, <2>2, <2>6, <3>1, <3>3 DEF FlightsInv, Flights
    <3>5. \A g \in Flights : InFlight(g)' => g = flight'
      BY <2>6, <3>1, <3>2 DEF InFlight
    <3>6. InFlight(flight)' /\ kind'[flight'] = "abandon"
      BY <2>3, <2>6, <3>1 DEF InFlight, TypeOK, FlightTypes
    <3>. QED  BY <2>2, <2>3, <2>6, <3>4, <3>5, <3>6 DEF FlightsInv
  <2>8. OutcomesInv'
    <3>1. \A g \in Flights : stage'[g] = "returned" => FALSE
      BY <1>1, <2>2, <2>3, <2>6
      DEF FlightsInv, TypeOK, FlightTypes, InFlight, Flights, done
    <3>2. \A g \in Flights : stage'[g] = "done" =>
            /\ err[g] # "none" /\ err[g] # "nil"
            /\ g # made + 1 /\ kind[g] = "graceful"
      <4> SUFFICES ASSUME NEW g \in Flights, stage'[g] = "done"
                   PROVE  /\ err[g] # "none" /\ err[g] # "nil"
                          /\ g # made + 1 /\ kind[g] = "graceful"
        OBVIOUS
      <4>1. g # made + 1 /\ done[g] = "done"
        BY <1>1, <2>3, <2>6 DEF TypeOK, FlightTypes
      <4>2. CASE g = f
        BY <4>1, <4>2, <2>2
      <4>3. CASE g # f
        <5>1. stage[g] = "done"
          BY <4>1, <4>3 DEF done, TypeOK, FlightTypes
        <5>. QED  BY <5>1, <4>1, <2>2 DEF OutcomesInv, TypeOK, FlightTypes
      <4>. QED  BY <4>2, <4>3
    <3>3. \A g \in Flights :
            handedTo'[g] # 0 =>
              handedTo'[g] <= made' /\ kind'[handedTo'[g]] = "abandon"
      BY <2>1, <2>2, <2>3, <2>6 DEF OutcomesInv, TypeOK, FlightTypes, Flights
    <3>. QED  BY <3>1, <3>2, <3>3, <1>2, <2>3, <2>6
              DEF OutcomesInv, TypeOK, FlightTypes
  <2>9. CallersInv'
    BY <1>2, <2>2, <2>3, <2>6
    DEF CallersInv, TypeOK, FlightTypes, CallerTypes, callerVars, Flights, Callers
  <2>10. AbandonInv' /\ AnswersAreOutcomes'
    BY <1>2, <2>2, <2>3 DEF AbandonInv, AnswersAreOutcomes, callerVars
  <2>. QED  BY <2>5, <2>7, <2>8, <2>9, <2>10
<1>5. CASE ~(Undone(f) /\ HandsOver)
  <2>1. /\ stage' = done
        /\ UNCHANGED <<flight, made, kind, handedTo>>
        /\ hook' \in [Hooks -> {"unregistered", "registered", "due", "ran"}]
        /\ \/ err[f] = "nil" /\ phase' = "released"
           \/ err[f] = "err" /\ Undone(f) /\ ~pendingAbandon /\ phase' = "resident"
           \/ err[f] = "err" /\ ~Undone(f) /\ phase' = "failed"
    BY <1>5 DEF Complete, Undone, HandsOver, TypeOK
  <2>2. phase' = "resident" => phase = "releasing" /\ kind[f] = "graceful"
    BY <1>1, <2>1 DEF Undone
  <2>3. FlightTypes'
    BY <1>1, <1>2, <2>1 DEF TypeOK, FlightTypes
  <2>4. TypeOK'
    BY <1>2, <1>3, <2>1, <2>3 DEF TypeOK
  <2>5. FlightsInv'
    BY <1>1, <2>1, <2>2 DEF FlightsInv, TypeOK, FlightTypes, InFlight, Flights
  <2>6. OutcomesInv'
    <3>1. \A g \in Flights : g # f => stage'[g] = stage[g]
      BY <2>1 DEF TypeOK, FlightTypes
    <3>2. stage'[f] = "done"
      BY <2>1 DEF TypeOK, FlightTypes
    <3>3. \A g \in Flights : g # f =>
            /\ stage[g] = "returned" => FALSE
            /\ stage[g] = "done" =>
                 /\ err[g] # "none" /\ err[g] # "nil"
                 /\ ~(err[g] = "err" /\ kind[g] = "abandon")
      BY <1>1 DEF FlightsInv, OutcomesInv, InFlight
    <3>. QED  BY <1>1, <1>2, <2>1, <2>2, <3>1, <3>2, <3>3 DEF OutcomesInv
  <2>7. CallersInv'
    BY <1>1, <1>2, <2>1 DEF CallersInv, callerVars
  <2>8. AbandonInv' /\ AnswersAreOutcomes'
    BY <1>1, <1>2, <2>1, <2>2
    DEF AbandonInv, AbandonAsked, AnswersAreOutcomes, callerVars
  <2>. QED  BY <2>4, <2>5, <2>6, <2>7, <2>8
<1>. QED  BY <1>4, <1>5

\* The callbacks keep the invariant.
LEMMA HooksKeep ==
  ASSUME IndInv, NEW h \in Hooks, WhenReleased(h) \/ RunHook(h)
  PROVE  IndInv'
<1> USE DEF IndInv
<1>1. /\ hook' \in [Hooks -> {"unregistered", "registered", "due", "ran"}]
      /\ UNCHANGED <<phase, flightVars, pendingAbandon, torn, callerVars>>
  BY DEF WhenReleased, RunHook, Registered, TypeOK, runtimeVars
<1>2. FlightTypes' /\ FlightsInv' /\ OutcomesInv'
  BY <1>1, FlightsUntouched
<1>3. TypeOK'
  BY <1>1, <1>2 DEF TypeOK, CallerTypes, callerVars
<1>4. CallersInv' /\ AbandonInv' /\ AnswersAreOutcomes'
  BY <1>1
  DEF CallersInv, AbandonInv, AbandonAsked, AnswersAreOutcomes, callerVars,
      flightVars
<1>. QED  BY <1>2, <1>3, <1>4

-------------------------------------------------------------------------------
(* The theorems. *)

\* Every step keeps the invariant.
LEMMA NextKeeps == IndInv /\ [Next]_vars => IndInv'
<1> SUFFICES ASSUME IndInv, [Next]_vars PROVE IndInv'
  OBVIOUS
<1>1. ASSUME NEW c \in Releasers, Release(c) PROVE IndInv'
  BY <1>1, ReleaseKeeps
<1>2. ASSUME NEW c \in Abandoners, Abandon(c) PROVE IndInv'
  BY <1>2, AbandonKeeps
<1>3. ASSUME NEW c \in Callers, WaitEnds(c) \/ GiveUp(c) PROVE IndInv'
  BY <1>3, WaitEndsKeeps, GiveUpKeeps
<1>4. ASSUME NEW f \in Flights, FlightBound(f) PROVE IndInv'
  BY <1>4, EnvironmentKeeps
<1>5. ASSUME NEW f \in Flights, Complete(f) PROVE IndInv'
  BY <1>5, CompleteKeeps
<1>6. ASSUME NEW f \in Flights, NEW r \in {"nil", "err"}, NEW t \in BOOLEAN,
             RuntimeReturns(f, r, t)
      PROVE  IndInv'
  BY <1>6, RuntimeReturnsKeeps
<1>7. CASE RuntimeEnds
  BY <1>7, EnvironmentKeeps
<1>8. ASSUME NEW h \in Hooks, WhenReleased(h) \/ RunHook(h) PROVE IndInv'
  BY <1>8, HooksKeep
<1>9. CASE UNCHANGED vars
  <2>1. /\ UNCHANGED <<phase, flightVars, pendingAbandon, torn, callerVars, hook>>
    BY <1>9 DEF vars, runtimeVars
  <2>2. FlightTypes' /\ FlightsInv' /\ OutcomesInv'
    BY <2>1, FlightsUntouched
  <2>3. TypeOK'
    BY <2>1, <2>2 DEF IndInv, TypeOK, CallerTypes, callerVars
  <2>4. CallersInv' /\ AbandonInv' /\ AnswersAreOutcomes'
    BY <2>1
    DEF IndInv, CallersInv, AbandonInv, AbandonAsked, AnswersAreOutcomes,
        callerVars, flightVars
  <2>. QED  BY <2>2, <2>3, <2>4 DEF IndInv
<1>. QED
  BY <1>1, <1>2, <1>3, <1>4, <1>5, <1>6, <1>7, <1>8, <1>9 DEF Next

\* Every reachable state satisfies the inductive invariant.
THEOREM Inductive == Spec => []IndInv
  BY InitEstablishes, NextKeeps, PTL DEF Spec

\* Every variable keeps its type, for any number of callers and flights.
THEOREM Typing == Spec => []TypeOK
<1>1. IndInv => TypeOK
  BY DEF IndInv
<1>. QED  BY <1>1, Inductive, PTL

\* teardown.go never has two runtime teardown calls in flight, nor one after
\* the runtime has released.
THEOREM SingleCall == Spec => []OneRuntimeCall
<1>1. IndInv => OneRuntimeCall
  BY DEF IndInv, FlightsInv, OneRuntimeCall
<1>. QED  BY <1>1, Inductive, PTL

\* What release and abandon return is how the teardown ended.
THEOREM TruthfulAnswers == Spec => []AnswersAreOutcomes
<1>1. IndInv => AnswersAreOutcomes
  BY DEF IndInv
<1>. QED  BY <1>1, Inductive, PTL

\* Once an abandon was asked for, no graceful release starts again.
THEOREM Dominance == Spec => AbandonDominates
<1>1. ASSUME IndInv, [Next]_vars
      PROVE  [AbandonAsked =>
                \A f \in Flights :
                   stage[f] = "unborn" /\ stage'[f] # "unborn"
                     => kind'[f] = "abandon"]_vars
  <2> SUFFICES ASSUME Next, AbandonAsked, NEW g \in Flights,
                      stage[g] = "unborn", stage'[g] # "unborn"
               PROVE  kind'[g] = "abandon"
    BY <1>1
  <2>1. phase # "resident"
    BY <1>1 DEF IndInv, AbandonInv
  <2>2. kind \in [Flights -> {"graceful", "abandon"}] /\ stage \in [Flights -> {"unborn", "calling", "returned", "done"}]
    BY <1>1 DEF IndInv, TypeOK, FlightTypes
  <2>3. ASSUME NEW f \in Flights, Complete(f) PROVE kind'[g] = "abandon"
    <3>1. f # g
      BY <2>3 DEF Complete
    <3>2. [stage EXCEPT ![f] = "done"][g] = "unborn"
      BY <2>2, <3>1
    <3>3. /\ kind' = [kind EXCEPT ![made + 1] = "abandon"]
          /\ stage' = [[stage EXCEPT ![f] = "done"] EXCEPT ![made + 1] = "calling"]
      BY <2>3, <3>2 DEF Complete, ElectFrom
    <3>. QED  BY <2>2, <3>2, <3>3
  <2>4. ASSUME NEW c \in Releasers, Release(c) PROVE FALSE
    BY <2>1, <2>4 DEF Release, ElectsRelease, flightVars
  <2>5. ASSUME NEW c \in Abandoners, Abandon(c) PROVE FALSE
    BY <2>1, <2>5 DEF Abandon, flightVars
  <2>6. ASSUME NEW c \in Callers, WaitEnds(c) \/ GiveUp(c) PROVE FALSE
    BY <2>6 DEF WaitEnds, GiveUp, flightVars
  <2>7. ASSUME NEW f \in Flights, FlightBound(f) PROVE FALSE
    BY <2>7 DEF FlightBound
  <2>8. ASSUME NEW f \in Flights, NEW r \in {"nil", "err"}, NEW t \in BOOLEAN,
               RuntimeReturns(f, r, t)
        PROVE  FALSE
    BY <2>2, <2>8 DEF RuntimeReturns
  <2>9. ASSUME RuntimeEnds \/ \E h \in Hooks : WhenReleased(h) \/ RunHook(h)
        PROVE  FALSE
    BY <2>9 DEF RuntimeEnds, WhenReleased, RunHook, flightVars
  <2>. QED  BY <2>3, <2>4, <2>5, <2>6, <2>7, <2>8, <2>9 DEF Next
<1>. QED  BY <1>1, Inductive, PTL DEF Spec, AbandonDominates

\* The state machine of teardown.go implements TeardownPromise.
THEOREM Refinement == Spec => KeepsPromise
<1>1. Init => Promise!Init
  BY DEF Init, Promise!Init
<1>2. ASSUME IndInv, [Next]_vars PROVE [Promise!Next]_(Promise!vars)
  <2> USE DEF Promise!vars
  <2> DEFINE Visible == <<phase, pendingAbandon>>
  <2>1. CASE UNCHANGED Visible
    BY <2>1
  <2>2. ASSUME NEW c \in Releasers, Release(c)
        PROVE  [Promise!Next]_(Promise!vars)
    <3>1. CASE phase = "resident"
      <4>1. phase' = "releasing" /\ pendingAbandon' = pendingAbandon /\ ~pendingAbandon
        BY <1>2, <2>2, <3>1
        DEF Release, ElectsRelease, Elect, ElectFrom, IndInv, AbandonInv
      <4>2. Promise!StartGraceful
        BY <3>1, <4>1 DEF Promise!StartGraceful
      <4>. QED  BY <4>2 DEF Promise!Next
    <3>2. CASE phase # "resident"
      BY <2>1, <2>2, <3>2 DEF Release, ElectsRelease
    <3>. QED  BY <3>1, <3>2
  <2>3. ASSUME NEW c \in Abandoners, Abandon(c)
        PROVE  [Promise!Next]_(Promise!vars)
    <3>1. CASE phase = "resident"
      <4>1. phase' = "abandoning" /\ pendingAbandon' = pendingAbandon /\ ~pendingAbandon
        BY <1>2, <2>3, <3>1 DEF Abandon, Elect, ElectFrom, IndInv, AbandonInv
      <4>2. Promise!StartAbandon
        BY <3>1, <4>1 DEF Promise!StartAbandon
      <4>. QED  BY <4>2 DEF Promise!Next
    <3>2. CASE phase = "releasing"
      <4>1. phase' = phase /\ pendingAbandon' = TRUE
        BY <2>3, <3>2 DEF Abandon
      <4>2. Promise!WantAbandon
        BY <3>2, <4>1 DEF Promise!WantAbandon
      <4>. QED  BY <4>2 DEF Promise!Next
    <3>3. CASE phase \notin {"resident", "releasing"}
      BY <2>1, <2>3, <3>3 DEF Abandon
    <3>. QED  BY <3>1, <3>2, <3>3
  <2>4. ASSUME NEW f \in Flights, Complete(f)
        PROVE  [Promise!Next]_(Promise!vars)
    <3>1. /\ phase \in {"releasing", "abandoning"}
          /\ kind[f] = (IF phase = "releasing" THEN "graceful" ELSE "abandon")
          /\ pendingAbandon' = FALSE
      BY <1>2, <2>4 DEF Complete, IndInv, FlightsInv, InFlight
    <3>2. CASE Undone(f) /\ err[f] # "nil"
      <4>1. /\ phase = "releasing"
            /\ phase' = IF pendingAbandon THEN "abandoning" ELSE "resident"
        BY <2>4, <3>1, <3>2 DEF Complete, Undone, HandsOver, ElectFrom
      <4>2. Promise!Refused
        BY <1>2, <3>1, <4>1 DEF Promise!Refused, IndInv, TypeOK
      <4>. QED  BY <4>2 DEF Promise!Next
    <3>3. CASE ~Undone(f) \/ err[f] = "nil"
      <4>1. phase' \in {"released", "failed"}
        BY <2>4, <3>3 DEF Complete, Undone
      <4>2. \E how \in {"released", "failed"} : Promise!Ended(how)
        BY <3>1, <4>1 DEF Promise!Ended
      <4>. QED  BY <4>2 DEF Promise!Next
    <3>. QED  BY <3>2, <3>3
  <2>5. ASSUME NEW c \in Callers, WaitEnds(c) \/ GiveUp(c) PROVE UNCHANGED Visible
    BY <2>5 DEF WaitEnds, GiveUp
  <2>6. ASSUME NEW f \in Flights, FlightBound(f) PROVE UNCHANGED Visible
    BY <2>6 DEF FlightBound
  <2>7. ASSUME NEW f \in Flights, NEW r \in {"nil", "err"}, NEW t \in BOOLEAN,
               RuntimeReturns(f, r, t)
        PROVE  UNCHANGED Visible
    BY <2>7 DEF RuntimeReturns
  <2>8. ASSUME RuntimeEnds \/ \E h \in Hooks : WhenReleased(h) \/ RunHook(h)
        PROVE  UNCHANGED Visible
    BY <2>8 DEF RuntimeEnds, WhenReleased, RunHook
  <2>9. CASE UNCHANGED vars
    BY <2>1, <2>9 DEF vars
  <2>. QED
    BY <1>2, <2>1, <2>2, <2>3, <2>4, <2>5, <2>6, <2>7, <2>8, <2>9 DEF Next
<1>. QED  BY <1>1, <1>2, Inductive, PTL DEF Spec, KeepsPromise, Promise!Spec
===============================================================================
