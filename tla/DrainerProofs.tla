---------------------------- MODULE DrainerProofs ----------------------------
(* Theorems about Drainer.tla, for any number of sessions, callers and         *)
(* mishaps.                                                                    *)
EXTENDS Drainer, TLAPS

\* What a recorded failure says went wrong.
Steps == {"settleAttaches", "stillHeld", "finishRelease", "unreleased"}

DrainRecord == [begun : BOOLEAN, starting : BOOLEAN, startErr : BOOLEAN,
                scope : Tenants \cup {NoKey}, state : {"draining", "drained"},
                settled : BOOLEAN, failures : SUBSET ((Sessions \cup {NoKey}) \X Steps)]
CallRecord == [at : {"out", "called", "publishing", "waiting", "awake"},
               answer : {"none", "status", "error", "empty"}]
Places == {"absent", "attaching", "committed", "resident", "released", "leaked", "reported",
           "ended"}
SessRecord == [at : Places, held : BOOLEAN]
Waits == {"none", "attach", "halt", "haltCancelled", "idle", "idleCancelled", "runtime",
          "abandon", "finish", "done"}

HostOK ==
  /\ store \in {"none", "open", "closed"}
  /\ service \in {"none", "composing", "refused", "new", "starting", "started", "stopped",
                  "disposed"}
  /\ draining \in BOOLEAN /\ ledger \in BOOLEAN
  /\ beat \in {"none", "withdrawn", "accepting"}

TypeOK ==
  /\ HostOK
  /\ drainer \in DrainRecord
  /\ caller \in [Callers -> CallRecord]
  /\ sess \in [Sessions -> SessRecord]
  /\ rel \in [Sessions -> Waits]
  /\ attaches \in {"none", "waiting", "cancelled", "done"}
  /\ grace \in BOOLEAN /\ unreleased \in SUBSET Sessions

Running == service \in {"started", "stopped"}

\* Nothing drains, is attached or beats before the Service started, and a Service
\* that stopped had its drain settled.
HostInv ==
  /\ draining \/ ledger \/ beat # "none" => Running
  /\ ledger => draining
  /\ \A c \in Callers : caller[c].at # "out" \/ caller[c].answer # "none" => draining
  /\ \A s \in Sessions : sess[s].at # "absent" => Running
  /\ service = "stopped" => drainer.settled
  /\ store = "closed" => beat = "none" /\ service \in {"refused", "stopped", "disposed"}

\* One caller at a time publishes, for a drain that has not begun; whoever waits
\* for it finds a drain begun, an attempt under way or the failure of one.
CallInv ==
  /\ drainer.begun \/ drainer.starting => ledger
  /\ \A c \in Callers : caller[c].at = "publishing" => drainer.starting /\ ~drainer.begun
  /\ \A c, d \in Callers :
       caller[c].at = "publishing" /\ caller[d].at = "publishing" => c = d
  /\ \A c \in Callers : caller[c].at = "waiting" =>
       drainer.begun \/ drainer.starting \/ drainer.startErr
  /\ \A c \in Callers : caller[c].at = "awake" => drainer.begun \/ drainer.startErr
  /\ \A c \in Callers : caller[c].answer # "empty"
  /\ \A c \in Callers : caller[c].answer = "status" => drainer.begun

\* A failure is recorded that names the session.
Failed(s) == \E step \in Steps : <<s, step>> \in drainer.failures

\* What a session holds: nothing once a warm release gave it back, and past its
\* end only what the release ledger or a failure of the drain accounts for.
HeldInv ==
  \A s \in Sessions :
    /\ sess[s].at \in {"absent", "released"} => ~sess[s].held
    /\ sess[s].at = "reported" => s \in unreleased
    /\ sess[s].at = "ended" /\ sess[s].held => s \in unreleased \/ Failed(s)

\* Where the drain's release of a session is, and what is true of the session
\* then.  A session outside the snapshot cannot become resident any more.
RunInv ==
  /\ ~drainer.begun => /\ \A s \in Sessions : rel[s] = "none"
                       /\ attaches = "none" /\ ~drainer.settled
  /\ drainer.begun => attaches # "none"
  /\ \A s \in Sessions :
       /\ drainer.begun /\ rel[s] = "none" => sess[s].at \in {"absent", "attaching", "ended"}
       /\ rel[s] \notin {"none", "attach", "done"} => ~Inflight(s) /\ sess[s].at # "absent"
       /\ rel[s] = "attach" => sess[s].at # "absent"
       /\ rel[s] = "done" => sess[s].at = "ended" \/ Failed(s)
  /\ attaches = "done" =>
       (\A s \in Sessions : ~Inflight(s)) \/ <<NoKey, "settleAttaches">> \in drainer.failures

\* What a drain that has settled leaves behind.
SettledInv ==
  /\ drainer.state = "drained" => drainer.settled /\ drainer.failures = {}
  /\ drainer.settled =>
       /\ drainer.begun /\ attaches = "done"
       /\ \A s \in Sessions : rel[s] \in {"none", "done"}
  /\ drainer.state = "drained" => unreleased = {}

IndInv == TypeOK /\ HostInv /\ CallInv /\ HeldInv /\ RunInv /\ SettledInv

-----------------------------------------------------------------------------
(* What a step that leaves a part's variables alone cannot disturb.            *)

\* The callers' part needs only the ledger, the Drainer and the callers.
LEMMA CallFrame == CallInv /\ UNCHANGED <<ledger, drainer, caller>> => CallInv'
  BY DEF CallInv
\* What is held needs only the sessions and the two records of failures.
LEMMA HeldFrame == HeldInv /\ UNCHANGED <<drainer, sess, unreleased>> => HeldInv'
  BY DEF HeldInv, Failed
\* The run's part needs only the Drainer, the sessions and the releases.
LEMMA RunFrame == RunInv /\ UNCHANGED <<drainer, sess, rel, attaches>> => RunInv'
  BY DEF RunInv, Failed, Inflight
\* What a settled drain leaves needs only the Drainer, the releases and the ledger.
LEMMA SettledFrame ==
  SettledInv /\ UNCHANGED <<drainer, rel, attaches, unreleased>> => SettledInv'
  BY DEF SettledInv

-----------------------------------------------------------------------------

\* The states a process starts in satisfy the invariant.
LEMMA InitEstablishes == Init => IndInv
<1> SUFFICES ASSUME Init PROVE IndInv
  OBVIOUS
<1> USE DrainerAssumption DEF Init
<1>1. TypeOK
  BY DEF TypeOK, HostOK, DrainRecord, CallRecord, SessRecord, Places, Waits
<1>2. HostInv /\ CallInv
  BY DEF HostInv, CallInv, Running
<1>3. HeldInv /\ RunInv /\ SettledInv
  BY DEF HeldInv, RunInv, SettledInv, Failed, Inflight
<1>. QED  BY <1>1, <1>2, <1>3 DEF IndInv

\* Compose opens the store for a Service that runs nothing yet.
LEMMA ComposeKeeps ==
  ASSUME IndInv, Compose
  PROVE  IndInv'
<1> USE DEF IndInv, Compose, runVars
<1>1. TypeOK'
  BY DEF TypeOK, HostOK
<1>2. HostInv'
  BY DEF TypeOK, HostOK, HostInv, Running
<1>3. CallInv' /\ HeldInv' /\ RunInv' /\ SettledInv'
  BY CallFrame, HeldFrame, RunFrame, SettledFrame
<1>. QED  BY <1>1, <1>2, <1>3

\* New builds a Service that holds nothing; a refusal closes the store.
LEMMA ComposedKeeps ==
  ASSUME IndInv, Composed
  PROVE  IndInv'
<1> USE DEF IndInv, Composed, New, runVars
<1>1. TypeOK'
  BY DEF TypeOK, HostOK
<1>2. HostInv'
  BY DEF TypeOK, HostOK, HostInv, Running
<1>3. CallInv'
  BY DEF TypeOK, HostOK, HostInv, CallInv, Running
<1>4. HeldInv'
  BY DEF TypeOK, HostOK, HostInv, HeldInv, Running, Failed
<1>5. SettledInv'
  BY DEF SettledInv
<1>6. RunInv'
  BY RunFrame
<1>. QED  BY <1>1, <1>2, <1>3, <1>4, <1>5, <1>6

\* Start claims the transition and does nothing else.
LEMMA StartKeeps ==
  ASSUME IndInv, Start
  PROVE  IndInv'
<1> USE DEF IndInv, Start, runVars
<1>1. TypeOK'
  BY DEF TypeOK, HostOK
<1>2. HostInv'
  BY DEF TypeOK, HostOK, HostInv, Running
<1>3. CallInv' /\ HeldInv' /\ RunInv' /\ SettledInv'
  BY CallFrame, HeldFrame, RunFrame, SettledFrame
<1>. QED  BY <1>1, <1>2, <1>3

\* A publication that succeeded starts the Service; one that failed does not.
LEMMA StartedKeeps ==
  ASSUME IndInv, Started
  PROVE  IndInv'
<1> USE DEF IndInv, Started, runVars
<1>1. TypeOK'
  BY DEF TypeOK, HostOK
<1>2. HostInv'
  BY DEF TypeOK, HostOK, HostInv, Running
<1>3. CallInv' /\ HeldInv' /\ RunInv' /\ SettledInv'
  BY CallFrame, HeldFrame, RunFrame, SettledFrame
<1>. QED  BY <1>1, <1>2, <1>3

\* A Service that never started is disposed.
LEMMA CloseUnstartedKeeps ==
  ASSUME IndInv, CloseUnstarted
  PROVE  IndInv'
<1> USE DEF IndInv, CloseUnstarted, runVars
<1>1. TypeOK'
  BY DEF TypeOK, HostOK
<1>2. HostInv'
  BY DEF TypeOK, HostOK, HostInv, Running
<1>3. CallInv' /\ HeldInv' /\ RunInv' /\ SettledInv'
  BY CallFrame, HeldFrame, RunFrame, SettledFrame
<1>. QED  BY <1>1, <1>2, <1>3

\* The heartbeat publishes only while the Service runs.
LEMMA BeatKeeps ==
  ASSUME IndInv, Beat
  PROVE  IndInv'
<1> USE DEF IndInv, Beat, Advertised, runVars
<1>1. TypeOK'
  BY DEF TypeOK, HostOK
<1>2. HostInv'
  BY DEF TypeOK, HostOK, HostInv, Running
<1>3. CallInv' /\ HeldInv' /\ RunInv' /\ SettledInv'
  BY CallFrame, HeldFrame, RunFrame, SettledFrame
<1>. QED  BY <1>1, <1>2, <1>3

\* The store is closed after the heartbeat's last publication.
LEMMA CloseStoreKeeps ==
  ASSUME IndInv, CloseStore
  PROVE  IndInv'
<1> USE DEF IndInv, CloseStore, runVars
<1>1. TypeOK'
  BY DEF TypeOK, HostOK
<1>2. HostInv'
  BY DEF TypeOK, HostOK, HostInv, Running
<1>3. CallInv' /\ HeldInv' /\ RunInv' /\ SettledInv'
  BY CallFrame, HeldFrame, RunFrame, SettledFrame
<1>. QED  BY <1>1, <1>2, <1>3

-----------------------------------------------------------------------------
(* Sessions coming and going.                                                  *)

\* An attach is admitted only while the ledger admits.
LEMMA AttachKeeps ==
  ASSUME IndInv, NEW s \in Sessions, Attach(s)
  PROVE  IndInv'
<1> USE DEF IndInv, Attach, Inflight, SessionStep, hostVars, runVars
<1>1. TypeOK'
  BY DEF TypeOK, HostOK, SessRecord, Places
<1>2. HostInv'
  BY DEF TypeOK, SessRecord, Places, HostInv, Running
<1>3. HeldInv'
  BY DEF TypeOK, SessRecord, Places, HeldInv, Failed
<1>4. RunInv'
  BY DEF TypeOK, SessRecord, Places, HostInv, RunInv, CallInv, Failed
<1>5. CallInv' /\ SettledInv'
  BY CallFrame, SettledFrame
<1>. QED  BY <1>1, <1>2, <1>3, <1>4, <1>5

\* No attach commits once the Host drains, so none commits outside the snapshot.
LEMMA trackResidentKeeps ==
  ASSUME IndInv, NEW s \in Sessions, trackResident(s)
  PROVE  IndInv'
<1> USE DEF IndInv, trackResident, Inflight, SessionStep, hostVars, runVars
<1>1. TypeOK'
  BY DEF TypeOK, HostOK, SessRecord, Places
<1>2. HostInv'
  BY DEF TypeOK, SessRecord, Places, HostInv, Running
<1>3. HeldInv'
  BY DEF TypeOK, SessRecord, Places, HeldInv, Failed
<1>4. RunInv'
  BY DEF TypeOK, SessRecord, Places, HostInv, RunInv, CallInv, Failed
<1>5. CallInv' /\ SettledInv'
  BY CallFrame, SettledFrame
<1>. QED  BY <1>1, <1>2, <1>3, <1>4, <1>5

\* A session past its attach moves on, or any session ends: what the drain's
\* release of it relies on stays true.
LEMMA ResidencyMoves ==
  ASSUME RunInv, NEW s \in Sessions, UNCHANGED <<drainer, rel, attaches>>,
         \A t \in Sessions \ {s} : sess'[t] = sess[t],
         sess[s].at \notin {"absent", "attaching", "ended"} \/ sess'[s].at = "ended",
         sess'[s].at \notin {"absent", "attaching", "committed"}
  PROVE  RunInv'
<1>1. \A t \in Sessions : Inflight(t)' => Inflight(t)
  BY DEF Inflight
<1>2. \A t \in Sessions : Failed(t)' <=> Failed(t)
  BY DEF Failed
<1>. QED  BY <1>1, <1>2 DEF RunInv, Inflight

\* An attach that leaves something held puts it on the ledger as it returns.
LEMMA settleAttachKeeps ==
  ASSUME IndInv, NEW s \in Sessions, settleAttach(s)
  PROVE  IndInv'
<1> USE DEF IndInv, settleAttach, Inflight, Mishap, SessionStep, hostVars, runVars
<1>1. sess' \in [Sessions -> SessRecord]
  <2>1. CASE sess' = [sess EXCEPT ![s].at = "resident"]
    BY <2>1 DEF TypeOK, SessRecord, Places
  <2>2. CASE sess' = [sess EXCEPT ![s] = [at |-> "ended", held |-> FALSE]]
    BY <2>2 DEF TypeOK, SessRecord, Places
  <2>3. CASE sess' = [sess EXCEPT ![s].at = "ended"]
    BY <2>3 DEF TypeOK, SessRecord, Places
  <2>. QED  BY <2>1, <2>2, <2>3
<1>2. TypeOK'
  BY <1>1 DEF TypeOK, HostOK
<1>3. HostInv'
  BY DEF TypeOK, SessRecord, Places, HostInv, Running
<1>4. HeldInv'
  <2>1. \A t \in Sessions : Failed(t)' <=> Failed(t)
    BY DEF Failed
  <2>2. \A t \in Sessions \ {s} : sess'[t] = sess[t]
    BY DEF TypeOK
  <2>3. /\ sess'[s].at \in {"resident", "ended"}
        /\ sess'[s].at = "ended" /\ sess'[s].held => s \in unreleased'
    BY DEF TypeOK, SessRecord
  <2>4. unreleased \subseteq unreleased'
    OBVIOUS
  <2>. QED  BY <2>1, <2>2, <2>3, <2>4 DEF HeldInv
<1>5. RunInv'
  BY ResidencyMoves DEF TypeOK, SessRecord
<1>6. SettledInv'
  BY DEF TypeOK, SessRecord, Places, HeldInv, RunInv, SettledInv, Failed
<1>7. CallInv'
  BY CallFrame
<1>. QED  BY <1>2, <1>3, <1>4, <1>5, <1>6, <1>7

\* A warm release ends a residency the drain may be waiting for.
LEMMA WarmEndsKeeps ==
  ASSUME IndInv, NEW s \in Sessions, WarmEnds(s)
  PROVE  IndInv'
<1> USE DEF IndInv, WarmEnds, Inflight, Mishap, SessionStep, hostVars, runVars
<1>1. sess' \in [Sessions -> SessRecord]
  <2>1. CASE sess' = [sess EXCEPT ![s] = [at |-> "released", held |-> FALSE]]
    BY <2>1 DEF TypeOK, SessRecord, Places
  <2>2. CASE sess' = [sess EXCEPT ![s].at = "leaked"]
    BY <2>2 DEF TypeOK, SessRecord, Places
  <2>. QED  BY <2>1, <2>2
<1>2. TypeOK'
  BY <1>1 DEF TypeOK, HostOK
<1>3. HostInv'
  BY DEF TypeOK, SessRecord, Places, HostInv, Running
<1>4. HeldInv'
  BY DEF TypeOK, SessRecord, Places, HeldInv, Failed
<1>5. RunInv'
  BY ResidencyMoves DEF TypeOK, SessRecord
<1>6. CallInv' /\ SettledInv'
  BY CallFrame, SettledFrame
<1>. QED  BY <1>2, <1>3, <1>4, <1>5, <1>6

\* A lease that would not be given back is on the ledger before the handle is dropped.
LEMMA WarmReleaseKeeps ==
  ASSUME IndInv, NEW s \in Sessions, WarmRelease(s)
  PROVE  IndInv'
<1> USE DEF IndInv, WarmRelease, Inflight, SessionStep, hostVars, runVars
<1>1. sess' \in [Sessions -> SessRecord]
  <2>1. CASE sess' = [sess EXCEPT ![s].at = "reported"]
    BY <2>1 DEF TypeOK, SessRecord, Places
  <2>2. CASE sess' = [sess EXCEPT ![s].at = "ended"]
    BY <2>2 DEF TypeOK, SessRecord, Places
  <2>. QED  BY <2>1, <2>2
<1>2. TypeOK'
  BY <1>1 DEF TypeOK, HostOK
<1>3. HostInv'
  BY DEF TypeOK, SessRecord, Places, HostInv, Running
<1>4. HeldInv'
  BY DEF TypeOK, SessRecord, Places, HeldInv, Failed
<1>5. RunInv'
  BY ResidencyMoves DEF TypeOK, SessRecord
<1>6. SettledInv'
  BY DEF TypeOK, SessRecord, Places, HeldInv, RunInv, SettledInv, Failed
<1>7. CallInv'
  BY CallFrame
<1>. QED  BY <1>2, <1>3, <1>4, <1>5, <1>6, <1>7

-----------------------------------------------------------------------------
(* The callers of StartDrain.                                                  *)

\* A caller arrives at a Service that runs.
LEMMA StartDrainKeeps ==
  ASSUME IndInv, NEW c \in Callers, StartDrain(c)
  PROVE  IndInv'
<1> USE DEF IndInv, StartDrain, CallStep, Outside, runVars
<1>1. caller' \in [Callers -> CallRecord]
  BY DEF TypeOK, CallRecord
<1>2. TypeOK'
  BY <1>1 DEF TypeOK, HostOK
<1>3. HostInv'
  BY DEF TypeOK, HostOK, HostInv, CallRecord, Running
<1>4. CallInv'
  BY DEF TypeOK, CallRecord, CallInv
<1>5. HeldInv' /\ RunInv' /\ SettledInv'
  BY HeldFrame, RunFrame, SettledFrame
<1>. QED  BY <1>2, <1>3, <1>4, <1>5

\* One caller owns the publication; the others find it begun or starting.
LEMMA JoinsKeeps ==
  ASSUME IndInv, NEW c \in Callers, Joins(c)
  PROVE  IndInv'
<1> USE DEF IndInv, Joins, CallStep, Outside, runVars
<1>1. caller' \in [Callers -> CallRecord]
  BY DEF TypeOK, CallRecord
<1>2. drainer' \in DrainRecord
  BY DEF TypeOK, DrainRecord
<1>3. TypeOK'
  <2>1. /\ ledger' \in BOOLEAN
        /\ UNCHANGED <<store, service, draining, beat, sess, rel, attaches, grace, unreleased>>
    BY DEF TypeOK, HostOK
  <2>. QED  BY <1>1, <1>2, <2>1 DEF TypeOK, HostOK
<1>4. HostInv'
  BY DEF TypeOK, HostOK, DrainRecord, HostInv, CallRecord, Running
<1>5. CallInv'
  BY DEF TypeOK, CallRecord, DrainRecord, CallInv
<1>6. HeldInv'
  BY DEF TypeOK, DrainRecord, HeldInv, Failed
<1>7. RunInv'
  BY DEF TypeOK, DrainRecord, RunInv, Failed, Inflight
<1>8. SettledInv'
  BY DEF TypeOK, DrainRecord, SettledInv
<1>. QED  BY <1>3, <1>4, <1>5, <1>6, <1>7, <1>8

\* The drain begins over the sessions resident when the row landed.
LEMMA publishKeeps ==
  ASSUME IndInv, NEW c \in Callers, publish(c)
  PROVE  IndInv'
<1> USE DEF IndInv, publish, begin, Mishap, CallStep
<1>1. caller' \in [Callers -> CallRecord]
  BY DEF TypeOK, CallRecord
<1>2. drainer' \in DrainRecord
  BY DEF TypeOK, DrainRecord
<1>3. rel' \in [Sessions -> Waits]
  BY DEF TypeOK, Waits
<1>4. TypeOK'
  BY <1>1, <1>2, <1>3 DEF TypeOK, HostOK
<1>5. HostInv'
  BY DEF TypeOK, HostOK, DrainRecord, HostInv, CallRecord, Running
<1>6. \A d \in Callers \ {c} : caller'[d] = caller[d] /\ caller[d].at # "publishing"
  BY DEF TypeOK, CallInv
<1>7. caller'[c].at = "out" /\ caller'[c].answer \in {"status", "error"} /\ ledger
  BY DEF TypeOK, CallInv
<1>8. drainer'.failures = drainer.failures /\ drainer'.state = drainer.state
      /\ drainer'.settled = drainer.settled
  BY DEF TypeOK, DrainRecord
<1>9. drainer'.begun = TRUE \/ (drainer'.startErr = TRUE /\ caller'[c].answer = "error")
  <2>1. CASE begin(c)
    BY <2>1 DEF TypeOK, DrainRecord
  <2>2. CASE /\ CallStep(c, "out", "error")
             /\ drainer' = [drainer EXCEPT !.starting = FALSE, !.startErr = TRUE]
    BY <2>2 DEF TypeOK, DrainRecord
  <2>. QED  BY <2>1, <2>2
<1>10. CallInv'
  BY <1>6, <1>7, <1>9 DEF CallInv
<1>11. HeldInv'
  BY DEF TypeOK, DrainRecord, HeldInv, Failed
<1>12. \A s \in Sessions : Failed(s)' <=> Failed(s)
  BY <1>8 DEF Failed
<1>13. RunInv'
  <2>1. CASE begin(c)
    BY <2>1, <1>8 DEF TypeOK, DrainRecord, SessRecord, Places, CallInv, RunInv, Inflight,
                      ResidentSessions
  <2>2. CASE /\ UNCHANGED <<rel, attaches>>
             /\ drainer' = [drainer EXCEPT !.starting = FALSE, !.startErr = TRUE]
    BY <2>2, <1>8, <1>12 DEF TypeOK, DrainRecord, RunInv, Inflight
  <2>. QED  BY <2>1, <2>2
<1>14. SettledInv'
  BY DEF TypeOK, DrainRecord, CallInv, RunInv, SettledInv
<1>. QED  BY <1>4, <1>5, <1>10, <1>11, <1>13, <1>14

\* A waiter wakes to a drain begun or to the failure it waited for.
LEMMA WakesKeeps ==
  ASSUME IndInv, NEW c \in Callers, Wakes(c)
  PROVE  IndInv'
<1> USE DEF IndInv, Wakes, CallStep, Outside, runVars
<1>1. caller' \in [Callers -> CallRecord]
  BY DEF TypeOK, CallRecord
<1>2. TypeOK'
  BY <1>1 DEF TypeOK, HostOK
<1>3. HostInv'
  BY DEF TypeOK, HostOK, HostInv, CallRecord, Running
<1>4. CallInv'
  BY DEF TypeOK, CallRecord, CallInv
<1>5. HeldInv' /\ RunInv' /\ SettledInv'
  BY HeldFrame, RunFrame, SettledFrame
<1>. QED  BY <1>2, <1>3, <1>4, <1>5

\* It is answered from what it finds, which is never nothing.
LEMMA AnswersKeeps ==
  ASSUME IndInv, NEW c \in Callers, Answers(c)
  PROVE  IndInv'
<1> USE DEF IndInv, Answers, CallStep, Outside, runVars
<1>1. caller' \in [Callers -> CallRecord]
  BY DEF TypeOK, CallRecord
<1>2. TypeOK'
  BY <1>1 DEF TypeOK, HostOK
<1>3. HostInv'
  BY DEF TypeOK, HostOK, HostInv, CallRecord, Running
<1>4. CallInv'
  BY DEF TypeOK, CallRecord, CallInv
<1>5. HeldInv' /\ RunInv' /\ SettledInv'
  BY HeldFrame, RunFrame, SettledFrame
<1>. QED  BY <1>2, <1>3, <1>4, <1>5

\* Stop stops a Service whose drain settled.
LEMMA StopKeeps ==
  ASSUME IndInv, NEW c \in Callers, Stop(c)
  PROVE  IndInv'
<1> USE DEF IndInv, Stop, runVars
<1>1. TypeOK'
  BY DEF TypeOK, HostOK
<1>2. HostInv'
  BY DEF TypeOK, HostOK, HostInv, CallRecord, Running
<1>3. CallInv' /\ HeldInv' /\ RunInv' /\ SettledInv'
  BY CallFrame, HeldFrame, RunFrame, SettledFrame
<1>. QED  BY <1>1, <1>2, <1>3

-----------------------------------------------------------------------------
(* The run.                                                                    *)

\* The run's fields of the Drainer: a step of it begins and starts nothing, and
\* forgets no failure.
Records ==
  /\ drainer' \in DrainRecord
  /\ drainer'.begun = drainer.begun /\ drainer'.starting = drainer.starting
  /\ drainer'.startErr = drainer.startErr
  /\ drainer.failures \subseteq drainer'.failures

\* A step of the run leaves the Service and its callers as they were.
LEMMA RunStepFrame ==
  ASSUME IndInv, RunStep, Records, drainer.settled => drainer'.settled,
         \A s \in Sessions : sess[s].at = "absent" => sess'[s].at = "absent"
  PROVE  HostInv' /\ CallInv'
<1>1. HostInv'
  BY DEF IndInv, RunStep, hostVars, Records, HostInv, Running
<1>2. CallInv'
  BY DEF IndInv, RunStep, hostVars, Records, CallInv
<1>. QED  BY <1>1, <1>2

\* The failures of a session only grow.
LEMMA FailedStays == ASSUME Records PROVE \A s \in Sessions : Failed(s) => Failed(s)'
  BY DEF Records, Failed

\* A release that is under way belongs to a drain that has not settled.
LEMMA ReleaseRuns ==
  ASSUME IndInv, NEW s \in Sessions, rel[s] \notin {"none", "done"}
  PROVE  drainer.begun /\ ~drainer.settled /\ drainer.state # "drained"
  BY DEF IndInv, RunInv, SettledInv

\* The release of a session moves on: it is done only over a session that ended
\* or a failure that names it.
LEMMA ReleaseMoves ==
  ASSUME IndInv, Records, drainer.begun, ~drainer.settled, UNCHANGED attaches,
         drainer'.settled = drainer.settled,
         NEW s \in Sessions, rel'[s] \notin {"none", "attach"},
         rel'[s] = "done" => sess'[s].at = "ended" \/ Failed(s)',
         rel'[s] # "done" => ~Inflight(s)' /\ sess'[s].at # "absent",
         Inflight(s)' => Inflight(s),
         \A t \in Sessions \ {s} : rel'[t] = rel[t] /\ sess'[t] = sess[t]
  PROVE  RunInv'
<1>1. \A t \in Sessions : Inflight(t)' => Inflight(t)
  BY DEF Inflight
<1>2. \A t \in Sessions : Failed(t) => Failed(t)'
  BY FailedStays
<1>3. \A t \in Sessions \ {s} :
        /\ rel'[t] = "none" => sess'[t].at \in {"absent", "attaching", "ended"}
        /\ rel'[t] \notin {"none", "attach", "done"} => ~Inflight(t)' /\ sess'[t].at # "absent"
        /\ rel'[t] = "attach" => sess'[t].at # "absent"
        /\ rel'[t] = "done" => sess'[t].at = "ended" \/ Failed(t)'
  BY <1>1, <1>2 DEF IndInv, RunInv
<1>4. attaches' # "none"
  BY DEF IndInv, RunInv
<1>5. attaches' = "done" =>
        (\A t \in Sessions : ~Inflight(t)') \/ <<NoKey, "settleAttaches">> \in drainer'.failures
  BY <1>1 DEF IndInv, RunInv, Records
<1>6. drainer'.begun = drainer.begun
  BY DEF Records
<1>. QED  BY <1>3, <1>4, <1>5, <1>6 DEF RunInv

\* The platform grace runs out.
LEMMA GraceKeeps ==
  ASSUME IndInv, Grace
  PROVE  IndInv'
<1> USE DEF IndInv, Grace, RunStep, hostVars
<1>1. TypeOK'
  BY DEF TypeOK, HostOK
<1>2. HostInv'
  BY DEF HostInv, Running
<1>3. CallInv' /\ HeldInv' /\ RunInv' /\ SettledInv'
  BY CallFrame, HeldFrame, RunFrame, SettledFrame
<1>. QED  BY <1>1, <1>2, <1>3

\* A session its attach unwound is done; one still in its attach is recorded.
LEMMA AwaitSessionAttachesKeeps ==
  ASSUME IndInv, NEW s \in Sessions, AwaitSessionAttaches(s)
  PROVE  IndInv'
<1> USE DEF IndInv, AwaitSessionAttaches, Fail, RunStep, hostVars, To
<1>1. Records /\ drainer'.settled = drainer.settled
  BY DEF TypeOK, DrainRecord, Steps, Records
<1>2. rel' \in [Sessions -> Waits]
  BY DEF TypeOK, Waits
<1>3. TypeOK'
  BY <1>1, <1>2 DEF TypeOK, HostOK, Records
<1>4. HostInv' /\ CallInv'
  BY <1>1, RunStepFrame
<1>5. drainer.begun /\ ~drainer.settled /\ drainer.state # "drained"
  BY ReleaseRuns
<1>6. HeldInv'
  BY <1>1, FailedStays DEF HeldInv
<1>7. RunInv'
  <2>1. rel'[s] \in {"halt", "done"} /\ \A t \in Sessions \ {s} : rel'[t] = rel[t]
    BY DEF TypeOK
  <2>2. rel'[s] = "halt" => ~Inflight(s) /\ sess[s].at # "absent"
    BY DEF TypeOK, RunInv
  <2>3. rel'[s] = "done" => sess[s].at = "ended" \/ Failed(s)'
    BY DEF TypeOK, DrainRecord, Failed, Steps
  <2>. QED  BY <1>1, <1>5, <2>1, <2>2, <2>3, ReleaseMoves DEF Inflight
<1>8. SettledInv'
  BY <1>1, <1>5 DEF TypeOK, DrainRecord, SettledInv, Records
<1>. QED  BY <1>3, <1>4, <1>6, <1>7, <1>8

\* The waits of a release end, answered or not.
LEMMA boundedKeeps ==
  ASSUME IndInv, NEW s \in Sessions, bounded(s)
  PROVE  IndInv'
<1> USE DEF IndInv, bounded, After, Cancelled, RunStep, hostVars, To
<1>1. Records /\ drainer'.settled = drainer.settled
  BY DEF TypeOK, Records
<1>2. rel' \in [Sessions -> Waits]
  BY DEF TypeOK, Waits
<1>3. TypeOK'
  BY <1>1, <1>2 DEF TypeOK, HostOK, Records
<1>4. HostInv' /\ CallInv'
  BY <1>1, RunStepFrame
<1>5. drainer.begun /\ ~drainer.settled /\ drainer.state # "drained"
  BY ReleaseRuns
<1>6. RunInv'
  BY <1>1, <1>5, ReleaseMoves DEF TypeOK, RunInv, Inflight
<1>7. SettledInv'
  BY <1>1, <1>5 DEF TypeOK, DrainRecord, SettledInv, Records
<1>8. HeldInv'
  BY HeldFrame
<1>. QED  BY <1>3, <1>4, <1>6, <1>7, <1>8

\* A runtime torn down with its lease held is recorded.
LEMMA ReleaseResidencyKeeps ==
  ASSUME IndInv, NEW s \in Sessions, ReleaseResidency(s)
  PROVE  IndInv'
<1> USE DEF IndInv, ReleaseResidency, Fail, Mishap, RunStep, hostVars, To
<1>1. Records /\ drainer'.settled = drainer.settled
  BY DEF TypeOK, DrainRecord, Steps, Records
<1>2. rel' \in [Sessions -> Waits]
  BY DEF TypeOK, Waits
<1>3. TypeOK'
  BY <1>1, <1>2 DEF TypeOK, HostOK, Records
<1>4. HostInv' /\ CallInv'
  BY <1>1, RunStepFrame
<1>5. drainer.begun /\ ~drainer.settled /\ drainer.state # "drained"
  BY ReleaseRuns
<1>6. HeldInv'
  BY <1>1, FailedStays DEF HeldInv
<1>7. RunInv'
  BY <1>1, <1>5, ReleaseMoves DEF TypeOK, RunInv, Inflight
<1>8. SettledInv'
  BY <1>1, <1>5 DEF TypeOK, DrainRecord, SettledInv, Records
<1>. QED  BY <1>3, <1>4, <1>6, <1>7, <1>8

\* What is given up is handed back next.
LEMMA abandonKeeps ==
  ASSUME IndInv, NEW s \in Sessions, abandon(s)
  PROVE  IndInv'
<1> USE DEF IndInv, abandon, RunStep, hostVars, To
<1>1. Records /\ drainer'.settled = drainer.settled
  BY DEF TypeOK, Records
<1>2. rel' \in [Sessions -> Waits]
  BY DEF TypeOK, Waits
<1>3. TypeOK'
  BY <1>1, <1>2 DEF TypeOK, HostOK, Records
<1>4. HostInv' /\ CallInv'
  BY <1>1, RunStepFrame
<1>5. drainer.begun /\ ~drainer.settled /\ drainer.state # "drained"
  BY ReleaseRuns
<1>6. RunInv'
  BY <1>1, <1>5, ReleaseMoves DEF TypeOK, RunInv, Inflight
<1>7. SettledInv'
  BY <1>1, <1>5 DEF TypeOK, DrainRecord, SettledInv, Records
<1>8. HeldInv'
  BY HeldFrame
<1>. QED  BY <1>3, <1>4, <1>6, <1>7, <1>8

\* A release ends with the session ended or a failure recorded.
LEMMA FinishReleaseKeeps ==
  ASSUME IndInv, NEW s \in Sessions, FinishRelease(s)
  PROVE  IndInv'
<1> USE DEF IndInv
<1> DEFINE Shared == Fail(s, "finishRelease") /\ UNCHANGED sess
           Over   == UNCHANGED drainer
                     /\ sess' = [sess EXCEPT ![s] = [at |-> "ended", held |-> Keeps(s)]]
           Refused == Fail(s, "finishRelease") /\ sess' = [sess EXCEPT ![s].at = "ended"]
<1>1. (Shared \/ Over \/ Refused) /\ rel[s] = "finish" /\ To(s, "done")
        /\ RunStep /\ UNCHANGED <<attaches, grace, unreleased>>
  BY DEF FinishRelease
<1>2. Records /\ drainer'.settled = drainer.settled /\ drainer'.state = drainer.state
  BY <1>1 DEF TypeOK, DrainRecord, Steps, Records, Fail
<1>3. /\ rel' \in [Sessions -> Waits] /\ rel'[s] = "done"
      /\ \A t \in Sessions \ {s} : rel'[t] = rel[t]
  BY <1>1 DEF TypeOK, Waits, To
<1>4. Keeps(s) \in BOOLEAN
  BY DEF Keeps
<1>5. sess' \in [Sessions -> SessRecord] /\ \A t \in Sessions \ {s} : sess'[t] = sess[t]
  <2>1. CASE Shared   BY <2>1 DEF TypeOK
  <2>2. CASE Over     BY <2>2, <1>4 DEF TypeOK, SessRecord, Places
  <2>3. CASE Refused  BY <2>3 DEF TypeOK, SessRecord, Places
  <2>. QED  BY <1>1, <2>1, <2>2, <2>3
<1>6. TypeOK'
  BY <1>1, <1>2, <1>3, <1>5 DEF TypeOK, HostOK, Records, RunStep, hostVars
<1>7. drainer.begun /\ ~drainer.settled /\ drainer.state # "drained"
  BY <1>1, ReleaseRuns
<1>8. sess[s].at # "absent" /\ ~Inflight(s)
  BY <1>1 DEF RunInv
<1>9. sess'[s].at = "ended" \/ Failed(s)'
  <2>1. CASE sess' = [sess EXCEPT ![s] = [at |-> "ended", held |-> Keeps(s)]]
    BY <2>1 DEF TypeOK
  <2>2. CASE Fail(s, "finishRelease")
    BY <2>2 DEF TypeOK, DrainRecord, Fail, Failed, Steps
  <2>. QED  BY <1>1, <2>1, <2>2
<1>10. sess'[s] = sess[s] \/ sess'[s].at = "ended"
  BY <1>1 DEF TypeOK, SessRecord
<1>11. sess'[s].at = "ended" /\ sess'[s].held => s \in unreleased \/ Failed(s)'
  <2>1. CASE Over
    <3>1. sess'[s].held => Keeps(s)
      BY <2>1 DEF TypeOK
    <3>2. Keeps(s) => s \in unreleased \/ Failed(s)
      BY DEF Keeps, HeldInv, Failed, Steps
    <3>. QED  BY <3>1, <3>2, <1>2, FailedStays
  <2>2. CASE Fail(s, "finishRelease")
    BY <2>2 DEF TypeOK, DrainRecord, Fail, Failed, Steps
  <2>. QED  BY <1>1, <2>1, <2>2
<1>12. HostInv' /\ CallInv'
  BY <1>1, <1>2, <1>5, <1>8, RunStepFrame
<1>13. HeldInv'
  <2>1. ASSUME NEW t \in Sessions \ {s}, Failed(t) => Failed(t)'
        PROVE  /\ sess'[t].at \in {"absent", "released"} => ~sess'[t].held
               /\ sess'[t].at = "reported" => t \in unreleased'
               /\ sess'[t].at = "ended" /\ sess'[t].held => t \in unreleased' \/ Failed(t)'
    BY <2>1, <1>1, <1>5 DEF HeldInv
  <2>2. /\ sess'[s].at \in {"absent", "released"} => ~sess'[s].held
        /\ sess'[s].at = "reported" => s \in unreleased'
    BY <1>1, <1>10 DEF HeldInv
  <2>. QED  BY <2>1, <2>2, <1>1, <1>2, <1>11, FailedStays DEF HeldInv
<1>14. RunInv'
  BY <1>1, <1>2, <1>3, <1>5, <1>7, <1>8, <1>9, <1>10, ReleaseMoves DEF Inflight
<1>15. SettledInv'
  BY <1>2, <1>7 DEF SettledInv
<1>. QED  BY <1>6, <1>12, <1>13, <1>14, <1>15

\* settleAttaches is done when nothing is in flight, or says what was.
LEMMA settleAttachesKeeps ==
  ASSUME IndInv, settleAttaches
  PROVE  IndInv'
<1> USE DEF IndInv
<1>1. /\ RunStep /\ UNCHANGED <<sess, rel, grace, unreleased>>
      /\ attaches \in {"waiting", "cancelled"} /\ attaches' \in {"cancelled", "done"}
      /\ UNCHANGED drainer \/ Fail(NoKey, "settleAttaches")
  BY DEF settleAttaches
<1>2. Records /\ drainer'.settled = drainer.settled /\ drainer'.state = drainer.state
  BY <1>1 DEF TypeOK, DrainRecord, Steps, Records, Fail
<1>3. TypeOK'
  BY <1>1, <1>2 DEF TypeOK, HostOK, Records, RunStep, hostVars
<1>4. drainer.begun /\ ~drainer.settled /\ drainer.state # "drained"
  BY <1>1 DEF RunInv, SettledInv
<1>5. HostInv' /\ CallInv'
  BY <1>1, <1>2, RunStepFrame
<1>6. \A s \in Sessions : (Failed(s) => Failed(s)') /\ (Inflight(s)' <=> Inflight(s))
  BY <1>1, <1>2, FailedStays DEF Inflight
<1>7. HeldInv'
  BY <1>1, <1>6 DEF HeldInv
<1>8. attaches' = "done" =>
        (\A s \in Sessions : ~Inflight(s)) \/ <<NoKey, "settleAttaches">> \in drainer'.failures
  BY DEF settleAttaches, Fail, TypeOK, DrainRecord
<1>9. RunInv'
  BY <1>1, <1>2, <1>4, <1>6, <1>8 DEF RunInv, Records
<1>10. SettledInv'
  BY <1>2, <1>4 DEF SettledInv
<1>. QED  BY <1>3, <1>5, <1>7, <1>9, <1>10

\* The run settles as drained only over an empty record and an empty ledger.
LEMMA runKeeps ==
  ASSUME IndInv, run
  PROVE  IndInv'
<1> USE DEF IndInv
<1>1. /\ RunStep /\ UNCHANGED <<sess, rel, attaches, grace, unreleased>>
      /\ drainer.begun /\ ~drainer.settled /\ attaches = "done"
      /\ \A s \in Sessions : rel[s] \in {"none", "done"}
  BY DEF run, runVars
<1> DEFINE failures == drainer.failures \cup {<<s, "unreleased">> : s \in unreleased}
<1>2. failures \in SUBSET ((Sessions \cup {NoKey}) \X Steps)
  BY DEF TypeOK, DrainRecord, Steps
<1>3. drainer' = [drainer EXCEPT !.failures = failures, !.settled = TRUE,
                                 !.state = settledState(failures)]
  BY DEF run
<1>4. settledState(failures) \in {"draining", "drained"}
  BY DEF settledState
<1>5. Records /\ drainer'.settled /\ drainer'.failures = failures
        /\ drainer'.state = settledState(failures)
  <2> HIDE DEF failures
  <2>1. drainer' \in DrainRecord /\ drainer'.failures = failures
    BY <1>2, <1>3, <1>4 DEF TypeOK, DrainRecord
  <2>2. /\ drainer'.begun = drainer.begun /\ drainer'.starting = drainer.starting
        /\ drainer'.startErr = drainer.startErr /\ drainer'.settled
        /\ drainer'.state = settledState(failures)
    BY <1>3 DEF TypeOK, DrainRecord
  <2>3. drainer.failures \subseteq failures
    BY DEF failures
  <2>. QED  BY <2>1, <2>2, <2>3 DEF Records
<1>6. drainer'.state = "drained" => drainer'.failures = {} /\ unreleased = {}
  <2>1. drainer'.state = "drained" => failures = {}
    BY <1>5 DEF settledState
  <2>2. failures = {} => unreleased = {}
    OBVIOUS
  <2>. QED  BY <1>5, <2>1, <2>2
<1>7. TypeOK'
  BY <1>1, <1>5 DEF TypeOK, HostOK, Records, RunStep, hostVars
<1>8. HostInv' /\ CallInv'
  BY <1>1, <1>5, RunStepFrame
<1>9. \A s \in Sessions : (Failed(s) => Failed(s)') /\ (Inflight(s)' <=> Inflight(s))
  BY <1>1, <1>5, FailedStays DEF Inflight
<1>10. HeldInv'
  BY <1>1, <1>9 DEF HeldInv
<1>11. RunInv'
  BY <1>1, <1>5, <1>9 DEF RunInv, Records
<1>12. SettledInv'
  BY <1>1, <1>5, <1>6 DEF SettledInv, Records
<1>. QED  BY <1>7, <1>8, <1>10, <1>11, <1>12

-----------------------------------------------------------------------------

\* Every step keeps the invariant.
LEMMA NextKeeps == IndInv /\ [Next]_vars => IndInv'
<1> SUFFICES ASSUME IndInv, [Next]_vars PROVE IndInv'
  OBVIOUS
<1>1. CASE Compose \/ Composed \/ Start \/ Started \/ CloseUnstarted \/ Beat \/ CloseStore
  BY <1>1, ComposeKeeps, ComposedKeeps, StartKeeps, StartedKeeps, CloseUnstartedKeeps,
     BeatKeeps, CloseStoreKeeps
<1>2. ASSUME NEW s \in Sessions,
             Attach(s) \/ trackResident(s) \/ settleAttach(s) \/ WarmEnds(s) \/ WarmRelease(s)
      PROVE  IndInv'
  BY <1>2, AttachKeeps, trackResidentKeeps, settleAttachKeeps, WarmEndsKeeps, WarmReleaseKeeps
<1>3. ASSUME NEW c \in Callers, StartDrain(c) \/ Calls(c) \/ Stop(c)
      PROVE  IndInv'
  BY <1>3, StartDrainKeeps, JoinsKeeps, publishKeeps, WakesKeeps, AnswersKeeps, StopKeeps
     DEF Calls
<1>4. CASE Grace \/ settleAttaches \/ run
  BY <1>4, GraceKeeps, settleAttachesKeeps, runKeeps
<1>5. ASSUME NEW s \in Sessions, Release(s)
      PROVE  IndInv'
  BY <1>5, AwaitSessionAttachesKeeps, boundedKeeps, ReleaseResidencyKeeps, abandonKeeps,
     FinishReleaseKeeps DEF Release
<1>6. CASE UNCHANGED vars
  <2> USE <1>6 DEF IndInv, vars
  <2>1. TypeOK'
    BY DEF TypeOK, HostOK
  <2>2. HostInv'
    BY DEF HostInv, Running
  <2>. QED  BY <2>1, <2>2, CallFrame, HeldFrame, RunFrame, SettledFrame
<1>. QED  BY <1>1, <1>2, <1>3, <1>4, <1>5, <1>6 DEF Next

\* The invariant holds throughout every behaviour of the drain.
THEOREM Inductive == Spec => []IndInv
  BY InitEstablishes, NextKeeps, PTL DEF Spec

\* A caller of StartDrain is answered with the status of a drain that has begun,
\* or with an error: whoever wakes finds the drain begun or the failure of the
\* attempt it waited for, which no later attempt clears until it succeeds.
THEOREM DrainAnswersAreHonest == Spec => []AnswersAreHonest
<1>1. IndInv => AnswersAreHonest
  BY DEF IndInv, CallInv, AnswersAreHonest
<1>. QED  BY <1>1, Inductive, PTL

\* A drain reports drained only when no session is held any more, whatever
\* attached, committed, ended warm or failed beside it.
THEOREM DrainedHasReleased == Spec => []DrainedMeansReleased
<1>1. IndInv => DrainedMeansReleased
  <2> SUFFICES ASSUME IndInv, drainer.state = "drained", NEW s \in Sessions
               PROVE  ~sess[s].held
    BY DEF DrainedMeansReleased
  <2> USE DEF IndInv
  <2>1. drainer.failures = {} /\ unreleased = {} /\ drainer.begun /\ attaches = "done"
          /\ rel[s] \in {"none", "done"}
    BY DEF SettledInv
  <2>2. ~Failed(s)
    BY <2>1 DEF Failed
  <2>3. ~Inflight(s)
    BY <2>1 DEF RunInv
  <2>4. sess[s].at \in {"absent", "ended"}
    BY <2>1, <2>2, <2>3 DEF RunInv, Inflight
  <2>. QED  BY <2>1, <2>2, <2>4 DEF HeldInv
<1>. QED  BY <1>1, Inductive, PTL

\* The store is closed after everything that may write to it: no heartbeat, no
\* publication and no release is under way, and a session that might still write
\* is one the drain recorded a failure for.
THEOREM StoreIsClosedLast == Spec => []StoreClosesLast
<1>1. IndInv => StoreClosesLast
  <2> SUFFICES ASSUME IndInv, store = "closed" PROVE StoreClosesLast
    BY DEF StoreClosesLast
  <2> USE DEF IndInv
  <2>1. beat = "none" /\ service \in {"refused", "stopped", "disposed"}
    BY DEF HostInv
  <2>2. CASE service = "stopped"
    <3>1. drainer.settled /\ drainer.begun /\ attaches = "done"
      BY <2>2 DEF HostInv, SettledInv
    <3>2. \A c \in Callers : caller[c].at # "publishing"
      BY <3>1 DEF CallInv
    <3>3. \A s \in Sessions : rel[s] \in {"none", "done"}
      BY <3>1 DEF SettledInv
    <3>4. ASSUME NEW s \in Sessions, sess[s].at \notin {"absent", "ended"}
          PROVE  drainer.failures # {}
      <4>1. CASE rel[s] = "done"
        BY <4>1, <3>4 DEF RunInv, Failed
      <4>2. CASE rel[s] = "none"
        BY <4>2, <3>1, <3>4 DEF RunInv, Inflight
      <4>. QED  BY <3>3, <4>1, <4>2
    <3>. QED  BY <2>1, <3>2, <3>3, <3>4 DEF StoreClosesLast
  <2>3. CASE service # "stopped"
    <3>1. ~Running
      BY <2>1, <2>3 DEF Running
    <3>2. /\ \A c \in Callers : caller[c].at = "out"
          /\ \A s \in Sessions : sess[s].at = "absent"
      BY <3>1 DEF HostInv, TypeOK, HostOK
    <3>3. \A s \in Sessions : rel[s] = "none"
      BY <3>1 DEF HostInv, CallInv, RunInv, TypeOK, HostOK
    <3>. QED  BY <2>1, <3>2, <3>3 DEF StoreClosesLast
  <2>. QED  BY <2>2, <2>3
<1>. QED  BY <1>1, Inductive, PTL
=============================================================================
