-------------------------- MODULE DispositionProofs --------------------------
(* Theorems about Disposition.tla, for any number of residencies, commands and *)
(* mishaps: the steps of the processor keep the invariant as those of the      *)
(* stream do, and each is a step of the promise.                               *)
EXTENDS DispositionInvariant

-----------------------------------------------------------------------------
(* The steps of a processor.                                                   *)

\* A processor moves, at most its record is written, and its Host's fence may
\* close.
LEMMA ProcessorKeeps ==
  ASSUME IndInv, NEW h \in Grants, work[h].pass = "process", call[h].pc # "none",
         UNCHANGED <<accepted, saved, opened, effects, evidence, late>>,
         host' \in [Grants -> Host], \A g \in Grants : host'[g].life = host[g].life,
         rec' = rec \/ RecordStep(call[h].order),
         Answers(h) \/ (Goes(h) /\ DispatchOK(h)')
  PROVE  IndInv' /\ PromiseStep
<1>1. call[h].order \in Orders
  BY AtCommand DEF IndInv
<1>2. RecordStep(call[h].order)
  BY <1>1 DEF RecordStep, SameState, IndInv, TypeOK
<1>3. /\ \A d \in Orders : Terminal(d) => Terminal(d)'
      /\ RecordInv' /\ LateInv' /\ PromiseStep
      /\ \A g \in Grants : call'[g] = call[g] => DispatchOK(g)'
  BY <1>1, <1>2, RecordMoves
<1>4. /\ work' \in [Grants -> Consumer] /\ call' \in [Grants -> Call]
      /\ CursorInv' /\ PageInv' /\ CallInv'
      /\ \A g \in Grants \ {h} : call'[g] = call[g]
      /\ Answers(h) => call'[h].pc = "none"
  BY <1>3, ProcessorMoves DEF IndInv
<1>5. TypeOK'
  BY <1>2, <1>4 DEF IndInv, TypeOK, RecordStep
<1>6. HostInv'
  BY DEF IndInv, HostInv
<1>7. DispatchInv'
  <2>1. DispatchOK(h)'
    BY <1>4, Zenon DEF DispatchOK
  <2>. QED  BY <1>3, <1>4, <2>1, Zenon DEF DispatchInv
<1>. QED  BY <1>3, <1>4, <1>5, <1>6, <1>7 DEF IndInv

\* A processor goes on to its next step.
LEMMA ToGoes ==
  ASSUME TypeOK, NEW h \in Grants, NEW pc \in Steps, To(h, pc)
  PROVE  Goes(h) /\ call'[h].pc = pc
<1>1. call \in [Grants -> Call] /\ call[h] \in Call
  BY DEF TypeOK
<1>2. [call[h] EXCEPT !.pc = pc] \in Call
  BY <1>1, Zenon DEF Call
<1>. QED  BY <1>1, <1>2 DEF To, Calls, Goes, Call

\* A processor goes on with the revision it has seen.
LEMMA SeenGoes ==
  ASSUME TypeOK, NEW h \in Grants, NEW pc \in Steps, NEW n \in Nat,
         Calls(h, [call[h] EXCEPT !.pc = pc, !.rev = n])
  PROVE  Goes(h) /\ call'[h].pc = pc
<1>1. call \in [Grants -> Call] /\ call[h] \in Call
  BY DEF TypeOK
<1>2. [call[h] EXCEPT !.pc = pc, !.rev = n] \in Call
  BY <1>1, Zenon DEF Call
<1>. QED  BY <1>1, <1>2 DEF Calls, Goes, Call

\* A processor goes on to settle the attempt it found.
LEMMA RecoversGoes ==
  ASSUME TypeOK, NEW h \in Grants, NEW r \in Record, Recovers(h, r)
  PROVE  Goes(h) /\ call'[h].pc = "settle"
<1>1. /\ call \in [Grants -> Call] /\ call[h] \in Call /\ r.rev \in Nat /\ "settle" \in Steps
      /\ "recover" \in {"first", "failed", "recover", "last"}
  BY DEF TypeOK, Record, Steps
<1>2. [call[h] EXCEPT !.pc = "settle", !.rev = r.rev, !.mode = "recover"] \in Call
  BY <1>1, Zenon DEF Call
<1>. QED  BY <1>1, <1>2 DEF Recovers, Calls, Goes, Call

\* A processor goes on to settle its attempt.
LEMMA ToSettleGoes ==
  ASSUME TypeOK, NEW h \in Grants, NEW mode \in {"first", "failed", "recover", "last"},
         NEW prefix \in BOOLEAN, ToSettle(h, mode, prefix)
  PROVE  Goes(h) /\ call'[h].pc = "settle"
<1>1. /\ call \in [Grants -> Call] /\ call[h] \in Call /\ "settle" \in Steps
      /\ (prefix /\ call[h].order \in GateResponses) \in BOOLEAN
  BY DEF TypeOK, Steps
<1>2. [call[h] EXCEPT !.pc = "settle", !.mode = mode,
                      !.prefix = prefix /\ call[h].order \in GateResponses] \in Call
  BY <1>1, Zenon DEF Call
<1>. QED  BY <1>1, <1>2 DEF ToSettle, Calls, Goes, Call

\* Reading the record keeps the invariant.
LEMMA ProcessKeeps ==
  ASSUME IndInv, NEW h \in Grants, Process(h)
  PROVE  IndInv' /\ PromiseStep
<1>1. /\ work[h].pass = "process" /\ call[h].pc # "none"
      /\ UNCHANGED <<accepted, rec, saved, host, opened, effects, evidence, late>>
  BY DEF Process, At, LocalStep, journalVars
<1>2. /\ TypeOK /\ call[h].order \in Orders /\ rec[call[h].order] \in Record
      /\ rec[call[h].order].rev \in Nat
  BY <1>1, AtCommand DEF IndInv, TypeOK, Record
<1>3. /\ host' \in [Grants -> Host] /\ \A g \in Grants : host'[g].life = host[g].life
  BY <1>1, <1>2 DEF TypeOK
<1>4. Answers(h) \/ (Goes(h) /\ DispatchOK(h)')
  <2>1. CASE rec[call[h].order].state \in Final /\ Consumed(h)
    BY <1>1, <2>1 DEF Answers
  <2>2. CASE Blocked(h)
    BY <2>2 DEF Answers
  <2>3. CASE rec[call[h].order].state = "applying" /\ Recovers(h, rec[call[h].order])
    <3>1. Goes(h) /\ call'[h].pc = "settle"
      BY <1>2, <2>3, RecoversGoes
    <3>2. rec[call[h].order].attempt # 0
      BY <1>2, <2>3 DEF IndInv, RecordInv
    <3>. QED  BY <1>1, <3>1, <3>2 DEF DispatchOK, Goes
  <2>4. ASSUME NEW pc \in {"check", "claim"}, Seen(h, pc, rec[call[h].order])
        PROVE  Goes(h) /\ DispatchOK(h)'
    <3>1. Goes(h) /\ call'[h].pc = pc
      BY <1>2, <2>4, SeenGoes, Zenon DEF Seen, Steps
    <3>. QED  BY <3>1 DEF DispatchOK
  <2>. QED  BY <2>1, <2>2, <2>3, <2>4 DEF Process, LoadDispositionCommand, checkDispositionRecord
<1>. QED  BY <1>1, <1>3, <1>4, ProcessorKeeps

\* Loading and checking the body keeps the invariant.
LEMMA AuthorizeKeeps ==
  ASSUME IndInv, NEW h \in Grants, authorize(h)
  PROVE  IndInv' /\ PromiseStep
<1>1. /\ work[h].pass = "process" /\ call[h].pc # "none" /\ TypeOK
      /\ UNCHANGED <<accepted, rec, saved, host, opened, effects, evidence, late>>
  BY DEF authorize, At, LocalStep, journalVars, IndInv
<1>2. /\ host' \in [Grants -> Host] /\ \A g \in Grants : host'[g].life = host[g].life
  BY <1>1 DEF TypeOK
<1>3. Answers(h) \/ (Goes(h) /\ DispatchOK(h)')
  <2>1. CASE Blocked(h)
    BY <2>1 DEF Answers
  <2>2. ASSUME NEW pc \in {"begin", "reject"}, To(h, pc)
        PROVE  Goes(h) /\ DispatchOK(h)'
    <3>1. Goes(h) /\ call'[h].pc = pc
      BY <1>1, <2>2, ToGoes DEF Steps
    <3>. QED  BY <3>1 DEF DispatchOK
  <2>. QED  BY <2>1, <2>2 DEF authorize, LoadDispositionPayload, dereference, checkBody
<1>. QED  BY <1>1, <1>2, <1>3, ProcessorKeeps

\* Reporting a failed dispatch keeps the invariant.
LEMMA AfterFailedDispatchKeeps ==
  ASSUME IndInv, NEW h \in Grants, afterFailedDispatch(h)
  PROVE  IndInv' /\ PromiseStep
<1>1. /\ work[h].pass = "process" /\ call[h].pc # "none" /\ TypeOK
      /\ UNCHANGED <<accepted, rec, saved, host, opened, effects, evidence, late>>
  BY DEF afterFailedDispatch, At, LocalStep, IndInv
<1>2. /\ host' \in [Grants -> Host] /\ \A g \in Grants : host'[g].life = host[g].life
  BY <1>1 DEF TypeOK
<1>3. Answers(h)
  BY DEF afterFailedDispatch, Answers
<1>. QED  BY <1>1, <1>2, <1>3, ProcessorKeeps

\* A claim keeps the invariant.
LEMMA ClaimKeeps ==
  ASSUME IndInv, NEW h \in Grants, claimThenDispatch(h)
  PROVE  IndInv' /\ PromiseStep
<1>1. /\ work[h].pass = "process" /\ call[h].pc # "none" /\ TypeOK
      /\ UNCHANGED <<accepted, saved, opened, effects, evidence, late>>
  BY DEF claimThenDispatch, At, FencedWrite, journalVars, IndInv
<1>2. /\ call[h].order \in Orders /\ rec[call[h].order] \in Record
      /\ rec[call[h].order].rev \in Nat /\ rec[call[h].order].epoch \in Nat /\ h \in Nat
      /\ rec \in [Orders -> Record]
  BY <1>1, AtCommand, StreamAssumption DEF IndInv, TypeOK, Record, Grants
<1>3. PICK r : r = rec[call[h].order]
  BY Zenon
<1>4. /\ host' \in [Grants -> Host] /\ \A g \in Grants : host'[g].life = host[g].life
  <2>1. CASE host' = host
    BY <1>1, <2>1 DEF TypeOK
  <2>2. CASE host' = [host EXCEPT ![h].ended = @ \/ r.epoch > h]
    BY <1>1, <1>2, <1>3, <2>2, FenceCloses, Zenon
  <2>. QED  BY <1>3, <2>1, <2>2 DEF claimThenDispatch, FencedWrite, LoadDispositionCommand
<1>5. rec' = rec \/ RecordStep(call[h].order)
  <2>1. ASSUME ClaimAdmitted(h, r),
               rec' = [rec EXCEPT ![call[h].order] =
                         [r EXCEPT !.state = "claimed", !.rev = @ + 1, !.epoch = h, !.live = TRUE]]
        PROVE  RecordStep(call[h].order)
    <3>1. [r EXCEPT !.state = "claimed", !.rev = @ + 1, !.epoch = h, !.live = TRUE] \in Record
      <4>1. /\ r \in Record /\ "claimed" \in States /\ r.rev + 1 \in Nat /\ h \in Nat
            /\ TRUE \in BOOLEAN
        BY <1>2, <1>3 DEF States
      <4>. QED  BY <4>1, Zenon DEF Record
    <3>2. rec' \in [Orders -> Record] /\ \A d \in Orders \ {call[h].order} : rec'[d] = rec[d]
      BY <1>2, <2>1, <3>1
    <3>3. rec'[call[h].order].state = "claimed" /\ rec'[call[h].order].attempt = r.attempt
      BY <1>2, <1>3, <2>1 DEF Record
    <3>. QED  BY <1>3, <2>1, <3>2, <3>3 DEF RecordStep, BeforeAttempt, ClaimAdmitted
  <2>. QED  BY <1>3, <2>1 DEF claimThenDispatch, FencedWrite, LoadDispositionCommand
<1>6. Answers(h) \/ (Goes(h) /\ DispatchOK(h)')
  <2>1. CASE Blocked(h)
    BY <2>1 DEF Answers
  <2>2. CASE Calls(h, [call[h] EXCEPT !.pc = "check", !.rev = r.rev + 1])
    <3>2. "check" \in Steps /\ r.rev + 1 \in Nat
      BY <1>2, <1>3 DEF Steps
    <3>1. Goes(h) /\ call'[h].pc = "check"
      BY <1>1, <2>2, <3>2, SeenGoes, Zenon
    <3>. QED  BY <3>1 DEF DispatchOK
  <2>. QED  BY <1>3, <2>1, <2>2 DEF claimThenDispatch, FencedWrite, LoadDispositionCommand
<1>. QED  BY <1>1, <1>4, <1>5, <1>6, ProcessorKeeps

\* A rejection keeps the invariant.
LEMMA RejectKeeps ==
  ASSUME IndInv, NEW h \in Grants, reject(h)
  PROVE  IndInv' /\ PromiseStep
<1>1. /\ work[h].pass = "process" /\ call[h].pc # "none" /\ TypeOK
      /\ UNCHANGED <<accepted, saved, opened, effects, evidence, late>>
  BY DEF reject, At, FencedWrite, journalVars, IndInv
<1>2. /\ call[h].order \in Orders /\ rec[call[h].order] \in Record
      /\ rec[call[h].order].rev \in Nat /\ rec[call[h].order].epoch \in Nat /\ h \in Nat
      /\ rec \in [Orders -> Record]
  BY <1>1, AtCommand, StreamAssumption DEF IndInv, TypeOK, Record, Grants
<1>3. PICK r : r = rec[call[h].order]
  BY Zenon
<1>4. /\ host' \in [Grants -> Host] /\ \A g \in Grants : host'[g].life = host[g].life
  <2>1. CASE host' = host
    BY <1>1, <2>1 DEF TypeOK
  <2>2. CASE host' = [host EXCEPT ![h].ended = @ \/ r.epoch > h]
    BY <1>1, <1>2, <1>3, <2>2, FenceCloses, Zenon
  <2>. QED  BY <1>3, <2>1, <2>2 DEF reject, FencedWrite, LoadDispositionCommand
<1>5. ASSUME RejectAdmitted(h, r),
             rec' = [rec EXCEPT ![call[h].order] = [r EXCEPT !.state = "rejected", !.rev = @ + 1]]
      PROVE  RecordStep(call[h].order) /\ rec'[call[h].order].state = "rejected"
  <2>1. [r EXCEPT !.state = "rejected", !.rev = @ + 1] \in Record
    <3>1. r \in Record /\ "rejected" \in States /\ r.rev + 1 \in Nat
      BY <1>2, <1>3 DEF States
    <3>. QED  BY <3>1, Zenon DEF Record
  <2>2. rec' \in [Orders -> Record] /\ \A d \in Orders \ {call[h].order} : rec'[d] = rec[d]
    BY <1>2, <1>5, <2>1
  <2>3. rec'[call[h].order].state = "rejected" /\ rec'[call[h].order].attempt = r.attempt
    BY <1>2, <1>3, <1>5 DEF Record
  <2>. QED  BY <1>3, <1>5, <2>2, <2>3 DEF RecordStep, BeforeAttempt, RejectAdmitted, HoldsClaim,
            OwnLiveClaim
<1>6. (rec' = rec \/ RecordStep(call[h].order)) /\ Answers(h)
  BY <1>3, <1>5 DEF reject, FencedWrite, LoadDispositionCommand, Answers, Final
<1>. QED  BY <1>1, <1>4, <1>6, ProcessorKeeps

\* Authorizing an attempt keeps the invariant: its author writes the journal or
\* is already fenced out, and either way the command has left no trace there.
LEMMA BeginAttemptKeeps ==
  ASSUME IndInv, NEW h \in Grants, BeginAttempt(h)
  PROVE  IndInv' /\ PromiseStep
<1>1. /\ work[h].pass = "process" /\ call[h].pc # "none" /\ TypeOK /\ host[h].life = "up"
      /\ UNCHANGED <<accepted, saved, opened, effects, evidence, late>>
  BY DEF BeginAttempt, At, Up, FencedWrite, journalVars, IndInv
<1>2. /\ call[h].order \in Orders /\ rec[call[h].order] \in Record
      /\ rec[call[h].order].rev \in Nat /\ rec[call[h].order].epoch \in Nat
      /\ rec \in [Orders -> Record]
  BY <1>1, AtCommand DEF IndInv, TypeOK, Record
<1>3. PICK r : r = rec[call[h].order]
  BY Zenon
<1>7. h \in 1..opened /\ opened \in Nat
  BY <1>1, StreamAssumption DEF IndInv, HostInv, TypeOK, Grants
<1>4. /\ host' \in [Grants -> Host] /\ \A g \in Grants : host'[g].life = host[g].life
  <2>1. CASE host' = host
    BY <1>1, <2>1 DEF TypeOK
  <2>2. CASE host' = [host EXCEPT ![h].ended = @ \/ r.epoch > h]
    BY <1>1, <1>2, <1>3, <1>7, <2>2, FenceCloses, Zenon
  <2>. QED  BY <1>3, <2>1, <2>2 DEF BeginAttempt, FencedWrite, LoadDispositionCommand
<1>5. ASSUME AttemptAdmitted(h, r),
             rec' = [rec EXCEPT ![call[h].order] = [r EXCEPT !.state = "applying", !.rev = @ + 1,
                                                             !.live = FALSE, !.attempt = h]]
      PROVE  /\ RecordStep(call[h].order) /\ rec[call[h].order].state = "claimed"
             /\ rec'[call[h].order].state = "applying" /\ rec'[call[h].order].attempt = h
  <2>1. [r EXCEPT !.state = "applying", !.rev = @ + 1, !.live = FALSE, !.attempt = h] \in Record
    <3>1. /\ r \in Record /\ "applying" \in States /\ r.rev + 1 \in Nat /\ FALSE \in BOOLEAN
          /\ h \in Nat
      BY <1>2, <1>3, <1>7 DEF States
    <3>. QED  BY <3>1, Zenon DEF Record
  <2>2. rec' \in [Orders -> Record] /\ \A d \in Orders \ {call[h].order} : rec'[d] = rec[d]
    BY <1>2, <1>5, <2>1
  <2>3. rec'[call[h].order].state = "applying" /\ rec'[call[h].order].attempt = h
    BY <1>2, <1>3, <1>5 DEF Record
  <2>. QED  BY <1>3, <1>5, <1>7, <2>2, <2>3 DEF RecordStep, Authorized, AttemptAdmitted, HoldsClaim,
            OwnLiveClaim
<1>6. CASE rec' = rec /\ Blocked(h)
  BY <1>1, <1>4, <1>6, ProcessorKeeps DEF Answers
<1>8. ASSUME AttemptAdmitted(h, r),
             rec' = [rec EXCEPT ![call[h].order] = [r EXCEPT !.state = "applying", !.rev = @ + 1,
                                                             !.live = FALSE, !.attempt = h]],
             Blocked(h) \/ Calls(h, [call[h] EXCEPT !.pc = "dispatch", !.rev = r.rev + 1])
      PROVE  IndInv' /\ PromiseStep
  <2>1. CASE Blocked(h)
    BY <1>1, <1>4, <1>5, <1>8, <2>1, ProcessorKeeps DEF Answers
  <2>2. CASE Calls(h, [call[h] EXCEPT !.pc = "dispatch", !.rev = r.rev + 1])
    <3>1. "dispatch" \in Steps /\ r.rev + 1 \in Nat
      BY <1>2, <1>3 DEF Steps
    <3>2. Goes(h) /\ call'[h].pc = "dispatch"
      BY <1>1, <2>2, <3>1, SeenGoes, Zenon
    <3>3. Untried(call[h].order)
      BY <1>2, <1>5, <1>8 DEF IndInv, RecordInv
    <3>4. call'[h].order = call[h].order
      BY <3>2 DEF Goes
    <3>5. DispatchOK(h)'
      BY <1>1, <1>5, <1>8, <3>2, <3>3, <3>4 DEF DispatchOK, OpenAttempt, Untried
    <3>. QED  BY <1>1, <1>4, <1>5, <1>8, <3>2, <3>5, ProcessorKeeps
  <2>. QED  BY <1>8, <2>1, <2>2
<1>. QED  BY <1>3, <1>6, <1>8 DEF BeginAttempt, FencedWrite, LoadDispositionCommand

\* Settling a record from the journal keeps the invariant.
LEMMA SettleKeeps ==
  ASSUME IndInv, NEW h \in Grants, settle(h)
  PROVE  IndInv' /\ PromiseStep
<1>1. /\ work[h].pass = "process" /\ call[h].pc = "settle" /\ TypeOK
      /\ UNCHANGED <<accepted, saved, opened, effects, evidence, late>>
  BY DEF settle, At, FencedWrite, journalVars, IndInv
<1>2. /\ call[h].order \in Orders /\ rec[call[h].order] \in Record
      /\ rec[call[h].order].rev \in Nat /\ rec \in [Orders -> Record]
  BY <1>1, AtCommand DEF IndInv, TypeOK, Record
<1>3. PICK r : r = rec[call[h].order]
  BY Zenon
<1>4. /\ host' \in [Grants -> Host] /\ \A g \in Grants : host'[g].life = host[g].life
  <2>1. CASE host' = host
    BY <1>1, <2>1 DEF TypeOK
  <2>2. CASE host' = [host EXCEPT ![h].ended = @ \/ FALSE]
    BY <1>1, <2>2, FenceCloses, Zenon
  <2>. QED  BY <2>1, <2>2 DEF settle, FencedWrite
<1>5. ASSUME Settled(h, r),
             rec' = [rec EXCEPT ![call[h].order] =
                       [r EXCEPT !.state = Verdict(call[h].order), !.rev = @ + 1]]
      PROVE  RecordStep(call[h].order) /\ rec'[call[h].order].state \in Final
             /\ rec'[call[h].order].attempt = rec[call[h].order].attempt
  <2>1. [r EXCEPT !.state = Verdict(call[h].order), !.rev = @ + 1] \in Record
    <3>1. r \in Record /\ Verdict(call[h].order) \in States /\ r.rev + 1 \in Nat
      BY <1>2, <1>3 DEF States, Verdict
    <3>. QED  BY <3>1, Zenon DEF Record
  <2>2. rec' \in [Orders -> Record] /\ \A d \in Orders \ {call[h].order} : rec'[d] = rec[d]
    BY <1>2, <1>5, <2>1
  <2>3. /\ rec'[call[h].order].state = Verdict(call[h].order)
        /\ rec'[call[h].order].attempt = r.attempt
    BY <1>2, <1>3, <1>5 DEF Record
  <2>4. Verdict(call[h].order) \in Final
    BY DEF Verdict, Final
  <2>. QED  BY <1>3, <1>5, <2>2, <2>3, <2>4 DEF RecordStep, FromJournal, Settled
<1>6. ASSUME settleOrRecover(h), rec'[call[h].order].attempt = rec[call[h].order].attempt
      PROVE  Answers(h) \/ (Goes(h) /\ DispatchOK(h)')
  <2>1. rec[call[h].order].attempt # 0
    BY <1>1 DEF IndInv, DispatchInv, DispatchOK
  <2>2. CASE call[h].mode = "recover" /\ rec[call[h].order].attempt < h
    <3>1. Goes(h) /\ call'[h].pc = "close"
      BY <1>1, <1>6, <2>2, ToGoes DEF settleOrRecover, Steps
    <3>. QED  BY <1>6, <2>1, <2>2, <3>1 DEF DispatchOK, Goes
  <2>3. CASE call[h].mode = "failed"
    <3>1. Goes(h) /\ call'[h].pc = "failed"
      BY <1>1, <1>6, <2>3, ToGoes DEF settleOrRecover, Steps
    <3>. QED  BY <3>1 DEF DispatchOK
  <2>4. CASE /\ ~(call[h].mode = "recover" /\ rec[call[h].order].attempt < h)
             /\ call[h].mode # "failed"
    BY <1>6, <2>4 DEF settleOrRecover, Answers
  <2>. QED  BY <2>2, <2>3, <2>4
<1>7. CASE rec' = rec /\ settleOrRecover(h)
  BY <1>1, <1>4, <1>6, <1>7, ProcessorKeeps
<1>8. ASSUME Settled(h, r),
             rec' = [rec EXCEPT ![call[h].order] =
                       [r EXCEPT !.state = Verdict(call[h].order), !.rev = @ + 1]],
             Consumed(h) \/ settleOrRecover(h)
      PROVE  IndInv' /\ PromiseStep
  <2>1. Answers(h) \/ (Goes(h) /\ DispatchOK(h)')
    BY <1>5, <1>6, <1>8 DEF Answers
  <2>. QED  BY <1>1, <1>4, <1>5, <1>8, <2>1, ProcessorKeeps
<1>. QED  BY <1>3, <1>7, <1>8 DEF settle, FencedWrite, LoadDispositionCommand

\* The journal changes at the command of the processor that writes it.
JournalStep(h, c) ==
  /\ effects' \in [Orders -> {0, 1}]
  /\ evidence' \in [Orders -> {"none", "applied", "refused", "not_applied"}]
  /\ late' \subseteq Orders
  /\ \A d \in Orders \ {c} :
       effects'[d] = effects[d] /\ evidence'[d] = evidence[d] /\ (d \in late' <=> d \in late)
  /\ rec[c].attempt # 0
  /\ evidence'[c] = "applied" => effects'[c] = 1
  /\ evidence'[c] \in {"refused", "not_applied"} => effects'[c] = 0
  /\ rec[c].state = "applied" => effects'[c] = 1
  /\ rec[c].state = "rejected" => effects'[c] = 0
  /\ c \in late' =>
       /\ opened = rec[c].attempt => rec[c].state = "applying" /\ evidence'[c] = "none"
       /\ \A d \in 1..(c - 1) : Terminal(d)
  /\ \A g \in Grants \ {h} :
       rec[c].attempt = g => opened # g /\ (c \in late' => c \in late)

\* Such a change keeps the invariant.
LEMMA JournalKeeps ==
  ASSUME IndInv, NEW h \in Grants, work[h].pass = "process", call[h].pc # "none",
         UNCHANGED <<accepted, rec, saved, host, opened>>, JournalStep(h, call[h].order),
         Answers(h) \/ (Goes(h) /\ DispatchOK(h)')
  PROVE  IndInv'
<1>1. call[h].order \in Orders
  BY AtCommand DEF IndInv
<1>2. /\ work' \in [Grants -> Consumer] /\ call' \in [Grants -> Call]
      /\ CursorInv' /\ PageInv' /\ CallInv'
      /\ \A g \in Grants \ {h} : call'[g] = call[g]
      /\ Answers(h) => call'[h].pc = "none"
  <2>1. \A d \in Orders : Terminal(d) => Terminal(d)'
    BY DEF Terminal
  <2>. QED  BY <2>1, ProcessorMoves DEF IndInv
<1>3. TypeOK' /\ HostInv'
  BY <1>2 DEF IndInv, TypeOK, HostInv, JournalStep
<1>4. RecordInv'
  <2>1. ASSUME NEW d \in Orders, d # call[h].order
        PROVE  /\ rec[d].attempt = 0 => effects'[d] = 0 /\ evidence'[d] = "none" /\ d \notin late'
               /\ evidence'[d] = "applied" => effects'[d] = 1
               /\ evidence'[d] \in {"refused", "not_applied"} => effects'[d] = 0
               /\ rec[d].state = "applied" => effects'[d] = 1
               /\ rec[d].state = "rejected" => effects'[d] = 0
    <3>1. effects'[d] = effects[d] /\ evidence'[d] = evidence[d] /\ (d \in late' <=> d \in late)
      BY <2>1 DEF JournalStep
    <3>. QED  BY <3>1 DEF IndInv, RecordInv, Untried
  <2>. QED  BY <1>1, <2>1, Zenon DEF IndInv, RecordInv, JournalStep, Untried
<1>5. LateInv'
  <2>1. ASSUME NEW d \in late'
        PROVE  /\ rec[d].attempt # 0
               /\ opened = rec[d].attempt => rec[d].state = "applying" /\ evidence'[d] = "none"
               /\ \A e \in 1..(d - 1) : Terminal(e)
    BY <2>1, <1>1 DEF IndInv, LateInv, JournalStep, OpenAttempt
  <2>. QED  BY <2>1 DEF LateInv, OpenAttempt, Terminal
<1>6. DispatchInv'
  <2>1. DispatchOK(h)'
    BY <1>2 DEF DispatchOK
  <2>2. ASSUME NEW g \in Grants \ {h}  PROVE DispatchOK(g)'
    <3>1. call'[g] = call[g] /\ DispatchOK(g)
      BY <1>2 DEF IndInv, DispatchInv
    <3>2. CASE call[g].pc \notin {"dispatch", "dispose", "settle", "close"}
      BY <3>1, <3>2, Zenon DEF DispatchOK
    <3>3. CASE call[g].pc \in {"dispatch", "dispose", "settle", "close"}
      <4>1. call[g].order \in Orders
        BY <3>3, AtCommand DEF IndInv
      <4>2. CASE call[g].order # call[h].order
        <5>1. /\ effects'[call[g].order] = effects[call[g].order]
              /\ evidence'[call[g].order] = evidence[call[g].order]
              /\ (call[g].order \in late' <=> call[g].order \in late)
          BY <4>1, <4>2 DEF JournalStep
        <5>. QED  BY <3>1, <3>3, <5>1 DEF DispatchOK, OpenAttempt
      <4>3. CASE call[g].order = call[h].order
        <5>1. rec[call[g].order].attempt = g =>
                opened # g /\ (call[g].order \in late' => call[g].order \in late)
          BY <4>3 DEF JournalStep
        <5>. QED  BY <3>1, <3>3, <5>1 DEF DispatchOK
      <4>. QED  BY <4>2, <4>3
    <3>. QED  BY <3>2, <3>3
  <2>. QED  BY <2>1, <2>2 DEF DispatchInv
<1>. QED  BY <1>2, <1>3, <1>4, <1>5, <1>6 DEF IndInv

\* What a processor about to dispatch or to record knows of its attempt.
LEMMA Dispatching ==
  ASSUME IndInv, NEW h \in Grants, call[h].pc \in {"dispatch", "dispose"}
  PROVE  /\ TypeOK /\ call[h].order \in Orders /\ h \in Nat \ {0}
         /\ rec[call[h].order].attempt = h /\ call[h].order \notin late
         /\ effects \in [Orders -> {0, 1}] /\ late \subseteq Orders
         /\ evidence \in [Orders -> {"none", "applied", "refused", "not_applied"}]
         /\ \A d \in 1..(call[h].order - 1) : Terminal(d)
         /\ opened = h => /\ rec[call[h].order].state = "applying"
                          /\ evidence[call[h].order] = "none"
                          /\ effects[call[h].order] = IF call[h].pc = "dispatch" THEN 0 ELSE 1
<1>1. /\ TypeOK /\ DispatchOK(h) /\ call[h].order \in Orders
      /\ \A d \in 1..(call[h].order - 1) : Terminal(d)
  BY AtCommand DEF IndInv, DispatchInv
<1>2. h \in Nat \ {0}
  BY StreamAssumption DEF Grants
<1>. QED  BY <1>1, <1>2 DEF DispatchOK, OpenAttempt, TypeOK

\* Running the effect keeps the invariant, and is the promise's Run.
LEMMA DispatchRunsKeeps ==
  ASSUME IndInv, NEW h \in Grants, DispatchRuns(h)
  PROVE  IndInv' /\ PromiseStep
<1>1. /\ work[h].pass = "process" /\ call[h].pc = "dispatch" /\ opened = h
      /\ UNCHANGED <<accepted, rec, saved, host, opened, evidence, late>>
  BY Zenon DEF DispatchRuns, At, Writes, LocalStep
<1>2. PICK c : c = call[h].order
  BY Zenon
<1>3. /\ TypeOK /\ c \in Orders /\ rec[c].attempt = h /\ h # 0 /\ c \notin late
      /\ effects \in [Orders -> {0, 1}] /\ late \subseteq Orders
      /\ evidence \in [Orders -> {"none", "applied", "refused", "not_applied"}]
      /\ rec[c].state = "applying" /\ evidence[c] = "none" /\ effects[c] = 0
      /\ \A d \in 1..(c - 1) : Terminal(d)
  BY <1>1, <1>2, Dispatching
<1>4. effects' = [effects EXCEPT ![c] = 1]
  BY <1>2, <1>3 DEF DispatchRuns
<1>5. JournalStep(h, c)
  BY <1>1, <1>3, <1>4 DEF JournalStep
<1>6. Goes(h) /\ call'[h].pc = "dispose"
  BY <1>3, ToGoes, Zenon DEF DispatchRuns, Steps
<1>7. DispatchOK(h)'
  BY <1>1, <1>2, <1>3, <1>4, <1>6, Zenon DEF DispatchOK, OpenAttempt, Goes
<1>8. Runs(c)
  <2>1. Told(c) = "open" /\ \A d \in Orders : Told(d)' = Told(d)
    BY <1>1, <1>3, Zenon DEF Told, Terminal, Final
  <2>2. ASSUME NEW d \in Orders, d < c  PROVE Told(d) # "open"
    <3>1. Terminal(d)
      BY <1>3, <2>2, StreamAssumption DEF Orders
    <3>. QED  BY <3>1, Zenon DEF Told, Terminal, Final
  <2>. QED  BY <1>3, <1>4, <2>1, <2>2, Zenon DEF Runs
<1>. QED  BY <1>1, <1>2, <1>3, <1>5, <1>6, <1>7, <1>8, JournalKeeps, Zenon DEF PromiseStep

\* A refusal keeps the invariant.
LEMMA DispatchRefusesKeeps ==
  ASSUME IndInv, NEW h \in Grants, DispatchRefuses(h)
  PROVE  IndInv' /\ PromiseStep
<1>1. /\ work[h].pass = "process" /\ call[h].pc = "dispatch" /\ opened = h
      /\ UNCHANGED <<accepted, rec, saved, host, opened, effects, late>>
  BY DEF DispatchRefuses, At, Writes, LocalStep
<1>2. PICK c : c = call[h].order
  BY Zenon
<1>3. /\ TypeOK /\ c \in Orders /\ rec[c].attempt = h /\ h # 0 /\ c \notin late
      /\ effects \in [Orders -> {0, 1}] /\ late \subseteq Orders
      /\ evidence \in [Orders -> {"none", "applied", "refused", "not_applied"}]
      /\ rec[c].state = "applying" /\ evidence[c] = "none" /\ effects[c] = 0
  BY <1>1, <1>2, Dispatching
<1>4. evidence' = [evidence EXCEPT ![c] = "refused"]
  BY <1>2 DEF DispatchRefuses
<1>5. JournalStep(h, c)
  BY <1>1, <1>3, <1>4 DEF JournalStep
<1>6. Goes(h) /\ call'[h].pc = "settle"
  BY <1>3, ToSettleGoes, Zenon DEF DispatchRefuses
<1>7. DispatchOK(h)'
  BY <1>1, <1>2, <1>3, <1>6 DEF DispatchOK, Goes
<1>. QED  BY <1>1, <1>2, <1>5, <1>6, <1>7, JournalKeeps, QuietStep

\* A call that fails keeps the invariant, left to finish late or not.
LEMMA DispatchFailsKeeps ==
  ASSUME IndInv, NEW h \in Grants, DispatchFails(h)
  PROVE  IndInv' /\ PromiseStep
<1>1. /\ work[h].pass = "process" /\ call[h].pc = "dispatch"
      /\ UNCHANGED <<accepted, rec, saved, host, opened, effects, evidence>>
  BY DEF DispatchFails, At, LocalStep
<1>2. PICK c : c = call[h].order
  BY Zenon
<1>3. /\ TypeOK /\ c \in Orders /\ rec[c].attempt = h /\ h # 0 /\ c \notin late
      /\ effects \in [Orders -> {0, 1}] /\ late \subseteq Orders
      /\ evidence \in [Orders -> {"none", "applied", "refused", "not_applied"}]
      /\ opened = h => rec[c].state = "applying" /\ evidence[c] = "none"
      /\ \A d \in 1..(c - 1) : Terminal(d)
  BY <1>1, <1>2, Dispatching
<1>4. Answers(h) \/ (Goes(h) /\ DispatchOK(h)')
  <2>1. CASE Blocked(h)
    BY <2>1 DEF Answers
  <2>2. ASSUME NEW prefix \in BOOLEAN, ToSettle(h, "failed", prefix)
        PROVE  Goes(h) /\ DispatchOK(h)'
    <3>1. Goes(h) /\ call'[h].pc = "settle"
      BY <1>3, <2>2, ToSettleGoes
    <3>. QED  BY <1>1, <1>2, <1>3, <3>1 DEF DispatchOK, Goes
  <2>. QED  BY <2>1, <2>2, Zenon DEF DispatchFails, classifyDispatch
<1>5. late' = late \/ (opened = h /\ late' = late \cup {c})
  BY <1>2, Zenon DEF DispatchFails, classifyDispatch, Writes
<1>6. JournalStep(h, c)
  <2>1. rec[c].state = "applied" => effects[c] = 1
    BY <1>3 DEF IndInv, RecordInv
  <2>2. rec[c].state = "rejected" => effects[c] = 0
    BY <1>3 DEF IndInv, RecordInv
  <2>3. /\ evidence[c] = "applied" => effects[c] = 1
        /\ evidence[c] \in {"refused", "not_applied"} => effects[c] = 0
    BY <1>3 DEF IndInv, RecordInv
  <2>4. CASE late' = late
    BY <1>1, <1>3, <2>1, <2>2, <2>3, <2>4 DEF JournalStep
  <2>5. CASE opened = h /\ late' = late \cup {c}
    BY <1>1, <1>3, <2>1, <2>2, <2>3, <2>5 DEF JournalStep
  <2>. QED  BY <1>5, <2>4, <2>5
<1>. QED  BY <1>1, <1>2, <1>4, <1>6, JournalKeeps, QuietStep, Zenon

\* Recording the effect, or failing to, keeps the invariant.
LEMMA DisposesKeeps ==
  ASSUME IndInv, NEW h \in Grants, Disposes(h)
  PROVE  IndInv' /\ PromiseStep
<1>1. /\ work[h].pass = "process" /\ call[h].pc = "dispose"
      /\ UNCHANGED <<accepted, rec, saved, host, opened, effects, late>>
  BY Zenon DEF Disposes, At, LocalStep
<1>2. PICK c : c = call[h].order
  BY Zenon
<1>3. /\ TypeOK /\ c \in Orders /\ rec[c].attempt = h /\ h # 0 /\ c \notin late
      /\ effects \in [Orders -> {0, 1}] /\ late \subseteq Orders
      /\ evidence \in [Orders -> {"none", "applied", "refused", "not_applied"}]
      /\ opened = h => rec[c].state = "applying" /\ evidence[c] = "none" /\ effects[c] = 1
  BY <1>1, <1>2, Dispatching
<1>4. /\ rec[c].state = "applied" => effects[c] = 1
      /\ rec[c].state = "rejected" => effects[c] = 0
      /\ evidence[c] = "applied" => effects[c] = 1
      /\ evidence[c] \in {"refused", "not_applied"} => effects[c] = 0
  BY <1>3 DEF IndInv, RecordInv
<1>5. evidence' = evidence \/ (opened = h /\ evidence' = [evidence EXCEPT ![c] = "applied"])
  BY <1>2, Zenon DEF Disposes, Writes
<1>6. JournalStep(h, c)
  <2>1. CASE evidence' = evidence
    BY <1>1, <1>3, <1>4, <2>1 DEF JournalStep
  <2>2. CASE opened = h /\ evidence' = [evidence EXCEPT ![c] = "applied"]
    BY <1>1, <1>3, <2>2 DEF JournalStep
  <2>. QED  BY <1>5, <2>1, <2>2
<1>7. Goes(h) /\ call'[h].pc = "settle"
  BY <1>3, ToSettleGoes, Zenon DEF Disposes
<1>8. DispatchOK(h)'
  BY <1>1, <1>2, <1>3, <1>7 DEF DispatchOK, Goes
<1>. QED  BY <1>1, <1>2, <1>6, <1>7, <1>8, JournalKeeps, QuietStep, Zenon

\* Closing an attempt keeps the invariant: its author is fenced out.
LEMMA CloseKeeps ==
  ASSUME IndInv, NEW h \in Grants, close(h)
  PROVE  IndInv' /\ PromiseStep
<1>1. /\ work[h].pass = "process" /\ call[h].pc = "close"
      /\ UNCHANGED <<accepted, rec, saved, host, opened, effects, late>>
  BY DEF close, At, LocalStep
<1>2. PICK c : c = call[h].order
  BY Zenon
<1>3. /\ TypeOK /\ c \in Orders /\ rec[c].attempt # 0 /\ rec[c].attempt < h
      /\ effects \in [Orders -> {0, 1}] /\ late \subseteq Orders
      /\ evidence \in [Orders -> {"none", "applied", "refused", "not_applied"}]
      /\ opened \in Nat /\ h \in Nat /\ rec[c].attempt \in Nat
  <2>1. TypeOK /\ c \in Orders /\ rec[c].attempt # 0 /\ rec[c].attempt < h
    BY <1>1, <1>2, AtCommand DEF IndInv, DispatchInv, DispatchOK
  <2>. QED  BY <2>1, StreamAssumption DEF TypeOK, Record, Grants
<1>4. /\ rec[c].state = "applied" => effects[c] = 1
      /\ rec[c].state = "rejected" => effects[c] = 0
      /\ evidence[c] = "applied" => effects[c] = 1
      /\ evidence[c] \in {"refused", "not_applied"} => effects[c] = 0
      /\ c \in late =>
           /\ opened = rec[c].attempt => rec[c].state = "applying" /\ evidence[c] = "none"
           /\ \A d \in 1..(c - 1) : Terminal(d)
  BY <1>3 DEF IndInv, RecordInv, LateInv, OpenAttempt
<1>5. CASE evidence' = evidence
  <2>1. Answers(h) \/ (Goes(h) /\ DispatchOK(h)')
    <3>1. CASE Blocked(h)
      BY <3>1 DEF Answers
    <3>2. CASE ToSettle(h, "last", FALSE)
      <4>1. Goes(h) /\ call'[h].pc = "settle"
        BY <1>3, <3>2, ToSettleGoes, Zenon
      <4>. QED  BY <1>1, <1>2, <1>3, <4>1 DEF DispatchOK, Goes
    <3>. QED  BY <3>1, <3>2, Zenon DEF close, closerOrNil
  <2>2. host' \in [Grants -> Host] /\ \A g \in Grants : host'[g].life = host[g].life
    BY <1>1, <1>3 DEF TypeOK
  <2>. QED  BY <1>1, <1>5, <2>1, <2>2, ProcessorKeeps, Zenon
<1>6. CASE /\ evidence[c] = "none" /\ effects[c] = 0 /\ opened = h
           /\ evidence' = [evidence EXCEPT ![c] = "not_applied"] /\ ToSettle(h, "last", FALSE)
  <2>1. Goes(h) /\ call'[h].pc = "settle"
    BY <1>3, <1>6, ToSettleGoes, Zenon
  <2>2. DispatchOK(h)'
    BY <1>1, <1>2, <1>3, <2>1 DEF DispatchOK, Goes
  <2>3. JournalStep(h, c)
    <3>1. /\ evidence'[c] = "not_applied" /\ (\A d \in Orders \ {c} : evidence'[d] = evidence[d])
          /\ evidence' \in [Orders -> {"none", "applied", "refused", "not_applied"}]
      BY <1>3, <1>6
    <3>2. /\ opened # rec[c].attempt
          /\ \A g \in Grants \ {h} : rec[c].attempt = g => opened # g
      BY <1>3, <1>6
    <3>. QED  BY <1>1, <1>3, <1>4, <1>6, <3>1, <3>2 DEF JournalStep
  <2>. QED  BY <1>1, <1>2, <2>1, <2>2, <2>3, JournalKeeps, QuietStep
<1>. QED  BY <1>2, <1>5, <1>6, Zenon DEF close, CloseAttempt, closerOrNil, Writes

\* A call that ends late keeps the invariant: its author still writes the
\* journal, so its attempt is open, and running the effect is the promise's Run.
LEMMA LateKeeps ==
  ASSUME IndInv, NEW c \in Orders, Late(c)
  PROVE  IndInv' /\ PromiseStep
<1>1. /\ c \in late /\ opened = rec[c].attempt
      /\ UNCHANGED <<accepted, rec, saved, host, work, call, opened>>
  BY DEF Late, Writes, streamVars
<1>2. /\ rec[c].state = "applying" /\ evidence[c] = "none" /\ rec[c].attempt # 0
      /\ \A d \in 1..(c - 1) : Terminal(d)
  BY <1>1 DEF IndInv, LateInv, OpenAttempt
<1>3. /\ effects \in [Orders -> {0, 1}] /\ late \subseteq Orders
      /\ evidence \in [Orders -> {"none", "applied", "refused", "not_applied"}]
  BY DEF IndInv, TypeOK
<1>4. \/ /\ effects[c] = 0 /\ effects' = [effects EXCEPT ![c] = 1]
         /\ evidence' = evidence /\ late' = late
      \/ /\ effects[c] = 1 /\ evidence' = [evidence EXCEPT ![c] = "applied"]
         /\ late' = late \ {c} /\ effects' = effects
  BY DEF Late
<1>5. /\ effects' \in [Orders -> {0, 1}] /\ late' \subseteq late /\ effects'[c] = 1
      /\ evidence' \in [Orders -> {"none", "applied", "refused", "not_applied"}]
      /\ evidence'[c] \in {"none", "applied"}
      /\ c \in late' => evidence'[c] = "none"
      /\ \A d \in Orders \ {c} : effects'[d] = effects[d] /\ evidence'[d] = evidence[d]
                                 /\ (d \in late' <=> d \in late)
  <2>1. CASE effects' = [effects EXCEPT ![c] = 1] /\ evidence' = evidence /\ late' = late
    BY <1>2, <1>3, <2>1
  <2>2. CASE /\ effects[c] = 1 /\ evidence' = [evidence EXCEPT ![c] = "applied"]
             /\ late' = late \ {c} /\ effects' = effects
    BY <1>3, <2>2
  <2>. QED  BY <1>4, <2>1, <2>2
<1>6. TypeOK' /\ HostInv'
  BY <1>1, <1>3, <1>5 DEF IndInv, TypeOK, HostInv
<1>7. CursorInv' /\ PageInv' /\ CallInv'
  BY <1>1 DEF IndInv, CursorInv, PageInv, CallInv, Terminal, PageFollows
<1>8. RecordInv'
  <2>1. ASSUME NEW d \in Orders, d # c
        PROVE  /\ rec[d].attempt = 0 => effects'[d] = 0 /\ evidence'[d] = "none" /\ d \notin late'
               /\ evidence'[d] = "applied" => effects'[d] = 1
               /\ evidence'[d] \in {"refused", "not_applied"} => effects'[d] = 0
               /\ rec[d].state = "applied" => effects'[d] = 1
               /\ rec[d].state = "rejected" => effects'[d] = 0
    BY <1>5, <2>1 DEF IndInv, RecordInv, Untried
  <2>. QED  BY <1>1, <1>2, <1>5, <2>1 DEF IndInv, RecordInv, Untried
<1>9. LateInv'
  <2>1. ASSUME NEW d \in late'
        PROVE  /\ rec[d].attempt # 0 /\ \A e \in 1..(d - 1) : Terminal(e)
               /\ opened = rec[d].attempt => rec[d].state = "applying" /\ evidence'[d] = "none"
    <3>1. /\ d \in late /\ d \in Orders /\ rec[d].attempt # 0
          /\ \A e \in 1..(d - 1) : Terminal(e)
          /\ opened = rec[d].attempt => rec[d].state = "applying" /\ evidence[d] = "none"
      BY <1>3, <1>5 DEF IndInv, LateInv, OpenAttempt
    <3>. QED  BY <1>5, <3>1
  <2>. QED  BY <1>1, <2>1 DEF LateInv, OpenAttempt, Terminal
<1>10. DispatchInv'
  <2>1. ASSUME NEW g \in Grants  PROVE DispatchOK(g)'
    <3>1. DispatchOK(g) /\ (call[g].pc \in {"dispatch", "dispose"} => call[g].order \in Orders)
      BY AtCommand DEF IndInv, DispatchInv
    <3>. QED  BY <1>1, <1>5, <3>1 DEF DispatchOK, OpenAttempt
  <2>. QED  BY <2>1 DEF DispatchInv
<1>11. PromiseStep
  <2>1. CASE effects' = effects
    BY <1>1, <2>1, QuietStep
  <2>2. CASE effects[c] = 0 /\ effects' = [effects EXCEPT ![c] = 1]
    <3>1. Told(c) = "open" /\ \A d \in Orders : Told(d)' = Told(d)
      BY <1>1, <1>2 DEF Told, Terminal, Final
    <3>2. ASSUME NEW d \in Orders, d < c  PROVE Told(d) # "open"
      <4>1. Terminal(d)
        BY <1>2, <3>2, StreamAssumption DEF Orders
      <4>. QED  BY <4>1 DEF Told, Terminal, Final
    <3>. QED  BY <2>2, <3>1, <3>2, Zenon DEF Runs, PromiseStep
  <2>. QED  BY <1>4, <2>1, <2>2
<1>. QED  BY <1>6, <1>7, <1>8, <1>9, <1>10, <1>11 DEF IndInv

-----------------------------------------------------------------------------
(* The theorems.                                                               *)

\* The invariant holds at the start.
LEMMA InitHolds == Init => IndInv
<1>. SUFFICES ASSUME Init PROVE IndInv
  OBVIOUS
<1>1. /\ accepted \in 0..LastOrder /\ opened = 0 /\ saved = [order |-> 0, epoch |-> 0]
      /\ rec = [c \in Orders |-> Fresh] /\ host = [h \in Grants |-> NewHost]
      /\ work = [h \in Grants |-> NewConsumer] /\ call = [h \in Grants |-> NoCall]
      /\ effects = [c \in Orders |-> 0] /\ evidence = [c \in Orders |-> "none"] /\ late = {}
      /\ LastOrder \in Nat /\ LastGrant \in Nat
  BY StreamAssumption DEF Init, StreamInit
<1>2. NewHost \in Host /\ NewHost.life = "none"
  BY DEF NewHost, Host
<1>3. saved \in [order : Nat, epoch : Nat] /\ saved.order = 0
  BY <1>1
<1>4. TypeOK
  BY <1>1, <1>2, <1>3, Empties DEF TypeOK
<1>5. HostInv
  BY <1>1, <1>2 DEF HostInv, Grants
<1>6. CursorInv
  <2>1. \A h \in Grants : work[h].cursor = 0 /\ work[h].consumed = 0
    BY <1>1 DEF NewConsumer
  <2>. QED  BY <1>1, <1>3, <2>1 DEF CursorInv
<1>7. PageInv /\ CallInv /\ DispatchInv
  BY <1>1 DEF PageInv, CallInv, DispatchInv, DispatchOK, NewConsumer, NoCall
<1>8. RecordInv /\ LateInv
  <2>1. \A c \in Orders : /\ rec[c].attempt = 0 /\ rec[c].state = "pending"
                            /\ effects[c] = 0 /\ evidence[c] = "none"
    BY <1>1 DEF Fresh
  <2>2. opened = 0 /\ late = {}
    BY <1>1
  <2>3. LateInv
    BY <2>2 DEF LateInv
  <2>4. RecordInv
    BY <2>1, <2>2 DEF RecordInv, Untried
  <2>. QED  BY <2>3, <2>4
<1>. QED  BY <1>4, <1>5, <1>6, <1>7, <1>8 DEF IndInv

\* Every step keeps it, and is a step of the promise.
LEMMA NextKeeps ==
  ASSUME IndInv, Next
  PROVE  IndInv' /\ PromiseStep
<1>1. CASE StreamNext /\ UNCHANGED journalVars
  <2>1. CASE Accept
    BY <1>1, <2>1, AcceptKeeps
  <2>2. ASSUME NEW c \in Orders, Lapse(c) \/ Expire(c) \/ Sweep(c)
        PROVE  IndInv' /\ PromiseStep
    BY <1>1, <2>2, TimeKeeps
  <2>3. ASSUME NEW h \in Grants,
               \/ beginWork(h) \/ LoseLease(h) \/ Leave(h) \/ MarkGates(h)
               \/ Run(h) \/ List(h) \/ Examine(h) \/ SaveCursor(h)
        PROVE  IndInv' /\ PromiseStep
    BY <1>1, <2>3, BeginWorkKeeps, HostKeeps, RunKeeps, ListKeeps, ExamineKeeps, SaveCursorKeeps
  <2>. QED  BY <1>1, <2>1, <2>2, <2>3 DEF StreamNext
<1>2. ASSUME NEW h \in Grants, ProcessorNext(h)  PROVE IndInv' /\ PromiseStep
  BY <1>2, ProcessKeeps, ClaimKeeps, AuthorizeKeeps, RejectKeeps, BeginAttemptKeeps,
     DispatchRunsKeeps, DispatchRefusesKeeps, DispatchFailsKeeps, DisposesKeeps, SettleKeeps,
     AfterFailedDispatchKeeps, CloseKeeps DEF ProcessorNext
<1>3. ASSUME NEW h \in Grants, giveUp(h)  PROVE IndInv' /\ PromiseStep
  <2>1. UNCHANGED journalVars
    BY <1>3 DEF giveUp
  <2>. QED  BY <1>3, <2>1, HostKeeps
<1>4. ASSUME NEW c \in Orders, Late(c)  PROVE IndInv' /\ PromiseStep
  BY <1>4, LateKeeps
<1>. QED  BY <1>1, <1>2, <1>3, <1>4 DEF Next

\* A step that changes nothing keeps it too.
LEMMA StutterKeeps ==
  ASSUME IndInv, UNCHANGED vars
  PROVE  IndInv' /\ PromiseStep
<1>1. UNCHANGED <<accepted, rec, saved, host, work, call, opened, effects, evidence, late>>
  BY DEF vars, streamVars, journalVars
<1>2. TypeOK' /\ HostInv' /\ CursorInv' /\ PageInv' /\ CallInv'
  BY <1>1, Zenon DEF IndInv, TypeOK, HostInv, CursorInv, PageInv, PageFollows, CallInv, Terminal
<1>3. RecordInv' /\ LateInv'
  BY <1>1 DEF IndInv, RecordInv, Untried, LateInv, OpenAttempt, Terminal
<1>4. DispatchInv'
  BY <1>1, Zenon DEF IndInv, DispatchInv, DispatchOK, OpenAttempt
<1>. QED  BY <1>1, <1>2, <1>3, <1>4, QuietStep DEF IndInv

\* The inductive invariant of the command path, for any number of residencies,
\* commands and mishaps: no cursor, page or call passes an unsettled command,
\* and record, journal and effect agree on every attempt.
THEOREM Inductive == Spec => []IndInv
<1>1. IndInv /\ [Next]_vars => IndInv'
  BY NextKeeps, StutterKeeps
<1>. QED  BY InitHolds, <1>1, PTL DEF Spec

\* CursorCoversSettled: no durable cursor passes a command that is not settled,
\* and no consumer's cursor the durable one.
THEOREM CursorsCoverSettled == Spec => []CursorCoversSettled
<1>1. IndInv => CursorCoversSettled
  BY DEF IndInv, CursorInv, CursorCoversSettled
<1>. QED  BY Inductive, <1>1, PTL

\* ClosesOnlyEarlier: an attempt is closed as never applied only under a
\* residency later than its author's.
THEOREM ClosuresAreLater == Spec => ClosesOnlyEarlier
<1>1. ASSUME IndInv, Next, NEW c \in Orders,
             evidence'[c] = "not_applied", evidence[c] # "not_applied"
      PROVE  rec[c].attempt < opened
  <2>1. evidence \in [Orders -> {"none", "applied", "refused", "not_applied"}]
    BY <1>1 DEF IndInv, TypeOK
  <2>2. PICK h \in Grants : close(h)
    <3>1. evidence' # evidence
      BY <1>1
    <3>2. ~(StreamNext /\ UNCHANGED journalVars) /\ \A h \in Grants : ~giveUp(h)
      BY <3>1 DEF journalVars, giveUp
    <3>3. \A d \in Orders : ~Late(d)
      BY <1>1, <2>1 DEF Late
    <3>4. ASSUME NEW h \in Grants, ProcessorNext(h)  PROVE close(h)
      <4>1. ~DispatchRefuses(h) /\ ~Disposes(h)
        BY <1>1, <2>1, Zenon DEF DispatchRefuses, Disposes
      <4>2. /\ ~Process(h) /\ ~claimThenDispatch(h) /\ ~authorize(h) /\ ~reject(h)
            /\ ~BeginAttempt(h) /\ ~settle(h)
        BY <3>1, Zenon DEF Process, claimThenDispatch, authorize, reject, BeginAttempt, settle,
           journalVars
      <4>3. ~DispatchRuns(h) /\ ~DispatchFails(h) /\ ~afterFailedDispatch(h)
        BY <3>1, Zenon DEF DispatchRuns, DispatchFails, afterFailedDispatch
      <4>. QED  BY <3>4, <4>1, <4>2, <4>3 DEF ProcessorNext
    <3>. QED  BY <1>1, <3>2, <3>3, <3>4 DEF Next
  <2>3. /\ opened = h /\ evidence' = [evidence EXCEPT ![call[h].order] = "not_applied"]
        /\ call[h].pc = "close"
    BY <1>1, <2>2, Zenon DEF close, CloseAttempt, closerOrNil, Writes, At
  <2>4. c = call[h].order
    BY <1>1, <2>1, <2>3
  <2>. QED  BY <1>1, <2>3, <2>4, Zenon DEF IndInv, DispatchInv, DispatchOK
<1>2. IndInv /\ [Next]_vars =>
        [\A c \in Orders : evidence'[c] = "not_applied" /\ evidence[c] # "not_applied"
                            => rec[c].attempt < opened]_vars
  BY <1>1
<1>. QED  BY Inductive, <1>2, PTL DEF Spec, ClosesOnlyEarlier

\* KeepsPromise: the command path refines CommandPromise.  A command runs at
\* most once, in acceptance order, and is settled once, as applied exactly when
\* it ran, whatever Hosts crash, lose the session or overlap.
THEOREM Refines == Spec => KeepsPromise
<1>. DEFINE told == [c \in Orders |-> IF Terminal(c) THEN rec[c].state ELSE "open"]
<1>1. Init => Promise!Init
  BY DEF Init, StreamInit, Promise!Init, Promise!Orders, Orders, Terminal, Final, Fresh
<1>2. IndInv /\ PromiseStep => [Promise!Next]_(Promise!vars)
  <2>. SUFFICES ASSUME IndInv, PromiseStep PROVE [Promise!Next]_(Promise!vars)
    OBVIOUS
  <2>1. CASE Quiet
    <3>1. told' = told /\ effects' = effects
      BY <2>1 DEF Quiet, Told, Terminal
    <3>. QED  BY <3>1 DEF Promise!vars
  <2>2. ASSUME NEW c \in Orders, Runs(c)  PROVE Promise!Run(c)
    BY <2>2 DEF Runs, Told, Terminal, Promise!Run, Promise!Orders, Orders
  <2>3. ASSUME NEW c \in Orders, Settles(c)  PROVE Promise!Settle(c)
    BY <2>3, Zenon DEF Settles, Told, Terminal, Promise!Settle, Promise!Orders, Orders
  <2>. QED  BY <2>1, <2>2, <2>3 DEF PromiseStep, Promise!Next, Promise!Orders, Orders
<1>3. IndInv /\ [Next]_vars => [Promise!Next]_(Promise!vars)
  BY <1>2, NextKeeps, StutterKeeps
<1>. QED  BY Inductive, <1>1, <1>3, PTL DEF Spec, KeepsPromise, Promise!Spec
=============================================================================
