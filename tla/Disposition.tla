----------------------------- MODULE Disposition -----------------------------
(* The processor a Host composes: the DispositionApplier.  A command is       *)
(* claimed, one attempt on it is authorized, the runtime is called once and   *)
(* records in its own journal what became of it, and the record is settled    *)
(* from that evidence.  A command whose attempt has no evidence yet is        *)
(* settled by whoever finds it, and an attempt of an earlier residency that   *)
(* never reached an effect is closed in the journal first.                    *)
EXTENDS CommandStream

CONSTANT GateResponses    \* orders that answer a gate

VARIABLES
  effects,     \* how many times the runtime ran each command's effect
  evidence,    \* the journal's terminal frame of each command's attempt
  late,        \* commands whose call failed while the runtime still works on them
  stranded     \* residencies that reported an attempt they cannot settle

journalVars == <<effects, evidence, late, stranded>>
vars == <<streamVars, journalVars>>

Init ==
  /\ StreamInit
  /\ effects = [c \in Orders |-> 0]
  /\ evidence = [c \in Orders |-> "none"]
  /\ late = {} /\ stranded = {}

\* The runtime of a residency writes its journal until a later one opens it;
\* it may report its lease as held for some time after that.
Writes(h) == opened = h
MayReportLost(h) == ~Writes(h)

\* A Host that reported a stranded attempt gives the session up.
giveUp(h) ==
  /\ Up(h) /\ h \in stranded
  /\ host' = [host EXCEPT ![h].life = "gone"]
  /\ UNCHANGED <<accepted, rec, saved, work, call, opened, gateMark, mishaps, journalVars>>

-----------------------------------------------------------------------------

\* The record of the command at hand.
LoadDispositionCommand(h) == rec[call[h].order]

Seen(h, pc, r) == Calls(h, [call[h] EXCEPT !.pc = pc, !.rev = r.rev])

\* mutant of Recovers: an attempt found on the record is dispatched again
DispatchesAgain(h, r) == Calls(h, [call[h] EXCEPT !.pc = "dispatch", !.rev = r.rev])

Recovers(h, r) ==
  Calls(h, [call[h] EXCEPT !.pc = "settle", !.rev = r.rev, !.mode = "recover"])

OwnLiveClaim(h, r) == r.state = "claimed" /\ r.epoch = h /\ r.live

\* The record cannot be read, or is not the one the page listed.
checkDispositionRecord(h) == Mishap /\ Blocked(h)

\* Process reads the record: settled is reported, an attempt is settled or
\* recovered, the residency's own live claim is resumed, and anything else is
\* claimed.
Process(h) ==
  /\ At(h, "load")
  /\ LET r == LoadDispositionCommand(h) IN
     \/ /\ UNCHANGED mishaps
        /\ \/ r.state \in Final /\ Consumed(h)
           \/ r.state = "applying" /\ Recovers(h, r)
           \/ r.state = "applying" /\ MayReportLost(h) /\ Blocked(h)
           \/ OwnLiveClaim(h, r) /\ Seen(h, "check", r)
           \/ r.state \in {"pending", "claimed"} /\ ~OwnLiveClaim(h, r) /\ Seen(h, "claim", r)
     \/ checkDispositionRecord(h)
  /\ LocalStep /\ UNCHANGED journalVars

\* The store's claim edge: no attempt yet, before the deadline, at the
\* revision read, and never for a residency older than the claim's.
ClaimAdmitted(h, r) ==
  r.state \in {"pending", "claimed"} /\ ~r.due /\ r.rev = call[h].rev /\ r.epoch <= h

claimThenDispatch(h) ==
  /\ At(h, "claim")
  /\ LET r == LoadDispositionCommand(h) IN
     FencedWrite(h, ClaimAdmitted(h, r), r.epoch > h,
       [r EXCEPT !.state = "claimed", !.rev = @ + 1, !.epoch = h, !.live = TRUE],
       Calls(h, [call[h] EXCEPT !.pc = "check", !.rev = r.rev + 1]),
       Blocked(h))
  /\ UNCHANGED journalVars

\* The body is loaded only now that the command is claimed, which may fail.
LoadDispositionPayload(h) == Mishap /\ Blocked(h)

\* A body kept as an object is read back: a store that fails leaves the claim
\* for a later pass, an object that is gone or wrong for good is rejected.
dereference(h) == Mishap /\ (Blocked(h) \/ To(h, "reject"))

\* The body is decoded and bound: a malformed one is rejected, one that this
\* Host cannot read is left to a newer Host.
checkBody(h) == Mishap /\ (Blocked(h) \/ To(h, "reject"))

\* A gate answer waits until this residency has published the gates it holds.
checkGateResponse(h) == call[h].order \in GateResponses => gateMark = h

authorize(h) ==
  /\ At(h, "check")
  /\ \/ /\ UNCHANGED mishaps
        /\ \/ checkGateResponse(h) /\ To(h, "begin")
           \/ (~checkGateResponse(h) \/ MayReportLost(h)) /\ Blocked(h)
     \/ LoadDispositionPayload(h) \/ dereference(h) \/ checkBody(h)
  /\ LocalStep /\ UNCHANGED journalVars

\* The store's edges out of a claim are for the holder of a live one, at the
\* claim's own residency and the revision it read.
HoldsClaim(h, r) == OwnLiveClaim(h, r) /\ r.rev = call[h].rev

RejectAdmitted(h, r) == HoldsClaim(h, r) /\ r.attempt = 0

AttemptAdmitted(h, r) == HoldsClaim(h, r)

reject(h) ==
  /\ At(h, "reject")
  /\ LET r == LoadDispositionCommand(h) IN
     FencedWrite(h, RejectAdmitted(h, r), r.epoch > h,
       [r EXCEPT !.state = "rejected", !.rev = @ + 1], Consumed(h), Blocked(h))
  /\ UNCHANGED journalVars

\* The attempt is durable before the runtime is called; from here on nothing
\* asks whether the claim has lapsed.
BeginAttempt(h) ==
  /\ At(h, "begin")
  /\ LET r == LoadDispositionCommand(h) IN
     FencedWrite(h, AttemptAdmitted(h, r), r.epoch > h,
       [r EXCEPT !.state = "applying", !.rev = @ + 1, !.live = FALSE, !.attempt = h],
       Calls(h, [call[h] EXCEPT !.pc = "dispatch", !.rev = r.rev + 1]),
       Blocked(h))
  /\ UNCHANGED journalVars

ToSettle(h, mode, prefix) ==
  Calls(h, [call[h] EXCEPT !.pc = "settle", !.mode = mode,
                           !.prefix = prefix /\ call[h].order \in GateResponses])

\* The runtime runs the effect and goes on to record it.
DispatchRuns(h) ==
  /\ At(h, "dispatch") /\ Writes(h)
  /\ effects' = [effects EXCEPT ![call[h].order] = @ + 1]
  /\ To(h, "dispose")
  /\ LocalStep /\ UNCHANGED <<mishaps, evidence, late, stranded>>

\* The runtime refuses the command and records that, and its answer is the
\* disposition or an error.
DispatchRefuses(h) ==
  /\ At(h, "dispatch") /\ Writes(h) /\ Mishap
  /\ evidence' = [evidence EXCEPT ![call[h].order] = "refused"]
  /\ \E mode \in {"first", "failed"} : ToSettle(h, mode, FALSE)
  /\ LocalStep /\ UNCHANGED <<effects, late, stranded>>

\* The command never gets to the runtime's applier: the runtime is fenced out,
\* or the command does not translate.
admit(h) == Mishap \/ (~Writes(h) /\ UNCHANGED mishaps)

\* The runtime's applier fails before any effect, with or without a frame that
\* names the attempt.
classifyDispatch(h) ==
  Writes(h) /\ Mishap /\ \E prefix \in BOOLEAN : ToSettle(h, "failed", prefix)

\* The call fails, or the runtime supports no dispositions; a call that ran
\* out of time may have left the runtime at work.
DispatchFails(h) ==
  /\ At(h, "dispatch")
  /\ \/ classifyDispatch(h) /\ late' \in {late, late \cup {call[h].order}}
     \/ Writes(h) /\ Mishap /\ Blocked(h) /\ UNCHANGED late
     \/ admit(h) /\ ToSettle(h, "failed", FALSE) /\ UNCHANGED late
  /\ LocalStep /\ UNCHANGED <<effects, evidence, stranded>>

\* The runtime comes to the end of a call nobody waits for any more.
Late(c) ==
  /\ c \in late /\ Up(rec[c].attempt) /\ Writes(rec[c].attempt)
  /\ \/ effects[c] = 0 /\ effects' = [effects EXCEPT ![c] = 1] /\ UNCHANGED <<evidence, late>>
     \/ /\ effects[c] = 1 /\ evidence' = [evidence EXCEPT ![c] = "applied"]
        /\ late' = late \ {c} /\ UNCHANGED effects
  /\ UNCHANGED <<streamVars, stranded>>

\* The runtime records the effect it ran, or fails to.
Disposes(h) ==
  /\ At(h, "dispose")
  /\ \/ /\ Writes(h) /\ UNCHANGED mishaps
        /\ evidence' = [evidence EXCEPT ![call[h].order] = "applied"]
        /\ ToSettle(h, "first", TRUE)
     \/ /\ Mishap \/ (~Writes(h) /\ UNCHANGED mishaps)
        /\ UNCHANGED evidence /\ ToSettle(h, "failed", TRUE)
  /\ LocalStep /\ UNCHANGED <<effects, late, stranded>>

Verdict(c) == IF evidence[c] = "applied" THEN "applied" ELSE "rejected"

\* The record is settled from what the journal holds, at the revision read.
Settled(h, r) ==
  r.state = "applying" /\ r.rev = call[h].rev /\ evidence[call[h].order] # "none"

\* mutant of settleOrRecover: any recovered attempt is closed, its own author's included
ClosesAnyAttempt(h) ==
  CASE call[h].mode = "recover" -> To(h, "close")
    [] call[h].mode = "failed" -> To(h, "failed")
    [] OTHER -> Blocked(h)

\* mutant of settleOrRecover: no attempt is closed
NeverCloses(h) == IF call[h].mode = "failed" THEN To(h, "failed") ELSE Blocked(h)

\* What an attempt that could not be settled leads to: a recovered attempt of
\* an earlier residency is closed, a failed dispatch is reported, and anything
\* else is left to the next pass.
settleOrRecover(h) ==
  CASE call[h].mode = "recover" /\ rec[call[h].order].attempt < h -> To(h, "close")
    [] call[h].mode = "failed" -> To(h, "failed")
    [] OTHER -> Blocked(h)

settle(h) ==
  /\ At(h, "settle")
  /\ LET r == LoadDispositionCommand(h) IN
     FencedWrite(h, Settled(h, r), FALSE,
       [r EXCEPT !.state = Verdict(call[h].order), !.rev = @ + 1],
       Consumed(h), settleOrRecover(h))
  /\ UNCHANGED journalVars

\* A dispatch that failed with nothing settled strands the attempt: this
\* residency may not close its own.  A gate answer the journal already names
\* is left to the gate's owner.
KeptByGate(h) == call[h].prefix

\* mutant of afterFailedDispatch: a failed dispatch is left to the next pass without a report
ReportsNothing(h) ==
  /\ At(h, "failed") /\ Blocked(h)
  /\ LocalStep /\ UNCHANGED <<mishaps, journalVars>>

afterFailedDispatch(h) ==
  /\ At(h, "failed")
  /\ stranded' = IF KeptByGate(h) THEN stranded ELSE stranded \cup {h}
  /\ Blocked(h)
  /\ LocalStep /\ UNCHANGED <<mishaps, effects, evidence, late>>

\* The journal's writer closes an attempt that has no frame and no effect: it
\* was never applied.  A frame that is already there is answered as it is.
CloseAttempt(h, c) ==
  \/ /\ evidence[c] = "none" /\ effects[c] = 0 /\ Writes(h)
     /\ evidence' = [evidence EXCEPT ![c] = "not_applied"]
  \/ evidence[c] # "none" /\ UNCHANGED evidence

\* The closure is refused for good where an effect is in the journal, and for
\* now where the caller no longer writes it.
classifyClosure(h, c) == evidence[c] = "none" /\ (effects[c] > 0 \/ ~Writes(h))

\* The runtime offers no closure, or the call fails.
closerOrNil(h) == Mishap /\ Blocked(h) /\ UNCHANGED evidence

close(h) ==
  /\ At(h, "close")
  /\ LET c == call[h].order IN
     \/ CloseAttempt(h, c) /\ ToSettle(h, "last", FALSE) /\ UNCHANGED mishaps
     \/ classifyClosure(h, c) /\ Blocked(h) /\ UNCHANGED <<evidence, mishaps>>
     \/ closerOrNil(h)
  /\ LocalStep /\ UNCHANGED <<effects, late, stranded>>

ProcessorNext(h) ==
  \/ Process(h) \/ claimThenDispatch(h) \/ authorize(h) \/ reject(h) \/ BeginAttempt(h)
  \/ DispatchRuns(h) \/ DispatchRefuses(h) \/ DispatchFails(h) \/ Disposes(h)
  \/ settle(h) \/ afterFailedDispatch(h) \/ close(h)

Next ==
  \/ StreamNext /\ UNCHANGED journalVars
  \/ \E h \in Grants : ProcessorNext(h) \/ giveUp(h)
  \/ \E c \in Orders : Late(c)

Spec == Init /\ [][Next]_vars

\* What the goroutine of one consumer does.
Consumes(h) ==
  \/ (Run(h) \/ List(h) \/ Examine(h) \/ SaveCursor(h)) /\ UNCHANGED journalVars
  \/ ProcessorNext(h)

\* A Host's goroutines are scheduled, the runtime answers, a session without a
\* Host is placed again, a stranded session is given up, and Factory sweeps
\* what expired.
Fair ==
  /\ \A c \in Orders : WF_vars((Sweep(c) \/ Lapse(c)) /\ UNCHANGED journalVars)
  /\ \A h \in Grants :
       /\ WF_vars(beginWork(h) /\ UNCHANGED journalVars)
       /\ WF_vars(Consumes(h))
       /\ WF_vars(MarkGates(h) /\ UNCHANGED journalVars)
       /\ WF_vars(giveUp(h))

LiveSpec == Spec /\ Fair

-----------------------------------------------------------------------------
(* Properties.                                                                *)

\* Whatever Hosts crash, lose the session or overlap, a command runs at most
\* once, in acceptance order, and is settled once, as applied exactly when it
\* ran.
Promise == INSTANCE CommandPromise
  WITH verdict <- [c \in Orders |-> IF Terminal(c) THEN rec[c].state ELSE "open"]

KeepsPromise == Promise!Spec

\* The durable cursor, which only a fenced save moves, never passes a command
\* that is not settled, nor does the cursor a consumer keeps in memory pass
\* the durable one: no pass skips a command.
CursorCoversSettled ==
  /\ \A c \in 1..saved.order : Terminal(c)
  /\ \A h \in Grants : work[h].cursor <= saved.order

\* An attempt is closed as never applied only under a residency later than
\* the one that authorized it, whose runtime the journal has fenced out.
ClosesOnlyEarlier ==
  [][\A c \in Orders : evidence'[c] = "not_applied" /\ evidence[c] # "not_applied"
                        => rec[c].attempt < opened]_vars
=============================================================================
