----------------------------- MODULE Application -----------------------------
(* The processor of the legacy inbox: the Applier.  It settles a command on   *)
(* what the session journal proves: a prefix that names the command is        *)
(* appended before the runtime is called, and the event of its effect, or an  *)
(* opening fence in its place, is what a later reader finds after it.         *)
EXTENDS CommandStream

CONSTANT GateResponses    \* orders that answer a gate

VARIABLES
  effects,     \* how many effect events of each command the journal holds
  late,        \* commands whose call failed while the runtime still works on them
  prefix       \* the epoch of each command's prefix in the journal, 0 if none

journalVars == <<effects, late, prefix>>
vars == <<streamVars, journalVars>>

Init ==
  /\ StreamInit
  /\ effects = [c \in Orders |-> 0]
  /\ late = {} /\ prefix = [c \in Orders |-> 0]

\* What the journal proves of a command: its prefix is followed by the effect,
\* by a later opening fence, or by nothing yet.
FindApplication(c) ==
  CASE prefix[c] = 0 -> "absent"
    [] prefix[c] # 0 /\ effects[c] > 0 -> "committed"
    [] prefix[c] # 0 /\ effects[c] = 0 /\ opened > prefix[c] -> "abandoned"
    [] OTHER -> "unresolved"

fences(epoch) == opened > epoch

provesNoEffect(c) == FindApplication(c) \in {"absent", "abandoned"}

-----------------------------------------------------------------------------

\* The record of the command at hand.
LoadCommand(h) == rec[call[h].order]

\* Process reads the record, and in a second call the journal.
Process(h) ==
  /\ At(h, "load")
  /\ LET r == LoadCommand(h) IN
     \/ /\ UNCHANGED mishaps
        /\ \/ r.state \in Final /\ Consumed(h)
           \/ r.state \notin Final
              /\ Calls(h, [call[h] EXCEPT !.pc = "plan", !.rev = r.rev, !.seen = r])
     \/ Mishap /\ Blocked(h)
  /\ LocalStep /\ UNCHANGED journalVars

\* A later epoch has claimed the record, fenced the stream or begun to apply.
StaleEpoch(h, c, r) == r.epoch > h \/ fences(h) \/ prefix[c] > h

\* What an applying record with no committed effect leads to.
planApplying(h, c, r) ==
  CASE FindApplication(c) = "unresolved" -> "refuse"
    [] FindApplication(c) # "unresolved" /\ r.epoch = h -> "drive"
    [] FindApplication(c) # "unresolved" /\ r.epoch # h /\ fences(r.epoch) -> "reject"
    [] OTHER -> "refuse"

\* What a record that is not settled leads to, given what the journal proves:
\* ownership first, then a committed effect, then a live claim.
plan(h, c, r) ==
  CASE StaleEpoch(h, c, r) -> "refuse"
    [] FindApplication(c) = "committed" ->
         IF r.state = "applying" THEN "complete" ELSE "refuse"
    [] r.live /\ r.epoch # h -> "refuse"
    [] r.state = "applying" -> planApplying(h, c, r)
    [] r.live -> "apply"
    [] r.due -> "refuse"
    [] OTHER -> "claim"

Plans(h) ==
  /\ At(h, "plan")
  /\ LET c == call[h].order
         step == plan(h, c, call[h].seen)
     IN \/ UNCHANGED mishaps /\ step = "refuse" /\ Blocked(h)
        \/ UNCHANGED mishaps /\ step # "refuse" /\ To(h, step)
        \/ Mishap /\ Blocked(h)
  /\ LocalStep /\ UNCHANGED journalVars

\* The store's claim edge: before the deadline, from no live claim of the same
\* epoch and none of a later one, at the revision read.
ClaimAdmitted(h, r) ==
  /\ r.state \in {"pending", "claimed"} /\ ~r.due /\ r.rev = call[h].rev
  /\ r.epoch < h \/ (r.epoch = h /\ ~r.live)

claimThenApply(h) ==
  /\ At(h, "claim")
  /\ LET r == LoadCommand(h) IN
     FencedWrite(h, ClaimAdmitted(h, r), r.epoch > h,
       [r EXCEPT !.state = "claimed", !.rev = @ + 1, !.epoch = h, !.live = TRUE],
       Calls(h, [call[h] EXCEPT !.pc = "apply", !.rev = r.rev + 1]), Blocked(h))
  /\ UNCHANGED journalVars

\* The payload is read only now that the command is claimed, which may fail.
LoadPayload(h) == Mishap /\ Blocked(h)

\* An answer to a gate this residency does not hold open is rejected.
gateResumable(h) == call[h].order \in GateResponses => gateMark = h

apply(h) ==
  /\ At(h, "apply")
  /\ \/ UNCHANGED mishaps /\ gateResumable(h) /\ To(h, "begin")
     \/ UNCHANGED mishaps /\ ~gateResumable(h) /\ To(h, "reject")
     \/ LoadPayload(h)
  /\ LocalStep /\ UNCHANGED journalVars

\* The store's edge into applying is for the holder of a live claim.
ApplyingAdmitted(h, r) ==
  r.state = "claimed" /\ r.rev = call[h].rev /\ r.epoch = h /\ r.live

BeginApplying(h) ==
  /\ At(h, "begin")
  /\ LET r == LoadCommand(h) IN
     FencedWrite(h, ApplyingAdmitted(h, r), r.epoch > h,
       [r EXCEPT !.state = "applying", !.rev = @ + 1],
       Calls(h, [call[h] EXCEPT !.pc = "prefix", !.rev = r.rev + 1]), Blocked(h))
  /\ UNCHANGED journalVars

\* An applying record this epoch began, with no prefix, is driven again.
drive(h) ==
  /\ At(h, "drive")
  /\ \/ UNCHANGED mishaps /\ To(h, "prefix")
     \/ LoadPayload(h)
  /\ LocalStep /\ UNCHANGED journalVars

\* The fenced append of the prefix: the journal takes it from the writer that
\* opened it last, and a refusal closes the fence.
AppendApplicationPrefix(h) ==
  /\ At(h, "prefix")
  /\ LET c == call[h].order IN
     \/ /\ Held(h) /\ opened = h
        /\ prefix' = [prefix EXCEPT ![c] = h] /\ UNCHANGED host
        /\ (To(h, "run") /\ UNCHANGED mishaps) \/ (Mishap /\ Blocked(h))
     \/ /\ Held(h) /\ opened # h
        /\ host' = [host EXCEPT ![h].ended = TRUE]
        /\ Blocked(h) /\ UNCHANGED <<prefix, mishaps>>
     \/ Held(h) /\ Mishap /\ Blocked(h) /\ UNCHANGED <<host, prefix>>
     \/ ~Held(h) /\ Blocked(h) /\ UNCHANGED <<host, prefix, mishaps>>
  /\ UNCHANGED <<accepted, rec, saved, opened, gateMark, effects, late>>

\* The fence is asked once more, and the runtime is called: it commits the
\* effect, and may still answer with an error, or fails, always so once it is
\* fenced out, or answers with nothing committed.  A call that ran out of time
\* may have left the runtime at work.
driveWithPayload(h) ==
  /\ At(h, "run")
  /\ LET c == call[h].order IN
     \/ /\ Held(h) /\ opened = h
        /\ effects' = [effects EXCEPT ![c] = @ + 1] /\ UNCHANGED late
        /\ (To(h, "readback") /\ UNCHANGED mishaps) \/ (Mishap /\ Blocked(h))
     \/ /\ Held(h) /\ opened = h /\ Mishap /\ UNCHANGED effects
        /\ \/ Blocked(h) /\ late' \in {late, late \cup {c}}
           \/ To(h, "readback") /\ UNCHANGED late
     \/ (~Held(h) \/ opened # h) /\ Blocked(h) /\ UNCHANGED <<effects, late, mishaps>>
  /\ LocalStep /\ UNCHANGED prefix

\* The runtime comes to the end of a call nobody waits for any more.
Late(c) ==
  /\ c \in late /\ Up(prefix[c]) /\ opened = prefix[c]
  /\ effects' = [effects EXCEPT ![c] = @ + 1]
  /\ late' = late \ {c}
  /\ UNCHANGED <<streamVars, prefix>>

\* The evidence is read back from the journal.
ReadBack(h) ==
  /\ At(h, "readback")
  /\ LET found == FindApplication(call[h].order) IN
     \/ UNCHANGED mishaps /\ found = "committed" /\ To(h, "complete")
     \/ UNCHANGED mishaps /\ found # "committed" /\ Blocked(h)
     \/ Mishap /\ Blocked(h)
  /\ LocalStep /\ UNCHANGED journalVars

\* mutant of NotCompleted: any failed completion counts its command consumed
AlwaysOwned(h) == Consumed(h)

\* A completion that failed is passed over in silence only when the grant is
\* gone: the same fence then refuses the cursor.
NotCompleted(h) == IF Held(h)' THEN Blocked(h) ELSE Consumed(h)

\* The store's edge out of applying, for the same epoch or a later one.
CompletionAdmitted(h, r) == r.state = "applying" /\ r.rev = call[h].rev /\ r.epoch <= h

complete(h) ==
  /\ At(h, "complete")
  /\ LET r == LoadCommand(h) IN
     FencedWrite(h, CompletionAdmitted(h, r), r.epoch > h,
       [r EXCEPT !.state = "applied", !.rev = @ + 1], Consumed(h), NotCompleted(h))
  /\ UNCHANGED journalVars

\* The store's reject edge: the journal proves no effect, and an applying
\* record goes only to a later epoch that has fenced its writer out.
RejectAdmitted(h, r) ==
  /\ r.state \in {"pending", "claimed", "applying"} /\ r.rev = call[h].rev /\ r.epoch <= h
  /\ provesNoEffect(call[h].order)
  /\ r.state = "applying" => r.epoch < h /\ fences(r.epoch)

reject(h) ==
  /\ At(h, "reject")
  /\ LET r == LoadCommand(h) IN
     FencedWrite(h, RejectAdmitted(h, r), r.epoch > h,
       [r EXCEPT !.state = "rejected", !.rev = @ + 1], Consumed(h), Blocked(h))
  /\ UNCHANGED journalVars

ProcessorNext(h) ==
  \/ Process(h) \/ Plans(h) \/ claimThenApply(h) \/ apply(h) \/ BeginApplying(h)
  \/ drive(h) \/ AppendApplicationPrefix(h) \/ driveWithPayload(h) \/ ReadBack(h)
  \/ complete(h) \/ reject(h)

Next ==
  \/ StreamNext /\ UNCHANGED journalVars
  \/ \E h \in Grants : ProcessorNext(h)
  \/ \E c \in Orders : Late(c)

Spec == Init /\ [][Next]_vars
=============================================================================
