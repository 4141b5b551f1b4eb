------------------------------- MODULE Gates -------------------------------
(***************************************************************************)
(* The gate publisher (internal/gates): one goroutine for each residency   *)
(* of a session.  It folds the runtime's journal into the set of open      *)
(* gates and converges the durable gate projection on that set.  A hint    *)
(* from the committed stream only says that the journal moved.             *)
(*                                                                         *)
(* Residencies follow one another, and the publisher of an earlier grant   *)
(* may still be running, cancelled or not, when a later one starts.  The   *)
(* store keeps, beside the projection, the residency mark: the highest     *)
(* grant that has written a gate.  It refuses a write under a lower one.   *)
(***************************************************************************)
EXTENDS Naturals, FiniteSets, Sequences

CONSTANTS
  Gate,         \* gate identities; the runtime opens and resolves each once
  LastGrant,    \* how many residencies the session has, one after another
  Capacity,     \* how many gates the projection holds (16 in the store)
  MaxMishaps    \* how many failures, lost answers and lost subscriptions

ASSUME GatesAssumption ==
  LastGrant \in Nat \ {0} /\ Capacity \in Nat /\ MaxMishaps \in Nat

VARIABLES
  journal,      \* the runtime's gate events, in ledger order
  projection,   \* the gates the durable projection holds open
  mark,         \* the residency mark: the highest grant that wrote a gate
  grant,        \* the newest residency; 0 before the first
  pub,          \* pub[e]: the publisher of grant e
  mishaps       \* failures so far

vars == <<journal, projection, mark, grant, pub, mishaps>>

Grants == 1 .. LastGrant
Events == [op : {"opened", "resolved"}, gate : Gate]
Ready  == {"fence", "fold"}

\* A publisher as Start makes it.  first is the step its next pass begins
\* with: the fence, until it is written.
Fresh ==
  [at |-> "absent", hints |-> "none", hinted |-> FALSE, cancelled |-> FALSE,
   first |-> "fence", open |-> {}, next |-> 1, dirty |-> TRUE, dead |-> {},
   toResolve |-> {}, toOpen |-> {}, failed |-> FALSE, retry |-> FALSE]

Init ==
  /\ journal = <<>>
  /\ projection = {}
  /\ mark = 0
  /\ grant = 0
  /\ pub = [e \in Grants |-> Fresh]
  /\ mishaps = 0

Mishap == mishaps < MaxMishaps /\ mishaps' = mishaps + 1
Fine   == UNCHANGED mishaps

\* A call may fail at no charge once its context is cancelled.
CallFails(e) == (pub[e].cancelled /\ Fine) \/ Mishap

-----------------------------------------------------------------------------
(* The runtime and its journal. *)

OpenedAt(g) == {n \in 1 .. Len(journal) : journal[n] = [op |-> "opened", gate |-> g]}
IsOpened(g) == OpenedAt(g) # {}
IsResolved(g) == \E n \in 1 .. Len(journal) : journal[n] = [op |-> "resolved", gate |-> g]
HeldOpen == {g \in Gate : IsOpened(g) /\ ~IsResolved(g)}

\* The newest residency's runtime journals a gate event and hints every live
\* subscription to it; an earlier residency's subscription hears nothing.
Journal ==
  /\ grant > 0
  /\ \E g \in Gate, op \in {"opened", "resolved"} :
       /\ IF op = "opened" THEN ~IsOpened(g) ELSE g \in HeldOpen
       /\ journal' = Append(journal, [op |-> op, gate |-> g])
  /\ pub' = [pub EXCEPT ![grant].hinted = @ \/ pub[grant].hints = "live"]
  /\ UNCHANGED <<projection, mark, grant>> /\ Fine

\* The committed-output pump stops: it overflowed, or its runtime is gone.
\* What it had queued is still to be received.
LoseHints(e) ==
  /\ pub[e].hints = "live"
  /\ Mishap
  /\ pub' = [pub EXCEPT ![e].hints = "closed"]
  /\ UNCHANGED <<journal, projection, mark, grant>>

-----------------------------------------------------------------------------
(* A publisher's life. *)

\* beginWork starts the publisher of a residency under its own grant.
Start ==
  /\ grant < LastGrant
  /\ grant' = grant + 1
  /\ pub' = [pub EXCEPT ![grant + 1].at = "subscribe"]
  /\ UNCHANGED <<journal, projection, mark>> /\ Fine

\* Stop cancels, and waits only for a bound: the goroutine may outlive it.
\* The last residency is not stopped.
Stop(e) ==
  /\ e < LastGrant
  /\ pub[e].at \notin {"absent", "done"} /\ ~pub[e].cancelled
  /\ pub' = [pub EXCEPT ![e].cancelled = TRUE]
  /\ UNCHANGED <<journal, projection, mark, grant>> /\ Fine

\* Publisher e takes a step that leaves the store alone.
Goes(e, p) ==
  /\ pub' = [pub EXCEPT ![e] = p]
  /\ UNCHANGED <<journal, projection, mark, grant>>

\* The goroutine has returned, and its fold with it.
Returned(p) == [Fresh EXCEPT !.at = "done", !.cancelled = p.cancelled]

\* The publisher in run's select, its pass over: a pass that fails under a
\* cancelled context returns, and the retry timer is armed after a failed
\* pass and while there is no subscription.
Selects(p, failed) ==
  IF failed /\ p.cancelled
  THEN Returned(p)
  ELSE [p EXCEPT !.at = "wait", !.retry = failed \/ p.hints = "none",
                 !.failed = FALSE, !.toResolve = {}, !.toOpen = {}]

\* The top of run's loop: subscribe unless subscribed, then begin the pass.
Loops(p) == [p EXCEPT !.at = IF p.hints = "none" THEN "subscribe" ELSE p.first, !.retry = FALSE]

subscribe(e) ==
  /\ pub[e].at = "subscribe"
  /\ \/ Goes(e, [pub[e] EXCEPT !.at = pub[e].first, !.hints = "live"]) /\ Fine
     \/ Goes(e, [pub[e] EXCEPT !.at = pub[e].first]) /\ CallFails(e)

-----------------------------------------------------------------------------
(* Writes to the projection. *)

\* A gate write under grant e that the store accepts raises the mark.
Writes(e, gates) == mark' = e /\ projection' = gates

Superseded(e) == mark > e

\* classifyGateWrite's ErrEpochSuperseded: the publisher stops for good.
StopsForGood(e) ==
  /\ Superseded(e)
  /\ pub' = [pub EXCEPT ![e] = Returned(@)]
  /\ UNCHANGED <<journal, projection, mark, grant>> /\ Fine

\* A write that fails has taken effect or not.
WriteFails(e, gates) ==
  /\ ~Superseded(e)
  /\ CallFails(e)
  /\ Writes(e, gates) \/ UNCHANGED <<projection, mark>>
  /\ UNCHANGED <<journal, grant>>

-----------------------------------------------------------------------------
(* pass: fence, fold, converge. *)

\* A read of the catalog fails, and the pass with it: Scope's, made once
\* and before the fence, or Projected's.
ReadFails(e) ==
  /\ pub[e].at \in {"fence", "read"}
  /\ CallFails(e)
  /\ Goes(e, Selects(pub[e], TRUE))

\* mutant of fence: the fence is a note to itself, and no write
FencesLocally(e) ==
  /\ pub[e].at = "fence"
  /\ Goes(e, [pub[e] EXCEPT !.at = "fold", !.first = "fold"]) /\ Fine

\* The fence resolves a gate no runtime mints, for the mark alone.
fence(e) ==
  /\ pub[e].at = "fence"
  /\ \/ StopsForGood(e)
     \/ /\ ~Superseded(e)
        /\ Writes(e, projection)
        /\ pub' = [pub EXCEPT ![e].at = "fold", ![e].first = "fold"]
        /\ UNCHANGED <<journal, grant>> /\ Fine
     \/ /\ WriteFails(e, projection)
        /\ pub' = [pub EXCEPT ![e] = Selects(@, TRUE)]

\* The publisher after its replay has visited every event up to one.
Folded(p, upTo) ==
  LET read == p.next .. upTo
      gone == {g \in Gate : \E n \in read : journal[n] = [op |-> "resolved", gate |-> g]}
      new  == {g \in Gate : \E n \in read : journal[n] = [op |-> "opened", gate |-> g]}
  IN  [p EXCEPT !.open = (@ \union new) \ gone, !.next = upTo + 1, !.dirty = @ \/ read # {}]

\* A replay that fails keeps what it visited.  A clean pass ends here.
fold(e) ==
  /\ pub[e].at = "fold"
  /\ \/ LET p == Folded(pub[e], Len(journal))
        IN  Goes(e, IF p.dirty THEN [p EXCEPT !.at = "read"] ELSE Selects(p, FALSE)) /\ Fine
     \/ /\ CallFails(e)
        /\ \E n \in pub[e].next - 1 .. Len(journal) : Goes(e, Selects(Folded(pub[e], n), TRUE))

\* mutant of Onward: the opens run before the resolves
OpensFirst(p) ==
  CASE p.toOpen # {}    -> [p EXCEPT !.at = "open"]
    [] p.toOpen = {} /\ p.toResolve # {} -> [p EXCEPT !.at = "resolve"]
    [] OTHER            -> Selects([p EXCEPT !.dirty = p.failed], p.failed)

\* What converge does next: the resolves, then the opens, then it answers;
\* a pass with no failure has converged and is no longer dirty.
Onward(p) ==
  CASE p.toResolve # {} -> [p EXCEPT !.at = "resolve"]
    [] p.toResolve = {} /\ p.toOpen # {} -> [p EXCEPT !.at = "open"]
    [] OTHER            -> Selects([p EXCEPT !.dirty = p.failed], p.failed)

\* converge compares one read of the projection with the fold by identity.
convergeReads(e) ==
  /\ pub[e].at = "read"
  /\ Goes(e, Onward([pub[e] EXCEPT !.toResolve = projection \ pub[e].open,
                                   !.toOpen = (pub[e].open \ projection) \ pub[e].dead]))
  /\ Fine

resolves(e) ==
  /\ pub[e].at = "resolve"
  /\ \E g \in pub[e].toResolve :
       LET p == [pub[e] EXCEPT !.toResolve = @ \ {g}]
       IN  \/ StopsForGood(e)
           \/ /\ ~Superseded(e)
              /\ Writes(e, projection \ {g})
              /\ pub' = [pub EXCEPT ![e] = Onward(p)]
              /\ UNCHANGED <<journal, grant>> /\ Fine
           \/ /\ WriteFails(e, projection \ {g})
              /\ pub' = [pub EXCEPT ![e] = Onward([p EXCEPT !.failed = TRUE])]

\* The pending gate that the journal opened first.
Oldest(gates) ==
  CHOOSE g \in gates : \A h \in gates : \E n \in OpenedAt(g) : \A k \in OpenedAt(h) : n <= k

Full(g) == g \notin projection /\ Cardinality(projection) >= Capacity

\* Open is answered superseded, done, full, never, or with another failure.
\* Full is no failure, and a gate that can never be projected is set aside.
opens(e) ==
  /\ pub[e].at = "open"
  /\ LET g == Oldest(pub[e].toOpen)
         p == [pub[e] EXCEPT !.toOpen = @ \ {g}]
     IN  \/ StopsForGood(e)
         \/ /\ ~Superseded(e) /\ ~Full(g)
            /\ Writes(e, projection \union {g})
            /\ pub' = [pub EXCEPT ![e] = Onward(p)]
            /\ UNCHANGED <<journal, grant>> /\ Fine
         \/ /\ ~Superseded(e) /\ Full(g)
            /\ Goes(e, Onward(p)) /\ Fine
         \/ /\ ~Superseded(e)
            /\ Mishap
            /\ Goes(e, Onward([p EXCEPT !.dead = @ \union {g}]))
         \/ /\ WriteFails(e, IF Full(g) THEN projection ELSE projection \union {g})
            /\ pub' = [pub EXCEPT ![e] = Onward([p EXCEPT !.failed = TRUE])]

-----------------------------------------------------------------------------
(* run's select: the retry timer, a hint, the end of the hints, the end. *)

\* mutant of retries: the timer runs only for a failed pass
RetriesSubscribed(e) ==
  /\ pub[e].at = "wait" /\ pub[e].retry /\ pub[e].hints # "none"
  /\ Goes(e, Loops(pub[e])) /\ Fine

retries(e) ==
  /\ pub[e].at = "wait" /\ pub[e].retry
  /\ Goes(e, Loops(pub[e])) /\ Fine

\* A hint, and with drainHints every other one already waiting.
takesHint(e) ==
  /\ pub[e].at = "wait" /\ pub[e].hinted
  /\ Goes(e, Loops([pub[e] EXCEPT !.hinted = FALSE])) /\ Fine

\* The hints are closed: forget them, wait Retry, and start over.
hintsEnd(e) ==
  /\ pub[e].at = "wait" /\ pub[e].hints = "closed" /\ ~pub[e].hinted
  /\ Goes(e, [pub[e] EXCEPT !.hints = "none", !.retry = TRUE]) /\ Fine

returns(e) ==
  /\ pub[e].at = "wait" /\ pub[e].cancelled
  /\ Goes(e, Returned(pub[e])) /\ Fine

\* One turn of the goroutine, in run's order.
run(e) ==
  \/ subscribe(e) \/ fence(e) \/ fold(e)
  \/ convergeReads(e) \/ resolves(e) \/ opens(e) \/ ReadFails(e)
  \/ retries(e) \/ takesHint(e) \/ hintsEnd(e) \/ returns(e)

Next ==
  \/ Journal \/ Start
  \/ \E e \in Grants : LoseHints(e) \/ Stop(e) \/ run(e)

Spec == Init /\ [][Next]_vars

\* The scheduler runs a goroutine that can run, a timer fires, a store call
\* returns.  Nothing obliges the runtime to open, resolve or hint.
FairSpec == Spec /\ \A e \in Grants : WF_vars(run(e))

=============================================================================
