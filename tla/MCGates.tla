------------------------------ MODULE MCGates ------------------------------
(***************************************************************************)
(* What the gate publisher promises, and the instance TLC checks it on.    *)
(***************************************************************************)
EXTENDS Gates

\* The newest publisher has nothing left to do: it sits in its select with a
\* live subscription, no hint waiting and no timer running.
Idle(e) ==
  /\ e = grant /\ ~pub[e].cancelled
  /\ pub[e].at = "wait" /\ pub[e].hints = "live"
  /\ ~pub[e].hinted /\ ~pub[e].retry

\* Every gate the journal holds open is projected, or cannot be: the store
\* will never take it, or every slot is taken by another open gate.  Nothing
\* else is projected.
Matches(e) ==
  /\ projection \subseteq HeldOpen
  /\ HeldOpen \subseteq projection \union pub[e].dead \/ Cardinality(projection) >= Capacity

\* A publisher that waits for nothing but the next hint has left nothing
\* undone.  No event fell between its fold and its subscription, no failed
\* pass was forgotten, a gate that found the projection full took the slot
\* that was freed since, and no predecessor has written behind its back
\* (gates.go run, pass and converge).
IdleMatchesJournal == \A e \in Grants : Idle(e) => Matches(e)

\* Once a residency's fence is written, no earlier publisher's write changes
\* the projection, however late it lands (gates.go pass, the fence).
FencedIsExclusive ==
  [][\A e \in Grants :
       (pub[e].first = "fold" /\ projection' # projection) =>
         \A d \in 1 .. e - 1 : pub'[d] = pub[d]]_vars

\* The journal and the projection differ only for a while: lost hints, failed
\* passes, lost answers and a predecessor that is still writing only delay
\* their agreement, unless the publisher is stopped (gates.go run).
ProjectionConverges ==
  []<>(grant = 0 \/ pub[grant].cancelled \/ Matches(grant))

=============================================================================
