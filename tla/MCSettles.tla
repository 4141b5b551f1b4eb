------------------------------ MODULE MCSettles ------------------------------
EXTENDS Disposition

\* A command stays unsettled only where the code says it must: its attempt ran
\* an effect the journal does not account for, or its author is still there.
Stuck(c) ==
  /\ rec[c].state = "applying" /\ evidence[c] = "none"
  /\ effects[c] > 0 \/ Up(rec[c].attempt)

Serving(h) == Up(h) /\ Held(h)

\* While the session's last Host keeps serving it, every accepted command is
\* settled or waits behind one that is stuck.
Settles ==
  <>[]Serving(LastGrant) =>
    \A c \in Orders : (accepted >= c) ~> (Terminal(c) \/ \E d \in 1..c : Stuck(d))

\* A dispatch that failed with its attempt unsettled, and that no gate keeps,
\* ends with this Host giving the session up, so that a successor may close
\* the attempt.
StrandedIsGivenUp ==
  \A h \in Grants : (At(h, "failed") /\ ~KeptByGate(h)) ~> ~Up(h)
=============================================================================
