--------------------------- MODULE TeardownPromise ---------------------------
(* What one residency's runtime teardown promises its callers, whatever the   *)
(* number of callers and however they interleave: the runtime has at most one *)
(* teardown call at a time, it ends at most once, and from the moment an      *)
(* abandon is wanted no graceful release is started any more.                 *)
(* Teardown.tla, the translation of compose/teardown.go, implements it.       *)

VARIABLES
    outcome,    \* "live" until the teardown ends, then how it ended, for good
    call,       \* the runtime call in progress
    wanted      \* an abandon was asked for and has not ended

vars == <<outcome, call, wanted>>

Init ==
    /\ outcome = "live"
    /\ call = "none"
    /\ wanted = FALSE

StartGraceful ==
    /\ outcome = "live" /\ call = "none" /\ ~wanted
    /\ call' = "graceful"
    /\ UNCHANGED <<outcome, wanted>>

StartAbandon ==
    /\ outcome = "live" /\ call = "none"
    /\ call' = "abandon"
    /\ wanted' = TRUE
    /\ UNCHANGED outcome

\* An abandon asked for while a graceful call runs is remembered.
WantAbandon ==
    /\ call = "graceful"
    /\ wanted' = TRUE
    /\ UNCHANGED <<outcome, call>>

\* The graceful call was refused with the runtime still live.
Refused ==
    /\ call = "graceful"
    /\ call' = IF wanted THEN "abandon" ELSE "none"
    /\ UNCHANGED <<outcome, wanted>>

Ended(how) ==
    /\ call # "none"
    /\ outcome' = how
    /\ call' = "none"
    /\ wanted' = FALSE

Next ==
    \/ StartGraceful
    \/ StartAbandon
    \/ WantAbandon
    \/ Refused
    \/ \E how \in {"released", "failed"} : Ended(how)

Spec == Init /\ [][Next]_vars
==============================================================================
