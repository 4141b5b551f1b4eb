------------------------------ MODULE Admission ------------------------------
(***************************************************************************)
(* The ledger and the registry under the callers that compete for them:    *)
(* attaches (internal/residency/manager.go), the paths that end a          *)
(* residency (internal/residency/warm.go, internal/compose/session.go) and *)
(* the drain.  Several sessions, each attached, ended and attached again.  *)
(*                                                                         *)
(* An attach of a session holds the session's key slot from its first step *)
(* to its last, so a key has at most one.  Nothing serialises it with the  *)
(* END of the session's previous residency, which removes the registry     *)
(* entry (from when a new attach may start) before it credits the charge.  *)
(***************************************************************************)
EXTENDS AdmissionLedger, FiniteSetsExt

VARIABLES attach,   \* the step the attach in flight for a key has reached
          mine,     \* the generation that attach installed, 0 before it does
          ending,   \* <<key, generation>> of removed residencies, still to credit
          rows      \* the advertisement last derived

vars == <<entries, issued, admitted, consumed, ledgerDraining, attach, mine, ending, rows>>

AttachSteps == {"idle", "admitted", "inserted", "bound", "begun", "unwinding"}

Init == /\ RegistryInit
        /\ LedgerInit
        /\ attach = [k \in Keys |-> "idle"]
        /\ mine = [k \in Keys |-> 0]
        /\ ending = {}
        /\ rows = Publish

-----------------------------------------------------------------------------
To(k, step) == attach' = [attach EXCEPT ![k] = step]

\* Attach takes the key slot, finds no live residency and is admitted.
AttachAdmits(k, agent) ==
    /\ attach[k] = "idle"
    /\ entries[k] = NoEntry
    /\ Admit(k, agent)
    /\ To(k, "admitted")
    /\ UNCHANGED <<registryVars, mine, ending, rows>>

\* Step 5, the registry winner.
AttachInserts(k, g) ==
    /\ attach[k] = "admitted"
    /\ Insert(k, g)
    /\ mine' = [mine EXCEPT ![k] = g]
    /\ To(k, "inserted")
    /\ UNCHANGED <<ledgerVars, ending, rows>>

\* The charge is bound to the installed generation.
AttachBinds(k) ==
    /\ attach[k] = "inserted"
    /\ Own(k, mine[k])
    /\ To(k, "bound")
    /\ UNCHANGED <<registryVars, mine, ending, rows>>

\* Step 7: ownership exists, and with it every path that can end the residency.
AttachBeginsOwnership(k) ==
    /\ attach[k] = "bound"
    /\ To(k, "begun")
    /\ UNCHANGED <<registryVars, ledgerVars, mine, ending, rows>>

\* Step 8 is over, or the residency was ended under it: the slot is free.
AttachReturns(k) ==
    /\ attach[k] = "begun"
    /\ To(k, "idle")
    /\ mine' = [mine EXCEPT ![k] = 0]
    /\ UNCHANGED <<registryVars, ledgerVars, ending, rows>>

\* A failure between the insertion and step 7 removes the entry ...
RollbackRemoves(k) ==
    /\ attach[k] \in {"inserted", "bound"}
    /\ RemoveByGeneration(k, mine[k])
    /\ To(k, "unwinding")
    /\ UNCHANGED <<ledgerVars, mine, ending, rows>>

\* ... and, last of its compensations, credits the charge by key alone.
RollbackCredits(k) ==
    /\ attach[k] \in {"admitted", "unwinding"}
    /\ ReleaseCharge(k)
    /\ To(k, "idle")
    /\ mine' = [mine EXCEPT ![k] = 0]
    /\ UNCHANGED <<registryVars, ending, rows>>

\* A residency is ended by its warm release, its lost grant, its stranded
\* runtime or its attach's rollback: the entry goes first ...
EndRemoves(k, g) ==
    /\ attach[k] \in {"idle", "begun"}
    /\ RemoveByGeneration(k, g)
    /\ ending' = ending \cup {<<k, g>>}
    /\ UNCHANGED <<ledgerVars, attach, mine, rows>>

\* ... and the charge is credited after the lease has been handed back.
EndCredits(k, g) ==
    /\ <<k, g>> \in ending
    /\ ReleaseOwned(k, g)
    /\ ending' = ending \ {<<k, g>>}
    /\ UNCHANGED <<registryVars, attach, mine, rows>>

\* A drain's release removes the entry and credits nothing.
DrainRemoves(k, g) ==
    /\ ledgerDraining
    /\ attach[k] \in {"idle", "begun"}
    /\ RemoveByGeneration(k, g)
    /\ UNCHANGED <<ledgerVars, attach, mine, ending, rows>>

StartDrain ==
    /\ ~ledgerDraining
    /\ BeginDrain
    /\ UNCHANGED <<registryVars, attach, mine, ending, rows>>

\* The advertisement heartbeat derives the rows again.
Beat == /\ rows' = Publish
        /\ rows' # rows
        /\ UNCHANGED <<registryVars, ledgerVars, attach, mine, ending>>

Next == \/ StartDrain
        \/ Beat
        \/ \E k \in Keys :
             \/ \E agent \in Agents : AttachAdmits(k, agent)
             \/ \E g \in Generations : \/ AttachInserts(k, g)
                                       \/ EndRemoves(k, g)
                                       \/ EndCredits(k, g)
                                       \/ DrainRemoves(k, g)
             \/ AttachBinds(k)
             \/ AttachBeginsOwnership(k)
             \/ AttachReturns(k)
             \/ RollbackRemoves(k)
             \/ RollbackCredits(k)

Spec == Init /\ [][Next]_vars

-----------------------------------------------------------------------------
\* The values the registry, the ledger and the attaches take.
TypeOK == /\ RegistryTypes
          /\ LedgerTypes
          /\ attach \in [Keys -> AttachSteps]
          /\ mine \in [Keys -> Generations \cup {0}]
          /\ ending \subseteq Keys \X Generations
          /\ DOMAIN rows = Agents

\* The Host never charges more than its capacity: capacity - consumed, which
\* Admit and Publish compute unsigned, does not wrap.
NeverOverAdmitted == consumed <= Capacity

\* Booked finding B2: a session the registry holds is charged, and the charge is
\* its own generation's, although the end of an earlier residency of the same
\* session may credit at any time.
ResidentIsCharged ==
    \A k \in Keys : entries[k] # NoEntry /\ attach[k] # "inserted"
                        => OwnedBy(k, entries[k].generation)

\* The rollback of an attach that never began ownership credits by key alone
\* (manager.go: the "admission" compensation), and the binding at step 5 may be
\* refused: neither can meet another residency's charge, or none.
AttachHoldsItsCharge ==
    \A k \in Keys : attach[k] \in {"admitted", "inserted", "bound", "unwinding"}
                        => Ownable(k, mine[k])

\* A charge is never forgotten while the Host admits: an attach in flight, a
\* resident session or an end that has still to credit it holds it.
ChargesAreHeld ==
    \A k \in Keys : Charged(k) /\ ~ledgerDraining =>
        \/ attach[k] \notin {"idle", "begun"}
        \/ entries[k] # NoEntry
        \/ \E g \in Generations : <<k, g>> \in ending /\ OwnedBy(k, g)

\* Without cross-tenant isolation the charged sessions are of one tenant (H8).
OneTenant ==
    CrossTenantIsolated \/ \A j, k \in Keys : Charged(j) /\ Charged(k) => TenantOf[j] = TenantOf[k]

\* What Publish offers is what Admit accepts: a row with room is a session
\* admitted, a row without is one refused, for as long as the ledger is as read.
\* A placement page orders rows by rank: more room never ranks lower, although
\* the rank is narrower than the capacity (rankOf saturates).
OffersAreAdmissible ==
    /\ rows = Publish =>
         \A k \in Keys, agent \in Agents : ~Charged(k) /\ ~ForeignTenant(k) =>
             (rows[agent].available > 0 <=> Admissible(k, agent))
    /\ \A a, b \in Agents : rows[a].available <= rows[b].available => rows[a].rank <= rows[b].rank

=============================================================================
