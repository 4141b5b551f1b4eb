--------------------------- MODULE AdmissionLedger ---------------------------
(***************************************************************************)
(* The admission ledger and its derived advertisement, CapacityPublisher   *)
(* of internal/service/capacity.go.                                        *)
(*                                                                         *)
(* A Host charges the weight of a launch target for every session it       *)
(* admits.  A charge is keyed by session, and belongs to nobody (owner 0)  *)
(* until the residency generation that installs the session claims it with *)
(* Own.  A repeated Admit of a charged session takes the charge away from  *)
(* the residency that is ending and hands it to the attach in flight.      *)
(***************************************************************************)
EXTENDS Registry, Integers

CONSTANTS TenantOf,      \* the tenant of a session key
          Agents,        \* the agents the Department registers a target for
          AdmissionWeight, \* the admission weight of an agent's target
          PlacementSupported, \* the agents whose target runs under this placement
          Capacity,      \* Host.Capacity
          CrossTenantIsolated, \* the isolation class admits several tenants
          MaxInt64       \* the largest rank the directory can order

ASSUME LedgerConstants ==
    /\ AdmissionWeight \in [Agents -> Nat \ {0}]
    /\ PlacementSupported \subseteq Agents
    /\ Capacity \in Nat
    /\ MaxInt64 \in Nat
    /\ CrossTenantIsolated \in BOOLEAN

VARIABLES admitted,      \* CapacityPublisher.admitted, NoCharge where it has none
          consumed,      \* CapacityPublisher.consumed
          ledgerDraining \* CapacityPublisher.draining

ledgerVars == <<admitted, consumed, ledgerDraining>>

-----------------------------------------------------------------------------
NoCharge == [weight |-> 0, owner |-> 0]

Charge == [agent : Agents, weight : Nat \ {0}, owner : Generations \cup {0}]

LedgerInit == /\ admitted = [k \in Keys |-> NoCharge]
              /\ consumed = 0
              /\ ledgerDraining = FALSE

Charged(k) == admitted[k] # NoCharge

\* A Host without cross-tenant isolation serves the tenant it has admitted.
ForeignTenant(k) == /\ ~CrossTenantIsolated
                    /\ \E other \in Keys : Charged(other) /\ TenantOf[other] # TenantOf[k]

\* mutant of Fits: what is already charged is left out
FitsEmptyHost(agent) == AdmissionWeight[agent] <= Capacity

Fits(agent) == AdmissionWeight[agent] <= Capacity - consumed

\* The ladder of Admit for a session that holds no charge yet.
Admissible(k, agent) == /\ ~ledgerDraining
                        /\ ~ForeignTenant(k)
                        /\ agent \in PlacementSupported
                        /\ Fits(agent)

\* The repeated Admit: one charge, now of no residency.
Claim(k) == /\ admitted' = [admitted EXCEPT ![k].owner = 0]
            /\ UNCHANGED <<consumed, ledgerDraining>>

Admit(k, agent) ==
    \/ /\ Charged(k)
       /\ admitted[k].agent = agent
       /\ Claim(k)
    \/ /\ ~Charged(k)
       /\ Admissible(k, agent)
       /\ admitted' = [admitted EXCEPT ![k] =
                         [agent |-> agent, weight |-> AdmissionWeight[agent], owner |-> 0]]
       /\ consumed' = consumed + AdmissionWeight[agent]
       /\ UNCHANGED ledgerDraining

Credit(k) == /\ admitted' = [admitted EXCEPT ![k] = NoCharge]
             /\ consumed' = consumed - admitted[k].weight
             /\ UNCHANGED ledgerDraining

\* Release, keyed by session alone: the credit of an attach that never began
\* ownership.
ReleaseCharge(k) == IF Charged(k) THEN Credit(k) ELSE UNCHANGED ledgerVars

\* The charge is g's already, or nobody's.
Ownable(k, g) == Charged(k) /\ admitted[k].owner \in {0, g}

\* mutant of Own: the charge is not bound to the generation
OwnUnbound(k, g) == Ownable(k, g) /\ UNCHANGED ledgerVars

Own(k, g) == /\ Ownable(k, g)
             /\ admitted' = [admitted EXCEPT ![k].owner = g]
             /\ UNCHANGED <<consumed, ledgerDraining>>

OwnedBy(k, g) == g # 0 /\ admitted[k].owner = g

\* The credit of every path that ends a residency.
ReleaseOwned(k, g) == IF OwnedBy(k, g) THEN Credit(k) ELSE UNCHANGED ledgerVars

BeginDrain == /\ ledgerDraining' = TRUE
              /\ UNCHANGED <<admitted, consumed>>

-----------------------------------------------------------------------------
\* rankOf: the conversion to a signed rank saturates.
rankOf(available) == IF available > MaxInt64 THEN MaxInt64 ELSE available

\* mutant of Accepts: the placement is not asked
AcceptsAnywhere(agent) == ~ledgerDraining

\* One row of Publish, from one coherent reading of the ledger.
Accepts(agent) == ~ledgerDraining /\ agent \in PlacementSupported

Available(agent) == IF Accepts(agent)
                    THEN (Capacity - consumed) \div AdmissionWeight[agent]
                    ELSE 0

Row(agent) == [ranked |-> Accepts(agent), available |-> Available(agent),
               rank |-> rankOf(Available(agent)), tombstone |-> ledgerDraining]

Publish == [agent \in Agents |-> Row(agent)]

LedgerTypes == /\ admitted \in [Keys -> Charge \cup {NoCharge}]
               /\ consumed \in Int
               /\ ledgerDraining \in BOOLEAN
=============================================================================
