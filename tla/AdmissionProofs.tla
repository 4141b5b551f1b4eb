--------------------------- MODULE AdmissionProofs ---------------------------
(***************************************************************************)
(* Proofs about Admission, for every set of sessions, tenants, agents and  *)
(* generations, every capacity and every admission weight.                 *)
(*                                                                         *)
(* That consumed is the SUM of the charges needs induction over a set and  *)
(* is left to the model checker; that it never exceeds the capacity is     *)
(* proved, because a credit only lowers it.                                *)
(***************************************************************************)
EXTENDS Admission, TLAPS

AttachTypes == /\ attach \in [Keys -> AttachSteps]
               /\ mine \in [Keys -> Generations \cup {0}]
               /\ ending \subseteq Keys \X Generations

RowTypes == DOMAIN rows = Agents

\* What the registry, the ledger, the attach in flight and the pending credits
\* say of one session.  The generation an attach remembers is the registry's
\* until step 7, and none before the insertion; a pending credit names a
\* generation that is over.
KeyInv(k) ==
    /\ attach[k] \in {"admitted", "unwinding"} => entries[k].generation = 0
    /\ attach[k] \in {"idle", "admitted"} => mine[k] = 0
    /\ attach[k] \in {"inserted", "bound"} =>
          mine[k] # 0 /\ entries[k].generation = mine[k]
    /\ \A g \in Generations : <<k, g>> \in ending =>
          /\ g \in issued
          /\ entries[k].generation # g
          /\ attach[k] \in {"inserted", "bound", "unwinding"} => mine[k] # g
    /\ entries[k].generation # 0 /\ attach[k] # "inserted"
          => admitted[k].owner = entries[k].generation
    /\ attach[k] \in {"admitted", "inserted", "bound", "unwinding"} =>
          Charged(k) /\ admitted[k].owner \in {0, mine[k]}
    /\ Charged(k) /\ ~ledgerDraining /\ attach[k] \in {"idle", "begun"}
          /\ entries[k].generation = 0
          => \E g \in Generations : <<k, g>> \in ending /\ admitted[k].owner = g

IndInv == /\ RegistryTypes
          /\ LedgerTypes
          /\ AttachTypes
          /\ RowTypes
          /\ \A k \in Keys : KeyInv(k)
          /\ NeverOverAdmitted
          /\ OneTenant

\* A step of session k leaves every other session's state alone.
Local(k) ==
    /\ \A j \in Keys \ {k} :
          /\ entries'[j] = entries[j] /\ admitted'[j] = admitted[j]
          /\ attach'[j] = attach[j] /\ mine'[j] = mine[j]
          /\ \A g \in Generations : <<j, g>> \in ending' <=> <<j, g>> \in ending
    /\ issued \subseteq issued'
    /\ ledgerDraining' = ledgerDraining

USE RegistryConstants, LedgerConstants

-----------------------------------------------------------------------------
\* An entry is absent exactly when its generation is 0.
LEMMA EntryFacts ==
    ASSUME RegistryTypes, NEW k \in Keys
    PROVE  /\ entries[k].generation \in Generations \cup {0}
           /\ entries[k] = NoEntry <=> entries[k].generation = 0
  BY DEF RegistryTypes, Entry, NoEntry

\* A charge has an agent and a weight; no charge has no owner.
LEMMA ChargeFacts ==
    ASSUME LedgerTypes, NEW k \in Keys
    PROVE  /\ Charged(k) => admitted[k] \in Charge
           /\ ~Charged(k) => admitted[k].owner = 0
           /\ admitted[k].weight \in Nat
           /\ admitted[k].owner \in Generations \cup {0}
  BY DEF LedgerTypes, Charged, Charge, NoCharge

\* A credit leaves every other session's charge alone and lowers the total.
LEMMA CreditFacts ==
    ASSUME LedgerTypes, NEW k \in Keys, Credit(k)
    PROVE  /\ LedgerTypes'
           /\ ~Charged(k)'
           /\ \A j \in Keys \ {k} : admitted'[j] = admitted[j]
           /\ consumed' <= consumed
           /\ ledgerDraining' = ledgerDraining
  BY ChargeFacts DEF LedgerTypes, Credit, Charged, NoCharge

\* Rebinding a charge changes its owner only.
LEMMA RebindFacts ==
    ASSUME LedgerTypes, NEW k \in Keys, NEW o \in Generations \cup {0}, Charged(k),
           admitted' = [admitted EXCEPT ![k].owner = o],
           UNCHANGED <<consumed, ledgerDraining>>
    PROVE  /\ LedgerTypes'
           /\ Charged(k)' /\ admitted'[k].owner = o
           /\ \A j \in Keys \ {k} : admitted'[j] = admitted[j]
  <1>1. admitted[k] \in Charge
    BY ChargeFacts
  <1>2. /\ admitted'[k] = [admitted[k] EXCEPT !.owner = o]
        /\ \A j \in Keys \ {k} : admitted'[j] = admitted[j]
    BY DEF LedgerTypes
  <1>3. /\ admitted'[k] \in Charge
        /\ admitted'[k].owner = o
        /\ admitted'[k].weight = admitted[k].weight
    BY <1>1, <1>2 DEF Charge
  <1>4. admitted' \in [Keys -> Charge \cup {NoCharge}]
    BY <1>3 DEF LedgerTypes
  <1>5. QED
    BY <1>2, <1>3, <1>4 DEF LedgerTypes, Charged, Charge, NoCharge

\* A fresh charge fits, and is of an admissible session.
LEMMA AdmitFacts ==
    ASSUME LedgerTypes, NEW k \in Keys, NEW agent \in Agents, Admit(k, agent)
    PROVE  /\ LedgerTypes'
           /\ Charged(k)' /\ admitted'[k].owner = 0
           /\ \A j \in Keys \ {k} : admitted'[j] = admitted[j]
           /\ NeverOverAdmitted => NeverOverAdmitted'
           /\ ledgerDraining' = ledgerDraining
           /\ Charged(k) \/ ~ForeignTenant(k)
  <1>1. CASE Charged(k) /\ Claim(k)
    BY <1>1, RebindFacts DEF Claim, NeverOverAdmitted
  <1>2. CASE /\ ~Charged(k)
             /\ Admissible(k, agent)
             /\ admitted' = [admitted EXCEPT ![k] =
                              [agent |-> agent, weight |-> AdmissionWeight[agent], owner |-> 0]]
             /\ consumed' = consumed + AdmissionWeight[agent]
             /\ UNCHANGED ledgerDraining
    <2>1. AdmissionWeight[agent] \in Nat \ {0}
      OBVIOUS
    <2>2. admitted'[k] = [agent |-> agent, weight |-> AdmissionWeight[agent], owner |-> 0]
      BY <1>2 DEF LedgerTypes
    <2>3. /\ admitted'[k] \in Charge
          /\ admitted'[k].weight # 0
          /\ admitted'[k].owner = 0
      BY <2>1, <2>2 DEF Charge
    <2>4. admitted' \in [Keys -> Charge \cup {NoCharge}]
      BY <1>2, <2>1 DEF LedgerTypes, Charge
    <2>5. consumed' \in Int /\ consumed' <= Capacity
      BY <1>2, <2>1 DEF LedgerTypes, Admissible, Fits
    <2>6. QED
      BY <1>2, <2>3, <2>4, <2>5 DEF LedgerTypes, Charged, NoCharge, Admissible, NeverOverAdmitted
  <1>3. QED
    BY <1>1, <1>2 DEF Admit

-----------------------------------------------------------------------------
LEMMA InitEstablishes == Init => IndInv
  <1> SUFFICES ASSUME Init PROVE IndInv
    OBVIOUS
  <1>1. \A k \in Keys : /\ entries[k].generation = 0 /\ attach[k] = "idle" /\ mine[k] = 0
                        /\ admitted[k] = NoCharge /\ admitted[k].owner = 0
    BY DEF Init, RegistryInit, LedgerInit, NoEntry, NoCharge
  <1>2. RegistryTypes /\ LedgerTypes
    <2>1. \A k \in Keys : entries[k] = NoEntry
      BY DEF Init, RegistryInit
    <2>2. /\ entries \in [Keys -> Entry \cup {NoEntry}]
          /\ issued \subseteq Generations
      BY DEF Init, RegistryInit
    <2>3. LedgerTypes
      <3>1. admitted \in [Keys -> Charge \cup {NoCharge}]
        BY DEF Init, LedgerInit
      <3>2. consumed \in Int
        BY DEF Init, LedgerInit
      <3>3. ledgerDraining \in BOOLEAN
        BY Zenon DEF Init, LedgerInit
      <3>4. QED
        BY <3>1, <3>2, <3>3 DEF LedgerTypes
    <2>4. QED
      BY <2>1, <2>2, <2>3 DEF RegistryTypes
  <1>3. AttachTypes /\ RowTypes /\ NeverOverAdmitted
    BY DEF Init, LedgerInit, AttachTypes, AttachSteps, RowTypes, Publish, NeverOverAdmitted
  <1>4. OneTenant
    BY <1>1 DEF OneTenant, Charged
  <1>5. \A k \in Keys : KeyInv(k)
    BY <1>1 DEF Init, KeyInv, Charged
  <1>6. QED
    BY <1>2, <1>3, <1>4, <1>5 DEF IndInv

\* A step that is local to k and keeps k's own invariant keeps every session's.
LEMMA Locality ==
    ASSUME IndInv, NEW k \in Keys, Local(k), KeyInv(k)'
    PROVE  \A j \in Keys : KeyInv(j)'
  <1> SUFFICES ASSUME NEW j \in Keys, j # k PROVE KeyInv(j)'
    OBVIOUS
  <1>1. KeyInv(j)
    BY DEF IndInv
  <1>2. /\ entries'[j] = entries[j] /\ admitted'[j] = admitted[j]
        /\ attach'[j] = attach[j] /\ mine'[j] = mine[j]
        /\ \A g \in Generations : <<j, g>> \in ending' <=> <<j, g>> \in ending
        /\ issued \subseteq issued'
        /\ ledgerDraining' = ledgerDraining
    BY DEF Local
  <1>3. QED
    BY <1>1, <1>2 DEF KeyInv, Charged

\* A step that is local to k and does not charge k keeps the tenants apart.
LEMMA NoNewTenant ==
    ASSUME IndInv, NEW k \in Keys, Local(k), Charged(k)' => Charged(k)
    PROVE  OneTenant'
  BY DEF IndInv, OneTenant, Local, Charged

LEMMA AttachAdmitsKeeps ==
    ASSUME IndInv, NEW k \in Keys, NEW agent \in Agents, AttachAdmits(k, agent)
    PROVE  IndInv'
  <1>1. /\ attach[k] = "idle" /\ entries[k] = NoEntry
        /\ attach' = [attach EXCEPT ![k] = "admitted"]
        /\ UNCHANGED <<entries, issued, mine, ending, rows>>
    BY DEF AttachAdmits, To, registryVars
  <1>2. /\ LedgerTypes'
        /\ Charged(k)' /\ admitted'[k].owner = 0
        /\ \A j \in Keys \ {k} : admitted'[j] = admitted[j]
        /\ NeverOverAdmitted'
        /\ ledgerDraining' = ledgerDraining
        /\ Charged(k) \/ ~ForeignTenant(k)
    BY AdmitFacts DEF AttachAdmits, IndInv
  <1>3. attach'[k] = "admitted" /\ AttachTypes' /\ RegistryTypes' /\ RowTypes'
    BY <1>1 DEF IndInv, AttachTypes, AttachSteps, RegistryTypes, RowTypes
  <1>4. Local(k)
    BY <1>1, <1>2 DEF IndInv, AttachTypes, Local
  <1>5. KeyInv(k)'
    BY <1>1, <1>2, <1>3, EntryFacts DEF IndInv, KeyInv
  <1>6. OneTenant'
    BY <1>2 DEF IndInv, OneTenant, ForeignTenant, Charged
  <1>7. QED
    BY <1>2, <1>3, <1>4, <1>5, <1>6, Locality DEF IndInv

LEMMA AttachInsertsKeeps ==
    ASSUME IndInv, NEW k \in Keys, NEW g \in Generations, AttachInserts(k, g)
    PROVE  IndInv'
  <1>1. /\ attach[k] = "admitted" /\ g \notin issued
        /\ issued' = issued \cup {g}
        /\ entries' = [entries EXCEPT ![k] = [generation |-> g, state |-> "resident",
                                              accepting |-> TRUE, teardownOwned |-> FALSE]]
        /\ attach' = [attach EXCEPT ![k] = "inserted"]
        /\ mine' = [mine EXCEPT ![k] = g]
        /\ UNCHANGED <<admitted, consumed, ledgerDraining, ending, rows>>
    BY DEF AttachInserts, Insert, To, ledgerVars
  <1>2. /\ entries'[k] \in Entry /\ entries'[k].generation = g
        /\ \A j \in Keys \ {k} : entries'[j] = entries[j]
    BY <1>1 DEF IndInv, RegistryTypes, Entry, ResidencyState
  <1>3. RegistryTypes'
    BY <1>1, <1>2 DEF IndInv, RegistryTypes
  <1>4. /\ attach'[k] = "inserted" /\ mine'[k] = g
        /\ AttachTypes' /\ RowTypes' /\ LedgerTypes' /\ NeverOverAdmitted'
    BY <1>1 DEF IndInv, AttachTypes, AttachSteps, RowTypes, LedgerTypes, NeverOverAdmitted
  <1>5. Local(k)
    BY <1>1, <1>2 DEF IndInv, AttachTypes, Local
  <1>6. KeyInv(k)'
    BY <1>1, <1>2, <1>4 DEF IndInv, KeyInv, Charged
  <1>7. OneTenant'
    BY <1>1 DEF IndInv, OneTenant, Charged
  <1>8. QED
    BY <1>3, <1>4, <1>5, <1>6, <1>7, Locality DEF IndInv

LEMMA AttachBindsKeeps ==
    ASSUME IndInv, NEW k \in Keys, AttachBinds(k)
    PROVE  IndInv'
  <1>1. /\ attach[k] = "inserted" /\ Charged(k)
        /\ admitted' = [admitted EXCEPT ![k].owner = mine[k]]
        /\ attach' = [attach EXCEPT ![k] = "bound"]
        /\ UNCHANGED <<entries, issued, consumed, ledgerDraining, mine, ending, rows>>
    BY DEF AttachBinds, Own, Ownable, To, registryVars
  <1>2. /\ LedgerTypes'
        /\ Charged(k)' /\ admitted'[k].owner = mine[k]
        /\ \A j \in Keys \ {k} : admitted'[j] = admitted[j]
    BY <1>1, RebindFacts DEF IndInv, AttachTypes
  <1>3. /\ attach'[k] = "bound" /\ AttachTypes'
        /\ RegistryTypes' /\ RowTypes' /\ NeverOverAdmitted'
    BY <1>1 DEF IndInv, AttachTypes, AttachSteps, RegistryTypes, RowTypes, NeverOverAdmitted
  <1>4. Local(k)
    BY <1>1, <1>2 DEF IndInv, AttachTypes, Local
  <1>5. KeyInv(k)'
    BY <1>1, <1>2, <1>3 DEF IndInv, KeyInv
  <1>6. QED
    BY <1>1, <1>2, <1>3, <1>4, <1>5, Locality, NoNewTenant DEF IndInv

\* The steps that only move the attach.
LEMMA AttachMovesKeeps ==
    ASSUME IndInv, NEW k \in Keys, AttachBeginsOwnership(k) \/ AttachReturns(k)
    PROVE  IndInv'
  <1>1. UNCHANGED <<entries, issued, admitted, consumed, ledgerDraining, ending, rows>>
    BY DEF AttachBeginsOwnership, AttachReturns, registryVars, ledgerVars
  <1>2. RegistryTypes' /\ LedgerTypes' /\ RowTypes' /\ NeverOverAdmitted'
    BY <1>1 DEF IndInv, RegistryTypes, LedgerTypes, RowTypes, NeverOverAdmitted
  <1>3. OneTenant'
    BY <1>1 DEF IndInv, OneTenant, Charged
  <1>4. CASE AttachBeginsOwnership(k)
    <2>1. /\ attach[k] = "bound" /\ attach' = [attach EXCEPT ![k] = "begun"]
          /\ mine' = mine
      BY <1>4 DEF AttachBeginsOwnership, To
    <2>2. attach'[k] = "begun" /\ AttachTypes' /\ Local(k)
      BY <1>1, <2>1 DEF IndInv, AttachTypes, AttachSteps, Local
    <2>3. KeyInv(k)'
      BY <1>1, <2>1, <2>2 DEF IndInv, KeyInv, Charged
    <2>4. QED
      BY <1>2, <1>3, <2>2, <2>3, Locality DEF IndInv
  <1>5. CASE AttachReturns(k)
    <2>1. /\ attach[k] = "begun" /\ attach' = [attach EXCEPT ![k] = "idle"]
          /\ mine' = [mine EXCEPT ![k] = 0]
      BY <1>5 DEF AttachReturns, To
    <2>2. attach'[k] = "idle" /\ mine'[k] = 0 /\ AttachTypes' /\ Local(k)
      BY <1>1, <2>1 DEF IndInv, AttachTypes, AttachSteps, Local
    <2>3. KeyInv(k)'
      BY <1>1, <2>1, <2>2 DEF IndInv, KeyInv, Charged
    <2>4. QED
      BY <1>2, <1>3, <2>2, <2>3, Locality DEF IndInv
  <1>6. QED
    BY <1>4, <1>5

\* Removing an entry keeps the registry's types.
LEMMA RemoveFacts ==
    ASSUME RegistryTypes, NEW k \in Keys, NEW g \in Generations \cup {0}, RemoveByGeneration(k, g)
    PROVE  /\ RegistryTypes'
           /\ g # 0 /\ entries[k].generation = g /\ g \in issued
           /\ entries'[k].generation = 0
           /\ \A j \in Keys \ {k} : entries'[j] = entries[j]
           /\ issued' = issued
  BY EntryFacts DEF RegistryTypes, RemoveByGeneration, current, NoEntry

LEMMA RemovalsKeep ==
    ASSUME IndInv, NEW k \in Keys, NEW g,
           RollbackRemoves(k) \/ (g \in Generations /\ (EndRemoves(k, g) \/ DrainRemoves(k, g)))
    PROVE  IndInv'
  <1>1. CASE RollbackRemoves(k)
    <2>1. /\ attach[k] \in {"inserted", "bound"}
          /\ attach' = [attach EXCEPT ![k] = "unwinding"]
          /\ RemoveByGeneration(k, mine[k])
          /\ UNCHANGED <<admitted, consumed, ledgerDraining, mine, ending, rows>>
      BY <1>1 DEF RollbackRemoves, To, ledgerVars
    <2>2. /\ RegistryTypes' /\ entries[k].generation = mine[k] /\ entries'[k].generation = 0
          /\ \A j \in Keys \ {k} : entries'[j] = entries[j]
          /\ issued' = issued
      BY <2>1, RemoveFacts DEF IndInv, AttachTypes
    <2>3. /\ attach'[k] = "unwinding" /\ AttachTypes'
          /\ LedgerTypes' /\ RowTypes' /\ NeverOverAdmitted'
      BY <2>1 DEF IndInv, AttachTypes, AttachSteps, LedgerTypes, RowTypes, NeverOverAdmitted
    <2>4. Local(k)
      BY <2>1, <2>2 DEF IndInv, AttachTypes, Local
    <2>5. KeyInv(k)'
      BY <2>1, <2>2, <2>3 DEF IndInv, KeyInv, Charged
    <2>6. OneTenant'
      BY <2>1 DEF IndInv, OneTenant, Charged
    <2>7. QED
      BY <2>2, <2>3, <2>4, <2>5, <2>6, Locality DEF IndInv
  <1>2. CASE g \in Generations /\ (EndRemoves(k, g) \/ DrainRemoves(k, g))
    <2>1. /\ attach[k] \in {"idle", "begun"}
          /\ RemoveByGeneration(k, g)
          /\ UNCHANGED <<admitted, consumed, ledgerDraining, attach, mine, rows>>
      BY <1>2 DEF EndRemoves, DrainRemoves, ledgerVars
    <2>8. ending' = ending \cup {<<k, g>>} \/ ending' = ending
      BY <1>2 DEF EndRemoves, DrainRemoves
    <2>2. /\ RegistryTypes' /\ entries[k].generation = g /\ g # 0 /\ g \in issued
          /\ entries'[k].generation = 0
          /\ \A j \in Keys \ {k} : entries'[j] = entries[j]
          /\ issued' = issued
      BY <1>2, <2>1, RemoveFacts DEF IndInv
    <2>3. AttachTypes' /\ LedgerTypes' /\ RowTypes' /\ NeverOverAdmitted'
      BY <1>2, <2>1, <2>8 DEF IndInv, AttachTypes, LedgerTypes, RowTypes, NeverOverAdmitted
    <2>4. Local(k)
      BY <2>1, <2>2, <2>8 DEF IndInv, AttachTypes, Local
    <2>5. KeyInv(k)'
      <3>1. KeyInv(k) /\ admitted[k].owner = g /\ (Charged(k)' <=> Charged(k))
        BY <2>1, <2>2 DEF IndInv, KeyInv, Charged
      <3>2. CASE EndRemoves(k, g)
        <4>1. ending' = ending \cup {<<k, g>>}
          BY <3>2 DEF EndRemoves
        <4>2. QED
          BY <1>2, <2>1, <2>2, <3>1, <4>1 DEF KeyInv
      <3>3. CASE DrainRemoves(k, g)
        <4>1. ledgerDraining /\ ending' = ending
          BY <3>3 DEF DrainRemoves
        <4>2. QED
          BY <1>2, <2>1, <2>2, <3>1, <4>1 DEF KeyInv
      <3>4. QED
        BY <1>2, <3>2, <3>3
    <2>6. OneTenant'
      BY <2>1 DEF IndInv, OneTenant, Charged
    <2>7. QED
      BY <2>2, <2>3, <2>4, <2>5, <2>6, Locality DEF IndInv
  <1>3. QED
    BY <1>1, <1>2

LEMMA CreditsKeep ==
    ASSUME IndInv, NEW k \in Keys, NEW g,
           RollbackCredits(k) \/ (g \in Generations /\ EndCredits(k, g))
    PROVE  IndInv'
  <1>1. CASE RollbackCredits(k)
    <2>1. /\ attach[k] \in {"admitted", "unwinding"}
          /\ attach' = [attach EXCEPT ![k] = "idle"]
          /\ mine' = [mine EXCEPT ![k] = 0]
          /\ ReleaseCharge(k)
          /\ UNCHANGED <<entries, issued, ending, rows>>
      BY <1>1 DEF RollbackCredits, To, registryVars
    <2>2. Credit(k)
      BY <2>1 DEF IndInv, KeyInv, ReleaseCharge
    <2>3. /\ LedgerTypes' /\ ~Charged(k)' /\ NeverOverAdmitted'
          /\ \A j \in Keys \ {k} : admitted'[j] = admitted[j]
          /\ ledgerDraining' = ledgerDraining
      BY <2>2, CreditFacts DEF IndInv, NeverOverAdmitted, LedgerTypes
    <2>4. /\ attach'[k] = "idle" /\ mine'[k] = 0
          /\ AttachTypes' /\ RegistryTypes' /\ RowTypes'
      BY <2>1 DEF IndInv, AttachTypes, AttachSteps, RegistryTypes, RowTypes
    <2>5. Local(k)
      BY <2>1, <2>3 DEF IndInv, AttachTypes, Local
    <2>6. KeyInv(k)'
      BY <2>1, <2>3, <2>4 DEF IndInv, KeyInv
    <2>7. QED
      BY <2>3, <2>4, <2>5, <2>6, Locality, NoNewTenant DEF IndInv
  <1>2. CASE g \in Generations /\ EndCredits(k, g)
    <2>1. /\ <<k, g>> \in ending
          /\ ending' = ending \ {<<k, g>>}
          /\ ReleaseOwned(k, g)
          /\ UNCHANGED <<entries, issued, attach, mine, rows>>
      BY <1>2 DEF EndCredits, registryVars
    <2>2. AttachTypes' /\ RegistryTypes' /\ RowTypes'
      BY <2>1 DEF IndInv, AttachTypes, RegistryTypes, RowTypes
    <2>3. g # 0
      BY <1>2
    <2>4. CASE admitted[k].owner = g
      <3>1. Credit(k)
        BY <2>1, <2>3, <2>4 DEF ReleaseOwned, OwnedBy
      <3>2. /\ LedgerTypes' /\ ~Charged(k)' /\ NeverOverAdmitted'
            /\ \A j \in Keys \ {k} : admitted'[j] = admitted[j]
            /\ ledgerDraining' = ledgerDraining
        BY <3>1, CreditFacts DEF IndInv, NeverOverAdmitted, LedgerTypes
      <3>3. Local(k)
        BY <2>1, <3>2 DEF IndInv, AttachTypes, Local
      <3>4. KeyInv(k)'
        <4>1. KeyInv(k) /\ entries[k].generation # g
          BY <1>2, <2>1 DEF IndInv, KeyInv
        <4>2. attach[k] \notin {"admitted", "inserted", "bound", "unwinding"}
          BY <1>2, <2>1, <2>3, <2>4, <4>1 DEF KeyInv
        <4>3. entries[k].generation = 0
          BY <2>4, <4>1, <4>2 DEF KeyInv
        <4>4. QED
          BY <2>1, <3>2, <4>1, <4>2, <4>3 DEF KeyInv
      <3>5. QED
        BY <2>2, <3>2, <3>3, <3>4, Locality, NoNewTenant DEF IndInv
    <2>5. CASE admitted[k].owner # g
      <3>1. UNCHANGED <<admitted, consumed, ledgerDraining>>
        BY <2>1, <2>5 DEF ReleaseOwned, OwnedBy, ledgerVars
      <3>2. LedgerTypes' /\ NeverOverAdmitted' /\ (Charged(k)' <=> Charged(k))
        BY <3>1 DEF IndInv, LedgerTypes, NeverOverAdmitted, Charged
      <3>3. Local(k)
        BY <2>1, <3>1 DEF IndInv, AttachTypes, Local
      <3>4. KeyInv(k)'
        BY <2>1, <2>5, <3>1, <3>2 DEF IndInv, KeyInv
      <3>5. QED
        BY <2>2, <3>2, <3>3, <3>4, Locality, NoNewTenant DEF IndInv
    <2>6. QED
      BY <2>4, <2>5
  <1>3. QED
    BY <1>1, <1>2

\* The drain and the advertisement heartbeat touch no session.
LEMMA HostStepsKeep ==
    ASSUME IndInv, StartDrain \/ Beat \/ UNCHANGED vars
    PROVE  IndInv'
  <1>1. /\ UNCHANGED <<entries, issued, admitted, consumed, attach, mine, ending>>
        /\ ledgerDraining' = TRUE \/ ledgerDraining' = ledgerDraining
        /\ rows' = rows \/ rows' = Publish
    <2>1. CASE StartDrain
      BY <2>1 DEF StartDrain, BeginDrain, registryVars
    <2>2. CASE Beat
      BY <2>2 DEF Beat, registryVars, ledgerVars
    <2>3. CASE UNCHANGED vars
      BY <2>3 DEF vars
    <2>4. QED
      BY <2>1, <2>2, <2>3
  <1>2. RegistryTypes' /\ LedgerTypes' /\ AttachTypes' /\ NeverOverAdmitted'
    BY <1>1 DEF IndInv, RegistryTypes, LedgerTypes, AttachTypes, NeverOverAdmitted
  <1>3. RowTypes'
    BY <1>1 DEF IndInv, RowTypes, Publish
  <1>4. OneTenant'
    BY <1>1 DEF IndInv, OneTenant, Charged
  <1>5. \A k \in Keys : KeyInv(k)'
    BY <1>1 DEF IndInv, KeyInv, Charged
  <1>6. QED
    BY <1>2, <1>3, <1>4, <1>5 DEF IndInv

LEMMA NextKeeps == IndInv /\ [Next]_vars => IndInv'
  <1> SUFFICES ASSUME IndInv, [Next]_vars PROVE IndInv'
    OBVIOUS
  <1>1. CASE StartDrain \/ Beat \/ UNCHANGED vars
    BY <1>1, HostStepsKeep
  <1>2. ASSUME NEW k \in Keys,
               \/ \E agent \in Agents : AttachAdmits(k, agent)
               \/ \E g \in Generations : \/ AttachInserts(k, g)
                                         \/ EndRemoves(k, g)
                                         \/ EndCredits(k, g)
                                         \/ DrainRemoves(k, g)
               \/ AttachBinds(k)
               \/ AttachBeginsOwnership(k)
               \/ AttachReturns(k)
        PROVE  IndInv'
    BY <1>2, AttachAdmitsKeeps, AttachInsertsKeeps, RemovalsKeep, CreditsKeep,
       AttachBindsKeeps, AttachMovesKeeps
  <1>3. ASSUME NEW k \in Keys, RollbackRemoves(k) \/ RollbackCredits(k)
        PROVE  IndInv'
    BY <1>3, RemovalsKeep, CreditsKeep
  <1>4. QED
    BY <1>1, <1>2, <1>3 DEF Next

-----------------------------------------------------------------------------
\* IndInv holds in every reachable state of the composition.
THEOREM Inductive == Spec => []IndInv
  BY InitEstablishes, NextKeeps, PTL DEF Spec

\* Every variable keeps its type: the ledger, the registry and the attaches of
\* manager.go and capacity.go never reach a state their maps cannot hold.
THEOREM Typing == Spec => []TypeOK
  <1>1. IndInv => TypeOK
    BY DEF IndInv, AttachTypes, RowTypes, TypeOK
  <1>2. QED
    BY <1>1, Inductive, PTL

\* B2 for every number of sessions, generations and pending credits: a session
\* the registry holds owns its charge.
THEOREM ChargedResidents == Spec => []ResidentIsCharged
  <1>1. IndInv => ResidentIsCharged
    BY EntryFacts DEF IndInv, KeyInv, ResidentIsCharged, OwnedBy
  <1>2. QED
    BY <1>1, Inductive, PTL

\* The unfenced credit of a rollback, and the binding at step 5, always meet the
\* attach's own charge (manager.go: the "admission" compensation, Own).
THEOREM OwnCharges == Spec => []AttachHoldsItsCharge
  <1>1. IndInv => AttachHoldsItsCharge
    BY DEF IndInv, KeyInv, AttachHoldsItsCharge, Ownable
  <1>2. QED
    BY <1>1, Inductive, PTL

\* No charge is forgotten while the Host admits (capacity.go: ReleaseOwned).
THEOREM NoLeakedCharge == Spec => []ChargesAreHeld
  <1>1. IndInv => ChargesAreHeld
    <2> SUFFICES ASSUME IndInv, NEW k \in Keys, Charged(k), ~ledgerDraining,
                        attach[k] \in {"idle", "begun"}, entries[k] = NoEntry
                 PROVE  \E g \in Generations : <<k, g>> \in ending /\ OwnedBy(k, g)
      BY DEF ChargesAreHeld
    <2>1. PICK g \in Generations : <<k, g>> \in ending /\ admitted[k].owner = g
      BY EntryFacts DEF IndInv, KeyInv
    <2>2. QED
      BY <2>1 DEF OwnedBy
  <1>2. QED
    BY <1>1, Inductive, PTL

\* The Host is never over-admitted, for every capacity and every weight
\* (capacity.go: Admit).
THEOREM Bounded == Spec => []NeverOverAdmitted
  BY Inductive, PTL DEF IndInv

\* Tenant exclusivity, for every number of tenants (capacity.go: Admit, H8).
THEOREM Exclusive == Spec => []OneTenant
  BY Inductive, PTL DEF IndInv
-----------------------------------------------------------------------------
\* Every row's rank is its own availability, saturated.
RowInv == \A a \in Agents : /\ rows[a].available \in Int
                            /\ rows[a].rank = rankOf(rows[a].available)

\* Room for one more is room for the weight: the whole quotient Publish computes
\* is positive exactly when the difference Admit compares covers the weight.
LEMMA Quotient ==
    ASSUME NEW free \in Int, NEW weight \in Nat \ {0}
    PROVE  /\ free \div weight \in Int
           /\ free \div weight > 0 <=> weight <= free
  <1> DEFINE q == free \div weight
             r == free % weight
  <1>1. q \in Int /\ r \in 0 .. weight - 1 /\ free = weight * q + r
    BY Z3
  <1> HIDE DEF q, r
  <1>2. ASSUME q > 0 PROVE weight <= free
    <2>1. weight * q >= weight
      BY <1>1, <1>2
    <2>2. QED
      BY <1>1, <2>1
  <1>3. ASSUME weight <= free PROVE q > 0
    <2> SUFFICES ASSUME q <= 0 PROVE FALSE
      BY <1>1
    <2>1. weight * q <= 0
      BY <1>1
    <2>2. QED
      BY <1>1, <1>3, <2>1
  <1>4. QED
    BY <1>1, <1>2, <1>3 DEF q

\* Publish derives each row's rank from its availability.
LEMMA PublishFacts ==
    ASSUME LedgerTypes, NEW a \in Agents
    PROVE  /\ Publish[a].available = Available(a) /\ Available(a) \in Int
           /\ Publish[a].rank = rankOf(Available(a))
  <1>1. Capacity - consumed \in Int /\ AdmissionWeight[a] \in Nat \ {0}
    BY DEF LedgerTypes
  <1>2. (Capacity - consumed) \div AdmissionWeight[a] \in Int
    BY <1>1, Quotient
  <1>3. Available(a) \in Int
    BY <1>2 DEF Available
  <1>4. Publish[a] = Row(a)
    BY DEF Publish
  <1>5. QED
    BY <1>3, <1>4 DEF Row

LEMMA RowsKept == IndInv /\ RowInv /\ [Next]_vars => RowInv'
  <1> SUFFICES ASSUME IndInv, RowInv, [Next]_vars PROVE RowInv'
    OBVIOUS
  <1>1. rows' = rows \/ rows' = Publish
    BY Zenon
       DEF Next, vars, StartDrain, Beat, AttachAdmits, AttachInserts, EndRemoves, EndCredits,
           DrainRemoves, AttachBinds, AttachBeginsOwnership, AttachReturns, RollbackRemoves,
           RollbackCredits
  <1>2. CASE rows' = rows
    BY <1>2 DEF RowInv, rankOf
  <1>3. CASE rows' = Publish
    BY <1>3, PublishFacts DEF IndInv, RowInv, rankOf
  <1>4. QED
    BY <1>1, <1>2, <1>3

\* A row with room is a session Admit takes, one without is a session it
\* refuses, and more room never ranks lower, for every capacity, every weight
\* and every width of the rank (capacity.go: Publish, Admit, rankOf).
THEOREM OffersHold == Spec => []OffersAreAdmissible
  <1>1. Init => RowInv
    BY InitEstablishes, PublishFacts DEF Init, IndInv, RowInv
  <1>2. IndInv /\ RowInv => OffersAreAdmissible
    <2> SUFFICES ASSUME IndInv, RowInv PROVE OffersAreAdmissible
      OBVIOUS
    <2>1. ASSUME rows = Publish, NEW k \in Keys, NEW agent \in Agents, ~ForeignTenant(k)
          PROVE  rows[agent].available > 0 <=> Admissible(k, agent)
      <3>1. rows[agent].available = Available(agent)
        BY <2>1, PublishFacts DEF IndInv
      <3>2. /\ Capacity - consumed \in Int
            /\ AdmissionWeight[agent] \in Nat \ {0}
        BY DEF IndInv, LedgerTypes
      <3>3. (Capacity - consumed) \div AdmissionWeight[agent] > 0 <=> Fits(agent)
        BY <3>2, Quotient DEF Fits
      <3>4. QED
        BY <2>1, <3>1, <3>3 DEF Available, Accepts, Admissible
    <2>2. ASSUME NEW a \in Agents, NEW b \in Agents, rows[a].available <= rows[b].available
          PROVE  rows[a].rank <= rows[b].rank
      BY <2>2 DEF RowInv, rankOf
    <2>3. QED
      BY <2>1, <2>2 DEF OffersAreAdmissible
  <1>3. QED
    BY <1>1, <1>2, Inductive, RowsKept, PTL DEF Spec
=============================================================================
