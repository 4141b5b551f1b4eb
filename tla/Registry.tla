------------------------------ MODULE Registry ------------------------------
(***************************************************************************)
(* The process-local table of resident sessions, internal/registry.        *)
(*                                                                         *)
(* A session key has at most one entry.  Every entry carries the           *)
(* GENERATION it was inserted under, and every later operation names the   *)
(* generation it means, so an actor that still holds the reading of an     *)
(* ended residency cannot touch its successor.  The counter that numbers   *)
(* the generations is abstracted to what callers rely on: Insert takes a   *)
(* generation no earlier Insert took.                                      *)
(***************************************************************************)
EXTENDS Naturals

CONSTANTS Keys,         \* session keys (tenant and session)
          Generations   \* the generations Insert may issue

ASSUME RegistryConstants == Generations \subseteq Nat \ {0}

VARIABLES entries,      \* Registry.entries, NoEntry where the map has none
          issued        \* the generations nextGeneration has passed

registryVars == <<entries, issued>>

-----------------------------------------------------------------------------
\* StateResident, StateReleasing and StateDraining; "gone" marks no entry.
ResidencyState == {"resident", "releasing", "draining"}

Entry == [generation : Generations, state : ResidencyState,
          accepting : BOOLEAN, teardownOwned : BOOLEAN]

NoEntry == [generation |-> 0, state |-> "gone",
            accepting |-> FALSE, teardownOwned |-> FALSE]

RegistryInit == /\ entries = [k \in Keys |-> NoEntry]
                /\ issued = {}

\* The shared fence of every mutator: the entry is there and is generation g.
current(k, g) == g # 0 /\ entries[k].generation = g

Insert(k, g) ==
    /\ entries[k] = NoEntry
    /\ g \in Generations \ issued
    /\ issued' = issued \cup {g}
    /\ entries' = [entries EXCEPT ![k] = [generation |-> g, state |-> "resident",
                                          accepting |-> TRUE, teardownOwned |-> FALSE]]

StopAdmitting(k, g) ==
    /\ current(k, g)
    /\ entries' = [entries EXCEPT ![k].accepting = FALSE]
    /\ UNCHANGED issued

\* It does not ask who owns the teardown: it overwrites "draining" too.
MarkReleasing(k, g) ==
    /\ current(k, g)
    /\ entries' = [entries EXCEPT ![k].state = "releasing", ![k].accepting = FALSE]
    /\ UNCHANGED issued

Resumable(k, g) == /\ current(k, g)
                   /\ ~entries[k].teardownOwned
                   /\ entries[k].state # "draining"

ResumeResident(k, g) ==
    /\ Resumable(k, g)
    /\ entries' = [entries EXCEPT ![k].state = "resident", ![k].accepting = TRUE]
    /\ UNCHANGED issued

\* Once only: the second caller is told the teardown is owned elsewhere.
BeginTeardown(k, g) ==
    /\ current(k, g)
    /\ ~entries[k].teardownOwned
    /\ entries' = [entries EXCEPT ![k].teardownOwned = TRUE,
                                  ![k].state = "draining", ![k].accepting = FALSE]
    /\ UNCHANGED issued

RemoveByGeneration(k, g) ==
    /\ current(k, g)
    /\ entries' = [entries EXCEPT ![k] = NoEntry]
    /\ UNCHANGED issued

RegistryTypes == /\ entries \in [Keys -> Entry \cup {NoEntry}]
                 /\ issued \subseteq Generations
                 /\ \A k \in Keys : entries[k] # NoEntry => entries[k].generation \in issued
=============================================================================
