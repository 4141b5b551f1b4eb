----------------------------- MODULE MCCommands ------------------------------
(* A consumer is composed with one of the two processors, and both are held   *)
(* to the same promise.                                                       *)
EXTENDS Disposition

VARIABLES
  processor,   \* what the Hosts of this deployment compose
  prefix       \* the Applier's prefixes in the journal

Legacy == INSTANCE Application

allVars == <<vars, processor, prefix>>

CommandsInit ==
  /\ Init
  /\ processor \in {"DispositionApplier", "Applier"} /\ prefix = [c \in Orders |-> 0]

CommandsNext ==
  /\ UNCHANGED processor
  /\ \/ processor = "DispositionApplier" /\ Next /\ UNCHANGED prefix
     \/ processor = "Applier" /\ Legacy!Next /\ UNCHANGED <<evidence, stranded>>

Commands == CommandsInit /\ [][CommandsNext]_allVars
=============================================================================
