--------------------------- MODULE CommandPromise ---------------------------
(* What the command path of a session promises to the Factory that admitted  *)
(* its commands, with no Host, claim, cursor or journal in sight: a command   *)
(* has its effect at most once and only after every earlier command was       *)
(* settled, and the verdict a command is settled with, once and for good,     *)
(* says whether it had its effect.                                            *)
EXTENDS Naturals

CONSTANT LastOrder    \* the number of commands accepted for the session

Orders == 1..LastOrder

VARIABLES
  verdict,    \* what each command was settled as, "open" until then
  effects     \* how many times the runtime ran each command's effect

vars == <<verdict, effects>>

Init == verdict = [c \in Orders |-> "open"] /\ effects = [c \in Orders |-> 0]

Run(c) ==
  /\ verdict[c] = "open" /\ effects[c] = 0
  /\ \A d \in Orders : d < c => verdict[d] # "open"
  /\ effects' = [effects EXCEPT ![c] = 1]
  /\ UNCHANGED verdict

Settle(c) ==
  /\ verdict[c] = "open"
  /\ verdict' = [verdict EXCEPT ![c] = IF effects[c] = 0 THEN "rejected" ELSE "applied"]
  /\ UNCHANGED effects

Next == \E c \in Orders : Run(c) \/ Settle(c)

Spec == Init /\ [][Next]_vars
=============================================================================
