-------------------------------- MODULE Command --------------------------------
(***************************************************************************)
(* What PrinterClient promises of a command (sentinel/printer/client.py and *)
(* errors.py): the printer executes it at most once, however often its      *)
(* session is retried; success is reported only of a command that was       *)
(* executed, failure only of one that never was and never will be.  In      *)
(* between lies the unknown outcome, which the caller has to resolve by     *)
(* reading the printer's status.                                           *)
(***************************************************************************)
EXTENDS Naturals

CONSTANT Calls

VARIABLES
  state,      \* what the caller of each call knows
  executions  \* how often the printer executed it

vars == <<state, executions>>

Init ==
  /\ state = [c \in Calls |-> "none"]
  /\ executions = [c \in Calls |-> 0]

Begin(c) ==
  /\ state[c] = "none"
  /\ state' = [state EXCEPT ![c] = "open"]
  /\ UNCHANGED executions

\* A command may land after its caller has given up on it.
Execute(c) ==
  /\ state[c] \in {"open", "unknown"}
  /\ executions[c] = 0
  /\ executions' = [executions EXCEPT ![c] = 1]
  /\ UNCHANGED state

Finish(c, outcome) ==
  /\ state[c] \in {"none", "open"}
  /\ outcome = "ok" => executions[c] = 1
  /\ outcome = "failed" => executions[c] = 0
  /\ state' = [state EXCEPT ![c] = outcome]
  /\ UNCHANGED executions

Next ==
  \E c \in Calls :
    Begin(c) \/ Execute(c) \/ \E outcome \in {"ok", "failed", "unknown"} : Finish(c, outcome)

Spec == Init /\ [][Next]_vars
=============================================================================
