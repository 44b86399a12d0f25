------------------------------- MODULE MCWatcher -------------------------------
(***************************************************************************)
(* Watcher for the model checker: the files are interchangeable, which      *)
(* halves the states of a run that checks safety only.                      *)
(***************************************************************************)
EXTENDS Watcher, TLC

AnyFile == Permutations(Files)
===============================================================================
