--------------------------------- MODULE Login ---------------------------------
(***************************************************************************)
(* What the dashboard promises of a login (sentinel/web/sessions.py): it    *)
(* lasts, across restarts, until it is logged out, makes room for a newer   *)
(* one, or the credentials change; and a logout that was answered is final. *)
(***************************************************************************)
EXTENDS FiniteSets, Naturals

CONSTANTS
  Tokens,
  MAX_SESSIONS

VARIABLES
  live,      \* the tokens that open the dashboard
  ended,     \* the tokens whose logout was answered
  unsettled  \* the tokens for which a crash decides: an operation on them is
             \* under way, or was given up half way

vars == <<live, ended, unsettled>>

Init ==
  /\ live = {} /\ ended = {}
  /\ unsettled \in SUBSET Tokens

Grant(t) ==
  /\ t \notin live \cup ended
  /\ \/ live' = live \cup {t}
     \/ \E oldest \in live :
          /\ Cardinality(live) >= MAX_SESSIONS
          /\ live' = (live \ {oldest}) \cup {t}
  /\ UNCHANGED ended

MakeRoom ==
  /\ Cardinality(live) > MAX_SESSIONS
  /\ \E oldest \in live : live' = live \ {oldest}
  /\ UNCHANGED ended

\* One login, or all of them.  A login that is still being granted meanwhile
\* may be caught by it or not.
LogOut(S) ==
  /\ ended' = ended \cup S
  /\ live' \subseteq live \ S
  /\ (live \ live') \subseteq S \cup unsettled

Restart ==
  /\ live \ unsettled \subseteq live'
  /\ live' \subseteq live \cup unsettled
  /\ live' \cap ended = {}
  /\ UNCHANGED ended

ChangeCredentials ==
  /\ live' = {}
  /\ UNCHANGED ended

Next ==
  /\ unsettled' \in SUBSET Tokens
  /\ \/ \E t \in Tokens : Grant(t)
     \/ \E S \in SUBSET Tokens : LogOut(S)
     \/ MakeRoom \/ Restart \/ ChangeCredentials

Spec == Init /\ [][Next]_vars
=============================================================================
