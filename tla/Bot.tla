--------------------------------- MODULE Bot ---------------------------------
(***************************************************************************)
(* The Telegram bot: its supervisor (sentinel/bot/runner.py), the two-step  *)
(* stop of a print (sentinel/bot/commands.py), and the dispatcher that      *)
(* sends its own messages over the same service.                            *)
(*                                                                         *)
(* Updates are handled one at a time, in any order the users may have sent  *)
(* them in.  The length of a backoff and the count of healthy seconds are   *)
(* left out; a request to stop is at most 30 seconds old ("fresh") or older *)
(* ("old"), and a command leaves the rate limit's window at any time.       *)
(***************************************************************************)
EXTENDS Dispatcher

CONSTANTS
  Users, NoUser,
  Authorized,   \* the allowlist of the notifier
  Telegram,     \* the channel of the notifier that is also the bot's service
  RATE_LIMIT    \* commands of one user within a minute

ASSUME BotAssumption ==
  /\ Authorized \subseteq Users /\ NoUser \notin Users
  /\ Telegram \in Channels
  /\ RATE_LIMIT \in Nat \ {0}

VARIABLES
  sup,      \* where the supervisor is
  app,      \* the Application: is there one, and is its updater running
  was,      \* was_running
  crashed,  \* crash_count >= 1
  recent,   \* number of timestamps in _rate_limit_history
  pending,  \* _pending_stops
  called,   \* the user whose /confirm awaits printer.stop()
  asked     \* ghost: the stop that a user asked for and has not withdrawn

supervisor == <<sup, app, was, crashed>>
stops == <<pending, called, asked>>
vars == <<dispatching, supervisor, recent, stops>>

TypeOK ==
  /\ DispatcherTypeOK
  /\ sup \in {"off", "begin", "check", "watch", "backoff", "restart"}
  /\ app \in {"none", "polling", "dead"}
  /\ was \in BOOLEAN /\ crashed \in BOOLEAN
  /\ recent \in [Users -> 0..RATE_LIMIT]
  /\ pending \in [Users -> {"none", "fresh", "old"}]
  /\ asked \in [Users -> {"no", "fresh", "old"}]
  /\ called \in Users \cup {NoUser}

None == [u \in Users |-> 0]
Nothing == [u \in Users |-> "none"]
NotAsked == [u \in Users |-> "no"]

Init ==
  /\ DispatcherInit
  /\ sup = "off" /\ app = "none" /\ was = FALSE /\ crashed = FALSE
  /\ recent = None /\ pending = Nothing /\ called = NoUser /\ asked = NotAsked

Net == Telegram \in reach
IsRunning == app = "polling"
-----------------------------------------------------------------------------
(* The supervisor.                                                          *)

\* _real_start(), or what is left of it when it fails.
RealStart == app' = IF Net THEN "polling" ELSE "none"

BotStart ==
  /\ sup = "off"
  /\ RealStart
  /\ crashed' = ~Net
  /\ sup' = "begin"
  /\ UNCHANGED <<dispatching, was, recent, stops>>

SupervisorBegins ==
  /\ sup = "begin"
  /\ was' = IsRunning
  /\ sup' = "check"
  /\ UNCHANGED <<dispatching, app, crashed, recent, stops>>

\* Fault: only a bot that was seen running is started again.
FindsItDownOnce ==
  /\ sup = "check" /\ ~IsRunning
  /\ sup' = IF was THEN "backoff" ELSE "watch"
  /\ crashed' = (crashed \/ was)
  /\ IF was THEN DispatchText ELSE UNCHANGED dispatching
  /\ was' = FALSE
  /\ UNCHANGED <<app, recent, stops>>

\* A bot that has stopped counts as crashed if it ran at the last look.
FindsItDown ==
  /\ sup = "check" /\ ~IsRunning
  /\ sup' = "backoff"
  /\ crashed' = (crashed \/ was)
  /\ IF was THEN DispatchText ELSE UNCHANGED dispatching
  /\ was' = FALSE
  /\ UNCHANGED <<app, recent, stops>>

FindsItRunning ==
  /\ sup = "check" /\ IsRunning
  /\ was' = TRUE
  /\ sup' = "watch"
  /\ UNCHANGED <<dispatching, app, crashed, recent, stops>>

WatchOver ==
  /\ sup = "watch"
  /\ sup' = "check"
  /\ UNCHANGED <<dispatching, app, was, crashed, recent, stops>>

\* _real_stop(), which gives up waiting for the handler after five seconds.
BackoffOver ==
  /\ sup = "backoff"
  /\ app' = "none" /\ called' = NoUser
  /\ sup' = "restart"
  /\ UNCHANGED <<dispatching, was, crashed, recent, pending, asked>>

Restart ==
  /\ sup = "restart"
  /\ RealStart
  /\ IF Net /\ crashed THEN DispatchText ELSE UNCHANGED dispatching
  /\ was' = Net
  /\ sup' = "check"
  /\ UNCHANGED <<crashed, recent, stops>>

\* The updater ends when the service is gone for long.
UpdaterDies ==
  /\ IsRunning /\ ~Net
  /\ app' = "dead"
  /\ UNCHANGED <<dispatching, sup, was, crashed, recent, stops>>

\* Shutdown or crash of the process: memory is gone.
Down ==
  /\ sup # "off"
  /\ Forget
  /\ sup' = "off" /\ app' = "none" /\ was' = FALSE /\ crashed' = FALSE
  /\ recent' = None /\ pending' = Nothing /\ called' = NoUser /\ asked' = NotAsked
-----------------------------------------------------------------------------
(* The commands.  Every update first drops requests that have expired.      *)

\* An update can be handled, also one that was fetched before the updater died.
Handling == app # "none" /\ called = NoUser

Expired == [u \in Users |-> IF pending[u] = "old" THEN "none" ELSE pending[u]]

\* Strangers are not answered, and users are refused who send too much.
Refused(u) ==
  /\ Handling
  /\ u \notin Authorized \/ recent[u] = RATE_LIMIT
  /\ pending' = Expired
  /\ UNCHANGED <<dispatching, supervisor, recent, called, asked>>

Accepted(u) ==
  /\ Handling
  /\ u \in Authorized /\ recent[u] < RATE_LIMIT
  /\ recent' = [recent EXCEPT ![u] = @ + 1]
  /\ UNCHANGED <<dispatching, supervisor>>

\* /help, /status and /snapshot: nothing else changes.
Look(u) ==
  /\ Accepted(u)
  /\ pending' = Expired
  /\ UNCHANGED <<called, asked>>

AskStop(u) ==
  /\ Accepted(u)
  /\ pending' = [Expired EXCEPT ![u] = "fresh"]
  /\ asked' = [asked EXCEPT ![u] = "fresh"]
  /\ UNCHANGED called

CancelStop(u) ==
  /\ Accepted(u)
  /\ pending' = [Expired EXCEPT ![u] = "none"]
  /\ asked' = [asked EXCEPT ![u] = "no"]
  /\ UNCHANGED called

\* Fault: the request stays when it is confirmed.
ConfirmKeepsRequest(u) ==
  /\ Accepted(u)
  /\ pending' = Expired
  /\ IF Expired[u] = "fresh"
     THEN called' = u /\ asked' = [asked EXCEPT ![u] = "no"]
     ELSE UNCHANGED <<called, asked>>

Confirm(u) ==
  /\ Accepted(u)
  /\ pending' = [Expired EXCEPT ![u] = "none"]
  /\ IF Expired[u] = "fresh"
     THEN called' = u /\ asked' = [asked EXCEPT ![u] = "no"]
     ELSE UNCHANGED <<called, asked>>

\* printer.stop() ends, whatever came of it.
StopEnds ==
  /\ called # NoUser
  /\ called' = NoUser
  /\ UNCHANGED <<dispatching, supervisor, recent, pending, asked>>

\* The requests of some users pass the thirty seconds.
TimePasses ==
  /\ \E S \in SUBSET {u \in Users : asked[u] = "fresh" \/ pending[u] = "fresh"} :
       /\ S # {}
       /\ pending' = [u \in Users |-> IF u \in S /\ pending[u] = "fresh" THEN "old" ELSE pending[u]]
       /\ asked' = [u \in Users |-> IF u \in S /\ asked[u] = "fresh" THEN "old" ELSE asked[u]]
  /\ UNCHANGED <<dispatching, supervisor, recent, called>>

\* Commands leave the window of the rate limit.
MinutePasses ==
  /\ \E u \in Users : recent[u] > 0 /\ recent' = [recent EXCEPT ![u] = @ - 1]
  /\ UNCHANGED <<dispatching, supervisor, stops>>

Command ==
  \E u \in Users : Refused(u) \/ Look(u) \/ AskStop(u) \/ CancelStop(u) \/ Confirm(u)

Supervise ==
  SupervisorBegins \/ FindsItDown \/ FindsItRunning \/ WatchOver \/ BackoffOver \/ Restart

\* The watcher's messages and the outcome of sending them.
Messages ==
  /\ \/ sup # "off" /\ (DispatchAlert \/ DispatchText)
     \/ TaskEnds \/ ServiceChanges
  /\ UNCHANGED <<supervisor, recent, stops>>

Next ==
  \/ BotStart \/ Supervise \/ UpdaterDies \/ Down
  \/ Command \/ StopEnds \/ TimePasses \/ MinutePasses
  \/ Messages

\* The supervisor's loop is always scheduled, and the oldest task ends by its
\* limit of 90 seconds unless it is displaced before.
OldestEnds == tasks # <<>> /\ (TaskFails(1) \/ TaskSucceeds(1)) /\ UNCHANGED <<supervisor, recent, stops>>

Fairness == WF_vars(Supervise) /\ WF_vars(OldestEnds)

Spec == Init /\ [][Next]_vars /\ Fairness
-----------------------------------------------------------------------------
\* The bot cancels a print only for an authorized user who asked for it within
\* the last thirty seconds, has not withdrawn it, and has not had it yet:
\* neither a second /confirm nor another user's word is enough.
StopNeedsRequest ==
  [][called' # called /\ called' # NoUser =>
       called' \in Authorized /\ asked[called'] = "fresh"]_vars

\* However often the bot has failed, it is back once Telegram can be reached.
BotComesBack == <>[](Net /\ sup # "off") => <>[]IsRunning

\* A channel that stays broken while messages are sent to it is on the
\* dashboard for good, whatever outcome is recorded last.
BrokenIsVisible ==
  \A c \in Channels :
    <>[](sup # "off" /\ c \notin reach) /\ []<>(\E i \in DOMAIN tasks : tasks[i].channel = c)
      => <>[](c \in failed)
===============================================================================
