------------------------------- MODULE Lifecycle -------------------------------
(***************************************************************************)
(* The process from its start to its end (sentinel/__main__.py, server.py)  *)
(* and the print history that has to survive it: the rows of print_jobs     *)
(* that the watcher opens and closes in _update_state, and the pause it may *)
(* have in flight when the process is told to stop.                         *)
(*                                                                         *)
(* A tick is cut at its database writes, each of which may fail and so end  *)
(* the tick.  Of the table only the open rows (status "printing") are kept; *)
(* an id that is not among them stands for a new one.  Time is counted      *)
(* while the process shuts down, in units of five seconds.                  *)
(***************************************************************************)
EXTENDS FiniteSets, Integers

CONSTANTS
  Files, NoFile,
  Ids, NoJob,
  DRAIN,   \* GRACEFUL_SHUTDOWN_TIMEOUT_SECONDS
  WAIT,    \* _PAUSE_PUBLISH_CANCEL_WAIT_SECONDS
  BOT,     \* the timeout of BotRunner._real_stop
  GRACE    \* stop_grace_period of docker-compose.yml

ASSUME LifecycleAssumption ==
  /\ NoFile \notin Files /\ NoJob \notin Ids
  /\ {DRAIN, WAIT, BOT, GRACE} \subseteq Nat

\* 5 + 15 + 5 seconds in a grace period of 30: every part that has a limit fits.
ASSUME GraceAssumption == DRAIN + WAIT + BOT < GRACE

VARIABLES
  printer,  \* state and file of the printer
  link,     \* the printer answers
  proc,     \* where the process is between start and end
  pc,       \* the await the watcher is suspended in
  obs,      \* status this tick works on
  job,      \* _current_job_id
  file,     \* _current_filename
  prev,     \* _prev_print_state
  open,     \* rows of print_jobs with status "printing"
  pause,    \* the task that publishes a pause is at work
  timer,    \* units spent in this part of the shutdown
  clock,    \* units since the stop signal
  orphans,  \* ghost: open rows that a failed reconciliation left behind
  waited    \* ghost: the wait for the pause ran into its limit

watcher == <<pc, obs, job, file, prev>>
shutdown == <<timer, clock, waited>>
vars == <<printer, link, proc, watcher, open, pause, shutdown, orphans>>

Reports == [state : {"idle", "printing", "paused", "complete"}, file : Files \cup {NoFile}]
Off == [state |-> "idle", file |-> NoFile]
Stages == {"draining", "unwinding", "stopping", "closing"}

TypeOK ==
  /\ printer \in Reports /\ obs \in Reports /\ link \in BOOLEAN
  /\ proc \in {"down", "booting", "running"} \cup Stages
  /\ pc \in {"none", "idle", "end", "alert", "start", "count", "publish", "wait"}
  /\ job \in Ids \cup {NoJob} /\ file \in Files \cup {NoFile}
  /\ prev \in {"none", "printing", "paused"}
  /\ orphans \subseteq open /\ open \subseteq Ids
  /\ pause \in BOOLEAN /\ waited \in BOOLEAN
  /\ timer \in 0..GRACE /\ clock \in 0..GRACE

Printing(s) == s.state \in {"printing", "paused"}

\* Memory at the start of the process.
Fresh ==
  /\ pc' = "none" /\ obs' = Off
  /\ job' = NoJob /\ file' = NoFile /\ prev' = "none"
  /\ timer' = 0 /\ clock' = 0 /\ waited' = FALSE

Init ==
  /\ printer = Off /\ link = TRUE /\ proc = "down" /\ pc = "none" /\ obs = Off
  /\ job = NoJob /\ file = NoFile /\ prev = "none"
  /\ open = {} /\ orphans = {} /\ pause = FALSE
  /\ timer = 0 /\ clock = 0 /\ waited = FALSE
-----------------------------------------------------------------------------
(* The tick: _update_state as far as it keeps the history.  Without a fresh  *)
(* status, none at all or one marked stale, the tick returns before that.    *)

Observe ==
  /\ pc = "idle" /\ link
  /\ obs' = printer

\* The pause is counted, if there is one, and the state remembered; a print
\* that goes on may then be confirmed as failing.
CountOrGoOn(p) ==
  \/ /\ obs'.state = "paused" /\ p # "paused"
     /\ pc' = "count" /\ prev' = p
     /\ UNCHANGED pause
  \/ /\ obs'.state = "paused" /\ p = "paused"
     /\ pc' = "idle" /\ prev' = p
     /\ UNCHANGED pause
  \/ /\ obs'.state = "printing"
     /\ prev' = "printing"
     /\ \/ pc' = "idle" /\ UNCHANGED pause
        \/ pc' = "publish" /\ pause' = TRUE

\* Fault: the job is forgotten before its row is closed.
TickForgets ==
  /\ Observe
  /\ ~Printing(obs') /\ job # NoJob
  /\ job' = NoJob
  /\ pc' = "end"
  /\ UNCHANGED <<printer, link, proc, file, prev, open, pause, shutdown, orphans>>

TickIdle ==
  /\ Observe
  /\ ~Printing(obs')
  /\ \/ /\ job # NoJob
        /\ pc' = "end"
        /\ UNCHANGED <<file, prev>>
     \/ /\ job = NoJob
        /\ prev' = "none" /\ file' = NoFile
        /\ UNCHANGED pc
  /\ UNCHANGED <<printer, link, proc, job, open, pause, shutdown, orphans>>

TickPrinting ==
  /\ Observe
  /\ Printing(obs')
  /\ \/ /\ job # NoJob /\ file # NoFile /\ obs'.file # file
        /\ pc' = "end"
        /\ UNCHANGED <<file, prev, pause>>
     \/ /\ job = NoJob
        /\ file' = obs'.file /\ pc' = "start"
        /\ UNCHANGED <<prev, pause>>
     \/ /\ job # NoJob /\ (file = NoFile \/ obs'.file = file)
        /\ CountOrGoOn(prev)
        /\ UNCHANGED file
  /\ UNCHANGED <<printer, link, proc, job, open, shutdown, orphans>>

\* The writes to print_jobs.
OpenRow(id) == open' = open \cup {id} /\ UNCHANGED orphans
CloseRow == open' = open \ {job} /\ orphans' = orphans \ {job}
DeleteRows(S) == open' = open \ S /\ orphans' = orphans \ S
Reconcile == open' = {} /\ orphans' = {}

\* The row is closed and the job over: nothing more, or the job that came in
\* its place is recorded.
JobOver ==
  /\ job' = NoJob
  /\ \/ /\ ~Printing(obs)
        /\ prev' = "none" /\ file' = NoFile /\ pc' = "idle"
     \/ /\ Printing(obs)
        /\ file' = obs.file /\ pc' = "start"
        /\ UNCHANGED prev

\* A completed job is announced with a picture, which takes an await.
RecordEnd ==
  /\ pc = "end"
  /\ \/ CloseRow /\ JobOver
     \/ CloseRow /\ pc' = "alert" /\ UNCHANGED <<job, file, prev>>
     \/ pc' = "idle" /\ UNCHANGED <<job, file, prev, open, orphans>>
  /\ UNCHANGED <<printer, link, proc, obs, pause, shutdown>>

Announced ==
  /\ pc = "alert"
  /\ JobOver
  /\ UNCHANGED <<printer, link, proc, obs, open, pause, shutdown, orphans>>

RecordStart ==
  /\ pc = "start"
  /\ UNCHANGED obs
  /\ \/ \E id \in Ids \ open :
          /\ OpenRow(id) /\ job' = id
          /\ CountOrGoOn(prev)
     \/ pc' = "idle" /\ UNCHANGED <<open, job, prev, pause, orphans>>
  /\ UNCHANGED <<printer, link, proc, file, shutdown>>

CountPause ==
  /\ pc = "count"
  /\ prev' \in {prev, "paused"}
  /\ pc' = "idle"
  /\ UNCHANGED <<printer, link, proc, obs, job, file, open, pause, shutdown, orphans>>

\* The shielded task ends, and with it the watcher's wait for it, also the one
\* that a cancelled tick is left with.
PauseEnds ==
  /\ pause
  /\ pause' = FALSE
  /\ \/ printer.state = "printing" /\ printer' = [printer EXCEPT !.state = "paused"]
     \/ UNCHANGED printer
  /\ pc' = IF pc = "publish" THEN "idle" ELSE IF pc = "wait" THEN "none" ELSE pc
  /\ UNCHANGED <<link, proc, obs, job, file, prev, open, shutdown, orphans>>
-----------------------------------------------------------------------------
(* Start, crash and shutdown of the process.                                *)

\* Up to the run loop: database, migrations, sessions, settings.
Start ==
  /\ proc = "down"
  /\ proc' = "booting"
  /\ UNCHANGED <<printer, link, watcher, open, pause, shutdown, orphans>>

\* Fault: rows of the last run are left as they are.
BootOnly ==
  /\ proc = "booting"
  /\ proc' = "running" /\ pc' = "idle"
  /\ UNCHANGED <<printer, link, obs, job, file, prev, open, pause, shutdown, orphans>>

\* run_forever() closes what the last run left open, if it can.
Boot ==
  /\ proc = "booting"
  /\ proc' = "running" /\ pc' = "idle"
  /\ \/ Reconcile
     \/ orphans' = open /\ UNCHANGED open
  /\ UNCHANGED <<printer, link, obs, job, file, prev, pause, shutdown>>

\* A setting that cannot be read ends run_forever() and so the process.
BootFails ==
  /\ proc = "booting"
  /\ proc' = "unwinding"
  /\ UNCHANGED <<printer, link, watcher, open, pause, shutdown, orphans>>

\* A command that was already sent may still land.
Gone ==
  /\ proc' = "down"
  /\ Fresh
  /\ pause' = FALSE
  /\ printer' \in IF pause /\ printer.state = "printing"
                  THEN {printer, [printer EXCEPT !.state = "paused"]}
                  ELSE {printer}
  /\ UNCHANGED <<link, open, orphans>>

Crash == proc # "down" /\ Gone

\* SIGTERM only asks the server to stop; the watcher goes on meanwhile.
StopSignal ==
  /\ proc = "running"
  /\ proc' = "draining"
  /\ UNCHANGED <<printer, link, watcher, open, pause, shutdown, orphans>>

\* A write that is cancelled may have been committed.
CancelledWrite ==
  \/ pc = "end" /\ CloseRow
  \/ pc = "start" /\ \E id \in Ids \ open : OpenRow(id)
  \/ UNCHANGED <<open, orphans>>

\* serve() returns and the watcher is cancelled.  It keeps waiting for a pause
\* it has in flight.
Drained ==
  /\ proc = "draining"
  /\ proc' = "unwinding" /\ timer' = 0
  /\ pc' = IF pc = "publish" THEN "wait" ELSE "none"
  /\ CancelledWrite
  /\ UNCHANGED <<printer, link, obs, job, file, prev, pause, clock, waited>>

WaitIsOver ==
  /\ pc = "wait" /\ timer = WAIT
  /\ pc' = "none" /\ waited' = TRUE
  /\ UNCHANGED <<printer, link, proc, obs, job, file, prev, open, pause, timer, clock, orphans>>

\* Fault: the clients are closed without waiting for the watcher.
CloseAtOnce ==
  /\ proc = "unwinding"
  /\ proc' = "stopping" /\ timer' = 0
  /\ UNCHANGED <<printer, link, watcher, open, pause, clock, waited, orphans>>

\* gather() returns; the bot is stopped next.
Unwound ==
  /\ proc = "unwinding" /\ pc = "none"
  /\ proc' = "stopping" /\ timer' = 0
  /\ UNCHANGED <<printer, link, watcher, open, pause, clock, waited, orphans>>

\* The bot has stopped: clients, checkpoint and database are closed in turn.
BotStopped ==
  /\ proc = "stopping"
  /\ proc' = "closing" /\ timer' = 0
  /\ UNCHANGED <<printer, link, watcher, open, pause, clock, waited, orphans>>

Exit == proc = "closing" /\ Gone

\* Each part of the shutdown has a limit, except for the closing at its end.
Limit(stage) ==
  IF stage = "draining" THEN DRAIN ELSE IF stage = "unwinding" THEN WAIT
  ELSE IF stage = "stopping" THEN BOT ELSE GRACE

TimePasses ==
  /\ proc \in Stages /\ timer < Limit(proc) /\ clock < GRACE
  /\ timer' = timer + 1 /\ clock' = clock + 1
  /\ UNCHANGED <<printer, link, proc, watcher, open, pause, waited, orphans>>

\* SIGKILL when the grace period is over.
Kill ==
  /\ proc \in Stages /\ clock = GRACE
  /\ Gone
-----------------------------------------------------------------------------
(* DELETE /api/data/clear and the retention of rows remove open ones too.   *)

ClearData ==
  /\ proc \in {"running", "draining"}
  /\ DeleteRows(open)
  /\ UNCHANGED <<printer, link, proc, watcher, pause, shutdown>>

\* Every row started before the cutoff: an orphan before the current one.
Prune ==
  /\ proc \in {"running", "draining"}
  /\ orphans # {}
  /\ DeleteRows(orphans) \/ DeleteRows(open)
  /\ UNCHANGED <<printer, link, proc, watcher, pause, shutdown>>

PrinterChanges ==
  /\ \/ /\ ~Printing(printer)
        /\ \E f \in Files \cup {NoFile} : printer' = [state |-> "printing", file |-> f]
     \/ /\ Printing(printer)
        /\ printer' \in {[printer EXCEPT !.state = "printing"], [printer EXCEPT !.state = "paused"],
                         [printer EXCEPT !.state = "complete"], Off}
        /\ printer' # printer
     \/ /\ printer.state = "complete"
        /\ printer' = Off
     \/ /\ Printing(printer) /\ printer.file = NoFile
        /\ \E f \in Files : printer' = [printer EXCEPT !.file = f]
  /\ UNCHANGED <<link, proc, watcher, open, pause, shutdown, orphans>>

\* The printer is switched off or out of reach, whatever it was doing, or back.
LinkChanges ==
  /\ link' = ~link
  /\ UNCHANGED <<printer, proc, watcher, open, pause, shutdown, orphans>>

TickStep ==
  TickIdle \/ TickPrinting \/ RecordEnd \/ Announced \/ RecordStart \/ CountPause

ShutdownStep == Drained \/ WaitIsOver \/ Unwound \/ BotStopped \/ Exit

Next ==
  \/ TickStep \/ PauseEnds \/ PrinterChanges \/ LinkChanges
  \/ Start \/ Boot \/ BootFails \/ Crash \/ StopSignal \/ ShutdownStep \/ TimePasses \/ Kill
  \/ ClearData \/ Prune

\* The loop catches every exception and goes on; a write that is tried for ever
\* succeeds in the end; a pause task ends by its own timeouts; the service
\* manager starts the process again.
Fairness ==
  /\ WF_vars(TickStep) /\ SF_vars(RecordEnd /\ job' = NoJob)
  /\ WF_vars(PauseEnds) /\ WF_vars(Start) /\ WF_vars(Boot)
  /\ WF_vars(ShutdownStep)

Spec == Init /\ [][Next]_vars /\ Fairness
-----------------------------------------------------------------------------
\* At most one print is shown as running: while the watcher works, an open row
\* is that of its job, unless the reconciliation at the start failed.
OneOpenRow ==
  proc \in {"running", "draining"} => open \subseteq {job} \cup orphans

\* A stop never cuts off a pause that is still within its time to complete:
\* the clients are closed only after the watcher has unwound it, and when the
\* grace period is used up nothing but that closing is left.
ShutdownInOrder ==
  /\ clock = GRACE => proc = "closing"
  /\ proc \in {"stopping", "closing"} => pc = "none" /\ (pause => waited)

\* The history does not go on showing a print that is over, once the printer can be
\* asked; as long as it cannot, its row stays open.
HistoryCloses ==
  <>[](proc = "running" /\ link /\ ~Printing(printer)) => <>[](open \subseteq orphans)
===============================================================================
