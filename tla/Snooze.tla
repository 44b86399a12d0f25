-------------------------------- MODULE Snooze --------------------------------
(***************************************************************************)
(* The detection switch and the snooze of centauri-sentinel: three settings *)
(* kept in the database and in a cache before it (sentinel/db/repo.py), the *)
(* snooze task in memory (sentinel/watcher/loop.py), the handlers that      *)
(* change them (sentinel/bot/commands.py, sentinel/web/routes.py), and the  *)
(* restart that reads them back.                                            *)
(*                                                                         *)
(* Every set_setting is a step of its own: it awaits the database, and a    *)
(* crash or another handler may come before the next one.  A get_setting    *)
(* that hits the cache does not suspend its caller.  A write may also fail:  *)
(* it then changes nothing, and ends the command or the expiry it belongs to.*)
(* The length of a snooze is left out: a sleep may end at any time, and a    *)
(* restart may find the expiry passed or not.                               *)
(***************************************************************************)
EXTENDS Integers

CONSTANTS
  Handlers,     \* requests and bot commands that may be handled at once
  TaskIds,      \* snooze tasks that may exist at once
  NoTask,       \* _snooze_task is None
  Commands,     \* what the operator may do: "snooze", "enable", "disable"
  CUTS          \* what a crash or a failed write may cut short: "snooze", "expiry", "switch"

ASSUME SnoozeAssumption ==
  /\ NoTask \notin TaskIds
  /\ TaskIds # {} /\ Handlers # {}
  /\ Commands \subseteq {"snooze", "enable", "disable"}
  /\ CUTS \subseteq {"snooze", "expiry", "switch"}

VARIABLES
  stored,     \* the settings in the database
  cached,     \* Database._settings_cache
  task,       \* what each snooze task is doing
  current,    \* WatcherLoop._snooze_task
  startup,    \* how far run_forever has come
  handler,    \* what each handler is about to write
  wasEnabled, \* snooze()'s local was_enabled, per handler, while it waits to be written
  wanted,     \* ghost: what the operator last asked of the switch
  damage      \* ghost: what commands that failed or met have left behind

vars == <<stored, cached, task, current, startup, handler, wasEnabled, wanted, damage>>

\* damage is "stuck" when a failed write has left detection off with nobody to switch
\* it on before the next command or restart.  It is "mixed", until the operator next
\* uses the switch alone, when two commands met of which one is a snooze, when a
\* command met the startup, when a switch was cut short, and when a snooze failed that
\* had cancelled an expiry in its commit and so left the cache behind the database.
Damages == {"none", "stuck", "mixed"}

\* enabled: detection_enabled; until: snooze_until_utc > 0; restore: the flag
\* snooze_restore_detection.
Settings == [enabled : BOOLEAN, until : BOOLEAN, restore : BOOLEAN]

EndSteps == {"end_enabled", "end_until", "end_restore"}
SnoozeSteps == {"restore", "until", "disable"}
SwitchSteps == {"on_until", "on_enabled", "off_until", "off_enabled"}

TypeOK ==
  /\ stored \in Settings /\ cached \in Settings
  /\ task \in [TaskIds -> {"none", "sleep"} \cup EndSteps]
  /\ current \in TaskIds \cup {NoTask}
  /\ \A t \in TaskIds : current = t => task[t] # "none"
  /\ startup \in {"down", "read", "done"} \cup EndSteps
  /\ handler \in [Handlers -> {"idle"} \cup SnoozeSteps \cup SwitchSteps]
  /\ wasEnabled \in [Handlers -> BOOLEAN]
  /\ wanted \in {"on", "off"}
  /\ damage \in Damages

\* The first start has written detection_enabled_default.
Init ==
  /\ \E on \in BOOLEAN :
       /\ stored = [enabled |-> on, until |-> FALSE, restore |-> TRUE]
       /\ wanted = IF on THEN "on" ELSE "off"
  /\ cached = stored
  /\ task = [t \in TaskIds |-> "none"]
  /\ current = NoTask
  /\ startup = "read"
  /\ handler = [h \in Handlers |-> "idle"]
  /\ wasEnabled = [h \in Handlers |-> TRUE]
  /\ damage = "none"

\* set_setting.
Write(key, value) ==
  /\ stored' = [stored EXCEPT ![key] = value]
  /\ cached' = [cached EXCEPT ![key] = value]

-----------------------------------------------------------------------------
(***************************************************************************)
(* The end of a snooze, run by its task or by the restart.                  *)
(***************************************************************************)

\* Fault: the restore flag is not looked at.
EndSnoozeAlways == "end_enabled"

\* _end_snooze up to its first write.
EndSnooze == IF cached.restore THEN "end_enabled" ELSE "end_until"

\* Its writes, and what comes after each; "done" is the end.
EndWrite(step, next) ==
  \/ step = "end_enabled" /\ Write("enabled", TRUE) /\ next = "end_until"
  \/ step = "end_until" /\ Write("until", FALSE) /\ next = "end_restore"
  \/ step = "end_restore" /\ Write("restore", TRUE) /\ next = "done"

\* _re_enable_after wakes up: only the current task acts.
Wake(t) ==
  /\ task[t] = "sleep"
  /\ task' = [task EXCEPT ![t] = IF current = t THEN EndSnooze ELSE "none"]
  /\ UNCHANGED <<stored, cached, current, startup, handler, wasEnabled, wanted, damage>>

\* Fault: _re_enable_after without its finally clause.
ExpireKeepsHandle(t) ==
  /\ \E next \in {"end_until", "end_restore", "done"} :
       /\ EndWrite(task[t], next)
       /\ task' = [task EXCEPT ![t] = IF next = "done" THEN "none" ELSE next]
  /\ UNCHANGED <<current, startup, handler, wasEnabled, wanted, damage>>

\* _end_snooze inside the task, and the finally clause of _re_enable_after.
Expire(t) ==
  /\ \E next \in {"end_until", "end_restore", "done"} :
       /\ EndWrite(task[t], next)
       /\ task' = [task EXCEPT ![t] = IF next = "done" THEN "none" ELSE next]
       /\ current' = IF next = "done" /\ current = t THEN NoTask ELSE current
  /\ UNCHANGED <<startup, handler, wasEnabled, wanted, damage>>

\* What a failed write leaves of a command or an expiry that met nobody.
Stuck == IF damage = "none" /\ ~cached.enabled THEN "stuck" ELSE damage

\* The database fails a read or a write of _end_snooze: the task ends, by its finally
\* clause, and nothing starts another.
FailExpire(t) ==
  /\ "expiry" \in CUTS
  /\ task[t] \in EndSteps
  /\ task' = [task EXCEPT ![t] = "none"]
  /\ current' = IF current = t THEN NoTask ELSE current
  /\ damage' = Stuck
  /\ UNCHANGED <<stored, cached, startup, handler, wasEnabled, wanted>>

\* asyncio.create_task(_re_enable_after(...)), whatever _snooze_task was before.
StartTask ==
  \E t \in TaskIds :
    /\ task[t] = "none"
    /\ task' = [task EXCEPT ![t] = "sleep"]
    /\ current' = t

\* cancel_snooze().  A task that is cancelled while it commits may have committed,
\* but it does not update the cache any more.
CancelSnooze ==
  /\ current' = NoTask
  /\ UNCHANGED cached
  /\ IF current = NoTask
     THEN UNCHANGED <<task, stored>>
     ELSE /\ task' = [task EXCEPT ![current] = "none"]
          /\ \/ UNCHANGED stored
             \/ task[current] = "end_enabled" /\ stored' = [stored EXCEPT !.enabled = TRUE]
             \/ task[current] = "end_until" /\ stored' = [stored EXCEPT !.until = FALSE]
             \/ task[current] = "end_restore" /\ stored' = [stored EXCEPT !.restore = TRUE]

-----------------------------------------------------------------------------
(***************************************************************************)
(* Handlers.                                                               *)
(***************************************************************************)

\* The bot and the server answer from the start of the process on, beside the
\* startup of the watcher and beside each other.
MayBegin(h) ==
  /\ handler[h] = "idle"
  /\ startup # "down"

Busy(steps) == \E h \in Handlers : handler[h] \in steps

\* Nothing but the current task, which the command cancels, is writing settings.
Alone ==
  /\ startup = "done"
  /\ ~Busy(SnoozeSteps \cup SwitchSteps)
  /\ \A t \in TaskIds : task[t] \in EndSteps => current = t

Goto(h, step) == handler' = [handler EXCEPT ![h] = step]

\* snooze() up to its first write: a snooze in progress keeps its restore flag.
Snooze(h) ==
  /\ "snooze" \in Commands
  /\ MayBegin(h)
  /\ CancelSnooze
  /\ IF cached.until
     THEN Goto(h, "until") /\ UNCHANGED wasEnabled
     ELSE Goto(h, "restore") /\ wasEnabled' = [wasEnabled EXCEPT ![h] = cached.enabled]
  /\ damage' = IF Alone /\ damage # "mixed" THEN "none" ELSE "mixed"
  /\ UNCHANGED <<startup, wanted>>

WriteRestore(h) ==
  /\ handler[h] = "restore"
  /\ Write("restore", wasEnabled[h])
  /\ Goto(h, "until")
  /\ wasEnabled' = [wasEnabled EXCEPT ![h] = TRUE]
  /\ UNCHANGED <<task, current, startup, wanted, damage>>

\* Fault: the two writes after the flag in the other order.
WriteUntilLate(h) ==
  /\ handler[h] = "until"
  /\ Write("enabled", FALSE)
  /\ Goto(h, "disable")
  /\ UNCHANGED <<task, current, startup, wasEnabled, wanted, damage>>

WriteUntil(h) ==
  /\ handler[h] = "until"
  /\ Write("until", TRUE)
  /\ Goto(h, "disable")
  /\ UNCHANGED <<task, current, startup, wasEnabled, wanted, damage>>

WriteDisable(h) ==
  /\ handler[h] = "disable"
  /\ Write("enabled", FALSE)
  /\ StartTask
  /\ Goto(h, "idle")
  /\ UNCHANGED <<startup, wasEnabled, wanted, damage>>

\* cmd_enable, cmd_disable and the "enable" button.  Switches that meet each other
\* leave what the last of them asked for.
Switch(h) ==
  /\ MayBegin(h)
  /\ CancelSnooze
  /\ \/ "enable" \in Commands /\ Goto(h, "on_until")
     \/ "disable" \in Commands /\ Goto(h, "off_until")
  /\ damage' = IF Alone THEN "none"
               ELSE IF startup = "done" /\ ~Busy(SnoozeSteps) THEN damage ELSE "mixed"
  /\ UNCHANGED <<startup, wasEnabled, wanted>>

\* Fault: the expiry stays, so that a restart takes the snooze for running.
SwitchUntilKept(h) ==
  /\ \/ handler[h] = "on_until" /\ Goto(h, "on_enabled")
     \/ handler[h] = "off_until" /\ Goto(h, "off_enabled")
  /\ UNCHANGED <<stored, cached, task, current, startup, wasEnabled, wanted, damage>>

SwitchUntil(h) ==
  /\ \/ handler[h] = "on_until" /\ Goto(h, "on_enabled")
     \/ handler[h] = "off_until" /\ Goto(h, "off_enabled")
  /\ Write("until", FALSE)
  /\ UNCHANGED <<task, current, startup, wasEnabled, wanted, damage>>

SwitchEnabled(h) ==
  /\ \/ handler[h] = "on_enabled" /\ Write("enabled", TRUE) /\ wanted' = "on"
     \/ handler[h] = "off_enabled" /\ Write("enabled", FALSE) /\ wanted' = "off"
  /\ Goto(h, "idle")
  /\ UNCHANGED <<task, current, startup, wasEnabled, damage>>

\* The database fails a read or a write of a command, which ends there.
FailCommand(h) ==
  /\ \/ /\ "snooze" \in CUTS /\ handler[h] \in SnoozeSteps
        /\ damage' = IF cached.enabled = stored.enabled /\ cached.until = stored.until
                     THEN Stuck ELSE "mixed"
     \/ "switch" \in CUTS /\ handler[h] \in SwitchSteps /\ damage' = "mixed"
  /\ Goto(h, "idle")
  /\ wasEnabled' = [wasEnabled EXCEPT ![h] = TRUE]
  /\ UNCHANGED <<stored, cached, task, current, startup, wanted>>

-----------------------------------------------------------------------------
(***************************************************************************)
(* Startup and crash.                                                      *)
(***************************************************************************)

\* Fault: a snooze that still runs is not scheduled again.
ReadSnoozeForgets ==
  /\ startup = "read"
  /\ \/ startup' = "done"
     \/ cached.until /\ startup' = EndSnooze
  /\ UNCHANGED <<task, current, stored, cached, handler, wasEnabled, wanted, damage>>

\* run_forever: an expired snooze is ended, one that runs is scheduled again.
ReadSnooze ==
  /\ startup = "read"
  /\ \/ ~cached.until /\ startup' = "done" /\ UNCHANGED <<task, current>>
     \/ cached.until /\ startup' = EndSnooze /\ UNCHANGED <<task, current>>
     \/ cached.until /\ startup' = "done" /\ StartTask
  /\ UNCHANGED <<stored, cached, handler, wasEnabled, wanted, damage>>

EndAtStartup ==
  /\ \E next \in {"end_until", "end_restore", "done"} :
       EndWrite(startup, next) /\ startup' = next
  /\ UNCHANGED <<task, current, handler, wasEnabled, wanted, damage>>

Ending == startup \in EndSteps \/ \E t \in TaskIds : task[t] \in EndSteps

\* The process ends, or a failed write of EndAtStartup ends it.
Crash ==
  /\ startup # "down"
  /\ Busy(SnoozeSteps) => "snooze" \in CUTS
  /\ Busy(SwitchSteps) => "switch" \in CUTS
  /\ Ending => "expiry" \in CUTS
  /\ startup' = "down"
  /\ cached' = stored
  /\ task' = [t \in TaskIds |-> "none"]
  /\ current' = NoTask
  /\ handler' = [h \in Handlers |-> "idle"]
  /\ wasEnabled' = [h \in Handlers |-> TRUE]
  /\ damage' = IF damage = "mixed" \/ Busy(SwitchSteps) THEN "mixed" ELSE "none"
  /\ UNCHANGED <<stored, wanted>>

Restart ==
  /\ startup = "down"
  /\ startup' = "read"
  /\ UNCHANGED <<stored, cached, task, current, handler, wasEnabled, wanted, damage>>

HandlerStep(h) ==
  WriteRestore(h) \/ WriteUntil(h) \/ WriteDisable(h) \/ SwitchUntil(h) \/ SwitchEnabled(h)

Work ==
  \/ ReadSnooze \/ EndAtStartup \/ Restart
  \/ \E t \in TaskIds : Wake(t) \/ Expire(t)
  \/ \E h \in Handlers : HandlerStep(h)

Fault ==
  \/ Crash
  \/ \E t \in TaskIds : FailExpire(t)
  \/ \E h \in Handlers : FailCommand(h)

Next == Work \/ Fault \/ \E h \in Handlers : Snooze(h) \/ Switch(h)

Spec == Init /\ [][Next]_vars

\* Every task and handler goes on, a sleep ends, and the service is restarted.
FairSpec == Spec /\ WF_vars(ReadSnooze \/ EndAtStartup \/ Restart)
                 /\ \A t \in TaskIds : WF_vars(Wake(t) \/ Expire(t))
                 /\ \A h \in Handlers : WF_vars(HandlerStep(h))

-----------------------------------------------------------------------------
(***************************************************************************)
(* Properties.                                                             *)
(***************************************************************************)

\* Detection that the operator switched off stays off, in the database and in the
\* cache, through any snooze, extension, expiry, failed command and restart: the flag
\* recorded by the first snooze decides (docs/architecture.md: "only if it was enabled
\* when the snooze began").  Commands that met are excused until the next switch.
DisabledIsKept ==
  wanted = "off" /\ damage # "mixed" /\ ~Busy(SwitchSteps)
    => ~stored.enabled /\ ~cached.enabled

\* A snooze can always be undone by a restart: detection that the operator wants is
\* off in the database only beside an expiry and a flag that bring it back.  This
\* must hold before and after each write of snooze() and _end_snooze(), and when one
\* of them fails.
SnoozeIsRecoverable ==
  wanted = "on" /\ damage # "mixed" /\ ~Busy(SwitchSteps) /\ ~stored.enabled
    => stored.until /\ stored.restore

\* Between commands the cache, which is all the watcher reads, tells what a restart
\* would find, although an expiry may be cancelled in the middle of a commit.
CacheAgrees ==
  damage # "mixed" /\ ~Busy(SnoozeSteps \cup SwitchSteps) =>
    cached.enabled = stored.enabled /\ cached.until = stored.until

Settled == ~Busy(SnoozeSteps \cup SwitchSteps) /\ startup # "down"

\* Detection that the operator wants comes back once he stops snoozing, unless a
\* write has failed since the last command and restart: an expiry that was cut short
\* by a restart comes back as well.
DetectionComesBack ==
  <>[](wanted = "on" /\ damage = "none" /\ Settled) => <>[]cached.enabled

\* sentinel/watcher/loop.py, snooze(): a crash must not leave "detection disabled
\* with no snooze to undo it".
NeverStranded ==
  wanted = "on" /\ startup = "done" /\ ~Busy(SnoozeSteps \cup SwitchSteps)
    => stored.enabled \/ stored.until

\* sentinel/watcher/loop.py, snooze(): expiry "does not switch on detection the
\* operator had deliberately disabled".
ExpiryKeepsDisabled ==
  wanted = "off" /\ ~Busy(SwitchSteps) => ~cached.enabled

\* The dashboard's answer to a snooze, "Detection snoozed for ... seconds"
\* (sentinel/web/routes.py): detection comes back, whatever a write of its end does.
SnoozeEnds ==
  <>[](wanted = "on" /\ damage # "mixed" /\ Settled) => <>[]cached.enabled
=============================================================================
