----------------------------- MODULE Snooze_proofs -----------------------------
(***************************************************************************)
(* Proofs about Snooze, for any number of tasks and handlers, whatever      *)
(* handlers, startup, crashes and failed writes come between each other:    *)
(* what the operator switched off stays off, a snooze can always be undone, *)
(* and the cache tells what a restart would find, from every use of the     *)
(* switch that meets nobody until two commands meet.                        *)
(***************************************************************************)
EXTENDS Snooze, TLAPS

On == wanted = "on"

Clean == damage # "mixed"

\* While nothing is mixed a snooze is alone, switches meet only each other, and
\* what ends a snooze is the startup or the current task.
OneActor ==
  /\ \A h, g \in Handlers : handler[h] \in SnoozeSteps /\ handler[g] # "idle" => h = g
  /\ \A h \in Handlers : handler[h] # "idle" => startup = "done" /\ current = NoTask
  /\ startup # "done" => current = NoTask
  /\ \A t \in TaskIds : task[t] \in EndSteps => current = t

\* The settings say what the operator wants: detection that is off by a snooze
\* has an expiry, and a flag that tells how to end it.
Meant(s) ==
  /\ s.until => (s.restore <=> On)
  /\ ~s.until => (s.enabled <=> On)
  /\ s.enabled => On

NoSwitch == \A h \in Handlers : handler[h] \notin SwitchSteps

SettingsMeant == NoSwitch => Meant(stored) /\ Meant(cached)

\* The cache may lag behind a commit that was cancelled, in one direction.
CacheBehind ==
  /\ NoSwitch => /\ stored.until => cached.until
                 /\ cached.until => (stored.restore <=> cached.restore)
  /\ startup \in {"down", "read"} => cached = stored

\* What each step of an end of a snooze may rely on.
EndReady(step) ==
  /\ step = "end_enabled" => On
  /\ step = "end_until" => (stored.enabled <=> On) /\ (cached.enabled <=> On)
  /\ step = "end_restore" => ~stored.until /\ ~cached.until

EndsReady == EndReady(startup) /\ \A t \in TaskIds : EndReady(task[t])

\* And each write of a handler.
HandlersReady ==
  \A h \in Handlers :
    /\ handler[h] = "restore" => (wasEnabled[h] <=> On) /\ ~stored.until /\ ~cached.until
    /\ handler[h] \in {"until", "disable"} => (stored.restore <=> On) /\ (cached.restore <=> On)
    /\ handler[h] = "disable" => stored.until /\ cached.until
    /\ handler[h] \in {"on_enabled", "off_enabled"} => ~stored.until /\ ~cached.until

\* With no command at work the cache tells what is stored; the current task ends a
\* snooze.
QuietAgrees ==
  (\A h \in Handlers : handler[h] = "idle") =>
    /\ stored.enabled <=> cached.enabled
    /\ stored.until <=> cached.until

SleepsInSnooze ==
  \A t \in TaskIds : current = t /\ task[t] = "sleep" => cached.until /\ stored.until

CleanInv ==
  /\ OneActor /\ SettingsMeant /\ CacheBehind
  /\ EndsReady /\ HandlersReady /\ QuietAgrees /\ SleepsInSnooze

IInv == TypeOK /\ (Clean => CleanInv)
-----------------------------------------------------------------------------
(***************************************************************************)
(* Writes.                                                                 *)
(***************************************************************************)

LEMMA Enabled ==
  ASSUME NEW s \in Settings, NEW v \in BOOLEAN
  PROVE  LET r == [s EXCEPT !.enabled = v] IN
         /\ r \in Settings
         /\ (r.enabled <=> v) /\ (r.until <=> s.until) /\ (r.restore <=> s.restore)
  BY DEF Settings

LEMMA Until ==
  ASSUME NEW s \in Settings, NEW v \in BOOLEAN
  PROVE  LET r == [s EXCEPT !.until = v] IN
         /\ r \in Settings
         /\ (r.enabled <=> s.enabled) /\ (r.until <=> v) /\ (r.restore <=> s.restore)
  BY DEF Settings

LEMMA Restores ==
  ASSUME NEW s \in Settings, NEW v \in BOOLEAN
  PROVE  LET r == [s EXCEPT !.restore = v] IN
         /\ r \in Settings
         /\ (r.enabled <=> s.enabled) /\ (r.until <=> s.until) /\ (r.restore <=> v)
  BY DEF Settings

LEMMA WriteEnabled ==
  ASSUME TypeOK, NEW v \in BOOLEAN, Write("enabled", v)
  PROVE  /\ stored' \in Settings /\ cached' \in Settings
         /\ (stored'.enabled <=> v) /\ (cached'.enabled <=> v)
         /\ (stored'.until <=> stored.until) /\ (cached'.until <=> cached.until)
         /\ (stored'.restore <=> stored.restore) /\ (cached'.restore <=> cached.restore)
  <1>1. stored' = [stored EXCEPT !.enabled = v] /\ cached' = [cached EXCEPT !.enabled = v]
    BY DEF Write
  <1> QED BY <1>1, Enabled DEF TypeOK

LEMMA WriteUntilIs ==
  ASSUME TypeOK, NEW v \in BOOLEAN, Write("until", v)
  PROVE  /\ stored' \in Settings /\ cached' \in Settings
         /\ (stored'.enabled <=> stored.enabled) /\ (cached'.enabled <=> cached.enabled)
         /\ (stored'.until <=> v) /\ (cached'.until <=> v)
         /\ (stored'.restore <=> stored.restore) /\ (cached'.restore <=> cached.restore)
  <1>1. stored' = [stored EXCEPT !.until = v] /\ cached' = [cached EXCEPT !.until = v]
    BY DEF Write
  <1> QED BY <1>1, Until DEF TypeOK

LEMMA WriteRestoreIs ==
  ASSUME TypeOK, NEW v \in BOOLEAN, Write("restore", v)
  PROVE  /\ stored' \in Settings /\ cached' \in Settings
         /\ (stored'.enabled <=> stored.enabled) /\ (cached'.enabled <=> cached.enabled)
         /\ (stored'.until <=> stored.until) /\ (cached'.until <=> cached.until)
         /\ (stored'.restore <=> v) /\ (cached'.restore <=> v)
  <1>1. stored' = [stored EXCEPT !.restore = v] /\ cached' = [cached EXCEPT !.restore = v]
    BY DEF Write
  <1> QED BY <1>1, Restores DEF TypeOK

LEMMA WriteType ==
  ASSUME TypeOK, NEW key \in {"enabled", "until", "restore"}, NEW v \in BOOLEAN, Write(key, v)
  PROVE  stored' \in Settings /\ cached' \in Settings
  BY WriteEnabled, WriteUntilIs, WriteRestoreIs

LEMMA EndWriteType ==
  ASSUME TypeOK, NEW step, NEW next, EndWrite(step, next)
  PROVE  /\ step \in EndSteps /\ stored' \in Settings /\ cached' \in Settings
  BY WriteType DEF EndWrite, EndSteps

LEMMA GotoIs ==
  ASSUME TypeOK, NEW h \in Handlers, NEW step \in {"idle"} \cup SnoozeSteps \cup SwitchSteps,
         Goto(h, step)
  PROVE  /\ handler' \in [Handlers -> {"idle"} \cup SnoozeSteps \cup SwitchSteps]
         /\ handler'[h] = step
         /\ \A g \in Handlers : g # h => handler'[g] = handler[g]
  BY DEF Goto, TypeOK

LEMMA StartTaskIs ==
  ASSUME TypeOK, StartTask
  PROVE  /\ task' \in [TaskIds -> {"none", "sleep"} \cup EndSteps]
         /\ current' \in TaskIds
         /\ \A t \in TaskIds : task'[t] = IF t = current' THEN "sleep" ELSE task[t]
  BY DEF StartTask, TypeOK

\* What a cancelled task may have committed keeps the types.
LEMMA CancelType ==
  ASSUME TypeOK, CancelSnooze
  PROVE  /\ current' = NoTask /\ cached' = cached /\ stored' \in Settings
         /\ task' \in [TaskIds -> {"none", "sleep"} \cup EndSteps]
         /\ \A t \in TaskIds : task'[t] = IF t = current THEN "none" ELSE task[t]
         /\ current = NoTask => UNCHANGED <<task, stored>>
  <1>1. stored \in Settings /\ cached \in Settings
    BY DEF TypeOK
  <1>2. CASE current = NoTask
    BY <1>1, <1>2, SnoozeAssumption DEF CancelSnooze, TypeOK
  <1>3. CASE current # NoTask
    <2>1. current \in TaskIds /\ task' = [task EXCEPT ![current] = "none"]
      BY <1>3 DEF CancelSnooze, TypeOK
    <2>2. stored' \in Settings
      <3>1. CASE stored' = [stored EXCEPT !.enabled = TRUE]
        BY <1>1, <3>1, Enabled
      <3>2. CASE stored' = [stored EXCEPT !.until = FALSE]
        BY <1>1, <3>2, Until
      <3>3. CASE stored' = [stored EXCEPT !.restore = TRUE]
        BY <1>1, <3>3, Restores
      <3> QED BY <1>1, <1>3, <3>1, <3>2, <3>3 DEF CancelSnooze
    <2> QED BY <1>3, <2>1, <2>2 DEF CancelSnooze, TypeOK
  <1> QED BY <1>2, <1>3
-----------------------------------------------------------------------------
(***************************************************************************)
(* Types.                                                                  *)
(***************************************************************************)

LEMMA BeginTypes ==
  ASSUME TypeOK, NEW h \in Handlers, CancelSnooze,
         NEW step \in {"restore", "until", "on_until", "off_until"}, Goto(h, step),
         wasEnabled' \in [Handlers -> BOOLEAN], damage' \in Damages,
         UNCHANGED <<startup, wanted>>
  PROVE  TypeOK'
  <1>1. /\ current' = NoTask /\ cached' = cached /\ stored' \in Settings
        /\ task' \in [TaskIds -> {"none", "sleep"} \cup EndSteps]
    BY CancelType
  <1>2. handler' \in [Handlers -> {"idle"} \cup SnoozeSteps \cup SwitchSteps]
    BY GotoIs DEF SnoozeSteps, SwitchSteps
  <1> QED BY <1>1, <1>2, SnoozeAssumption DEF TypeOK

LEMMA SnoozeTypes ==
  ASSUME TypeOK, NEW h \in Handlers, Snooze(h)
  PROVE  /\ TypeOK'
         /\ wasEnabled'[h] = IF cached.until THEN wasEnabled[h] ELSE cached.enabled
  <1>1. cached.enabled \in BOOLEAN /\ damage' \in Damages
    BY DEF TypeOK, Settings, Snooze, Damages
  <1>2. /\ wasEnabled' \in [Handlers -> BOOLEAN]
        /\ wasEnabled'[h] = IF cached.until THEN wasEnabled[h] ELSE cached.enabled
    <2>1. CASE cached.until
      BY <2>1 DEF Snooze, TypeOK
    <2>2. CASE ~cached.until
      <3>1. wasEnabled' = [wasEnabled EXCEPT ![h] = cached.enabled]
        BY <2>2 DEF Snooze
      <3>2. /\ wasEnabled' \in [Handlers -> BOOLEAN]
            /\ wasEnabled'[h] = cached.enabled
        BY <1>1, <3>1, Zenon DEF TypeOK
      <3> QED BY <2>2, <3>2
    <2> QED BY <2>1, <2>2
  <1> QED BY <1>1, <1>2, BeginTypes DEF Snooze

LEMMA SwitchTypes ==
  ASSUME TypeOK, NEW h \in Handlers, Switch(h)
  PROVE  TypeOK'
  <1>1. wasEnabled' \in [Handlers -> BOOLEAN] /\ damage' \in Damages
    BY DEF Switch, TypeOK, Damages
  <1>2. \E step \in {"on_until", "off_until"} : Goto(h, step)
    BY DEF Switch
  <1> QED BY <1>1, <1>2, BeginTypes DEF Switch

LEMMA HandlerTypes ==
  ASSUME TypeOK, NEW h \in Handlers, HandlerStep(h) \/ FailCommand(h)
  PROVE  TypeOK'
  <1>1. wasEnabled[h] \in BOOLEAN /\ damage \in Damages /\ Stuck \in Damages
    BY DEF TypeOK, Damages, Stuck
  <1>2. /\ WriteRestore(h) \/ FailCommand(h) => wasEnabled' \in [Handlers -> BOOLEAN]
        /\ wasEnabled \in [Handlers -> BOOLEAN]
    BY Zenon DEF WriteRestore, FailCommand, TypeOK
  <1>3. CASE WriteRestore(h)
    <2>1. handler' \in [Handlers -> {"idle"} \cup SnoozeSteps \cup SwitchSteps]
      BY <1>3, GotoIs DEF WriteRestore, SnoozeSteps
    <2>2. stored' \in Settings /\ cached' \in Settings
      BY <1>1, <1>3, WriteType DEF WriteRestore
    <2> QED BY <1>2, <1>3, <2>1, <2>2 DEF WriteRestore, TypeOK
  <1>4. CASE WriteUntil(h)
    <2>1. handler' \in [Handlers -> {"idle"} \cup SnoozeSteps \cup SwitchSteps]
      BY <1>4, GotoIs DEF WriteUntil, SnoozeSteps
    <2>2. stored' \in Settings /\ cached' \in Settings
      BY <1>4, WriteType DEF WriteUntil
    <2> QED BY <1>4, <2>1, <2>2 DEF WriteUntil, TypeOK
  <1>5. CASE WriteDisable(h)
    <2>1. handler' \in [Handlers -> {"idle"} \cup SnoozeSteps \cup SwitchSteps]
      BY <1>5, GotoIs DEF WriteDisable
    <2>2. stored' \in Settings /\ cached' \in Settings
      BY <1>5, WriteType DEF WriteDisable
    <2>3. /\ task' \in [TaskIds -> {"none", "sleep"} \cup EndSteps]
          /\ current' \in TaskIds /\ task'[current'] = "sleep"
      BY <1>5, StartTaskIs DEF WriteDisable
    <2> QED BY <1>5, <2>1, <2>2, <2>3 DEF WriteDisable, TypeOK
  <1>6. CASE SwitchUntil(h)
    <2>1. handler' \in [Handlers -> {"idle"} \cup SnoozeSteps \cup SwitchSteps]
      BY <1>6, GotoIs DEF SwitchUntil, SwitchSteps
    <2>2. stored' \in Settings /\ cached' \in Settings
      BY <1>6, WriteType DEF SwitchUntil
    <2> QED BY <1>6, <2>1, <2>2 DEF SwitchUntil, TypeOK
  <1>7. CASE SwitchEnabled(h)
    <2>1. handler' \in [Handlers -> {"idle"} \cup SnoozeSteps \cup SwitchSteps]
      BY <1>7, GotoIs DEF SwitchEnabled
    <2>2. stored' \in Settings /\ cached' \in Settings /\ wanted' \in {"on", "off"}
      BY <1>7, WriteType DEF SwitchEnabled
    <2> QED BY <1>7, <2>1, <2>2 DEF SwitchEnabled, TypeOK
  <1>8. CASE FailCommand(h)
    <2>1. handler' \in [Handlers -> {"idle"} \cup SnoozeSteps \cup SwitchSteps]
      BY <1>8, GotoIs DEF FailCommand
    <2>2. damage' \in Damages
      BY <1>1, <1>8 DEF FailCommand, Damages
    <2> QED BY <1>2, <1>8, <2>1, <2>2 DEF FailCommand, TypeOK
  <1> QED BY <1>3, <1>4, <1>5, <1>6, <1>7, <1>8 DEF HandlerStep

LEMMA TaskTypes ==
  ASSUME TypeOK, NEW t \in TaskIds, Wake(t) \/ Expire(t) \/ FailExpire(t)
  PROVE  TypeOK'
  <1>1. CASE Wake(t)
    BY <1>1 DEF Wake, EndSnooze, EndSteps, TypeOK
  <1>2. CASE Expire(t)
    <2>1. PICK next \in {"end_until", "end_restore", "done"} :
            /\ EndWrite(task[t], next)
            /\ task' = [task EXCEPT ![t] = IF next = "done" THEN "none" ELSE next]
            /\ current' = IF next = "done" /\ current = t THEN NoTask ELSE current
      BY <1>2 DEF Expire
    <2>2. stored' \in Settings /\ cached' \in Settings
      BY <2>1, EndWriteType
    <2> QED BY <1>2, <2>1, <2>2, SnoozeAssumption DEF Expire, EndSteps, TypeOK
  <1>3. CASE FailExpire(t)
    <2>1. damage' \in Damages
      BY <1>3 DEF FailExpire, Stuck, TypeOK, Damages
    <2> QED BY <1>3, <2>1, SnoozeAssumption DEF FailExpire, TypeOK
  <1> QED BY <1>1, <1>2, <1>3

LEMMA ProcessTypes ==
  ASSUME TypeOK, ReadSnooze \/ EndAtStartup \/ Restart \/ Crash
  PROVE  TypeOK'
  <1>1. CASE ReadSnooze
    <2>1. startup' \in {"done"} \cup EndSteps
      BY <1>1 DEF ReadSnooze, EndSnooze, EndSteps
    <2>2. CASE UNCHANGED <<task, current>>
      BY <1>1, <2>1, <2>2 DEF ReadSnooze, TypeOK
    <2>3. CASE StartTask
      <3>1. /\ task' \in [TaskIds -> {"none", "sleep"} \cup EndSteps]
            /\ current' \in TaskIds /\ task'[current'] = "sleep"
        BY <2>3, StartTaskIs
      <3> QED BY <1>1, <2>1, <3>1 DEF ReadSnooze, TypeOK
    <2> QED BY <1>1, <2>2, <2>3 DEF ReadSnooze
  <1>2. CASE EndAtStartup
    <2>1. PICK next \in {"end_until", "end_restore", "done"} :
            EndWrite(startup, next) /\ startup' = next
      BY <1>2 DEF EndAtStartup
    <2>2. stored' \in Settings /\ cached' \in Settings
      BY <2>1, EndWriteType
    <2> QED BY <1>2, <2>1, <2>2 DEF EndAtStartup, EndSteps, TypeOK
  <1>3. CASE Restart
    BY <1>3 DEF Restart, TypeOK
  <1>4. CASE Crash
    <2>1. damage' \in Damages
      BY <1>4 DEF Crash, Damages
    <2> QED BY <1>4, <2>1, SnoozeAssumption DEF Crash, TypeOK
  <1> QED BY <1>1, <1>2, <1>3, <1>4

LEMMA NextTypes == TypeOK /\ [Next]_vars => TypeOK'
  <1> SUFFICES ASSUME TypeOK, [Next]_vars PROVE TypeOK'
    OBVIOUS
  <1>1. CASE UNCHANGED vars
    BY <1>1 DEF vars, TypeOK
  <1>2. CASE \E h \in Handlers : Snooze(h) \/ Switch(h)
    BY <1>2, SnoozeTypes, SwitchTypes
  <1>3. CASE Work \/ Fault
    BY <1>3, HandlerTypes, TaskTypes, ProcessTypes DEF Work, Fault
  <1> QED BY <1>1, <1>2, <1>3 DEF Next
-----------------------------------------------------------------------------
(***************************************************************************)
(* What a command finds and leaves.                                        *)
(***************************************************************************)

\* What a cancelled task may have committed, it was about to commit rightly.
LEMMA CancelIs ==
  ASSUME TypeOK, CleanInv, NoSwitch, CancelSnooze, UNCHANGED wanted
  PROVE  /\ Meant(stored)'
         /\ stored'.until => cached.until
         /\ cached.until => (stored'.restore <=> cached.restore)
  <1>1. /\ Meant(stored) /\ Meant(cached)
        /\ stored.until => cached.until
        /\ cached.until => (stored.restore <=> cached.restore)
    BY DEF CleanInv, SettingsMeant, CacheBehind
  <1>2. CASE UNCHANGED stored
    BY <1>1, <1>2 DEF Meant, On
  <1>3. CASE current # NoTask /\ stored' # stored
    <2>1. stored \in Settings /\ EndReady(task[current])
      BY <1>3 DEF TypeOK, CleanInv, EndsReady
    <2>2. CASE task[current] = "end_enabled" /\ stored' = [stored EXCEPT !.enabled = TRUE]
      <3>1. /\ stored'.enabled
            /\ (stored'.until <=> stored.until) /\ (stored'.restore <=> stored.restore)
        BY <2>1, <2>2, Enabled
      <3>2. On
        BY <2>1, <2>2 DEF EndReady
      <3> QED BY <1>1, <3>1, <3>2 DEF Meant, On
    <2>3. CASE task[current] = "end_until" /\ stored' = [stored EXCEPT !.until = FALSE]
      <3>1. /\ ~stored'.until
            /\ (stored'.enabled <=> stored.enabled) /\ (stored'.restore <=> stored.restore)
        BY <2>1, <2>3, Until
      <3>2. stored.enabled <=> On
        BY <2>1, <2>3 DEF EndReady
      <3> QED BY <1>1, <3>1, <3>2 DEF Meant, On
    <2>4. CASE task[current] = "end_restore" /\ stored' = [stored EXCEPT !.restore = TRUE]
      <3>1. (stored'.enabled <=> stored.enabled) /\ (stored'.until <=> stored.until)
        BY <2>1, <2>4, Restores
      <3>2. ~stored.until /\ ~cached.until
        BY <2>1, <2>4 DEF EndReady
      <3> QED BY <1>1, <3>1, <3>2 DEF Meant, On
    <2> QED BY <1>3, <2>2, <2>3, <2>4 DEF CancelSnooze
  <1> QED BY <1>2, <1>3 DEF CancelSnooze

\* A handler that begins alone has cancelled the task; a switch may do so whatever was
\* left behind.
LEMMA BeginsAlone ==
  ASSUME TypeOK, NEW h \in Handlers, MayBegin(h), Alone, CancelSnooze,
         NEW step \in {"restore", "until", "on_until", "off_until"}, Goto(h, step),
         UNCHANGED startup
  PROVE  /\ OneActor' /\ EndsReady' /\ SleepsInSnooze' /\ QuietAgrees'
         /\ startup' = "done" /\ handler'[h] = step
         /\ \A g \in Handlers : handler[g] = "idle" /\ (g # h => handler'[g] = "idle")
  <1>1. \A g \in Handlers : handler[g] = "idle"
    BY DEF Alone, Busy, TypeOK
  <1>2. handler'[h] = step /\ \A g \in Handlers : g # h => handler'[g] = "idle"
    BY <1>1, GotoIs DEF SnoozeSteps, SwitchSteps
  <1>3. startup' = "done" /\ current' = NoTask /\ \A t \in TaskIds : task'[t] \notin EndSteps
    BY CancelType DEF Alone, EndSteps
  <1>4. OneActor' /\ QuietAgrees'
    BY <1>2, <1>3 DEF OneActor, QuietAgrees, SnoozeSteps
  <1>5. EndsReady' /\ SleepsInSnooze'
    BY <1>3, SnoozeAssumption DEF EndsReady, EndReady, EndSteps, SleepsInSnooze
  <1> QED BY <1>1, <1>2, <1>3, <1>4, <1>5

\* A snooze that met nobody starts from settings that say what the operator wants.
LEMMA SnoozeKeeps ==
  ASSUME IInv, NEW h \in Handlers, Snooze(h), Clean'
  PROVE  CleanInv'
  <1>1. Alone /\ Clean /\ TypeOK /\ CleanInv
    BY DEF Snooze, Clean, IInv
  <1>2. NoSwitch
    BY <1>1 DEF Alone, Busy, NoSwitch
  <1>3. PICK step \in {"restore", "until"} :
          /\ Goto(h, step)
          /\ step = "until" <=> cached.until
    BY DEF Snooze
  <1>4. /\ cached' = cached
        /\ Meant(stored)' /\ (stored'.until => cached.until)
        /\ cached.until => (stored'.restore <=> cached.restore)
    BY <1>1, <1>2, CancelIs, CancelType DEF Snooze
  <1>5. /\ OneActor' /\ EndsReady' /\ SleepsInSnooze' /\ QuietAgrees'
        /\ startup' = "done" /\ handler'[h] = step
        /\ \A g \in Handlers : handler[g] = "idle" /\ (g # h => handler'[g] = "idle")
    BY <1>1, <1>3, BeginsAlone DEF Snooze
  <1>6. Meant(cached) /\ Meant(cached)'
    BY <1>1, <1>2, <1>4 DEF CleanInv, SettingsMeant, Meant, On, Snooze
  <1>7. SettingsMeant' /\ CacheBehind'
    BY <1>4, <1>5, <1>6 DEF SettingsMeant, CacheBehind
  <1>8. HandlersReady'
    <2>1. step = "restore" => wasEnabled'[h] = cached.enabled
      BY <1>1, <1>3, SnoozeTypes
    <2>2. (On <=> On')
      BY DEF On, Snooze
    <2> QED BY <1>3, <1>4, <1>5, <1>6, <2>1, <2>2 DEF HandlersReady, Meant
  <1> QED BY <1>5, <1>7, <1>8 DEF CleanInv

\* A switch that meets nobody needs nothing; one that meets switches finds no task.
LEMMA SwitchKeeps ==
  ASSUME IInv, NEW h \in Handlers, Switch(h), Clean'
  PROVE  CleanInv'
  <1>1. TypeOK /\ handler[h] = "idle" /\ UNCHANGED <<startup, wasEnabled, wanted>>
    BY DEF IInv, Switch, MayBegin
  <1>2. PICK step \in {"on_until", "off_until"} : Goto(h, step)
    BY DEF Switch
  <1>3. CASE Alone
    <2>1. /\ OneActor' /\ EndsReady' /\ SleepsInSnooze' /\ QuietAgrees'
          /\ startup' = "done" /\ handler'[h] = step
          /\ \A g \in Handlers : handler[g] = "idle" /\ (g # h => handler'[g] = "idle")
      BY <1>1, <1>2, <1>3, BeginsAlone DEF Switch
    <2>2. ~NoSwitch'
      BY <2>1 DEF NoSwitch, SwitchSteps
    <2>3. SettingsMeant' /\ CacheBehind' /\ HandlersReady'
      BY <2>1, <2>2 DEF SettingsMeant, CacheBehind, HandlersReady
    <2> QED BY <2>1, <2>3 DEF CleanInv
  <1>4. CASE ~Alone
    <2>1. startup = "done" /\ ~Busy(SnoozeSteps) /\ Clean /\ CleanInv
      BY <1>4 DEF Switch, Clean, IInv
    <2>2. PICK g \in Handlers : handler[g] \in SwitchSteps
      BY <1>4, <2>1 DEF Alone, Busy, CleanInv, OneActor
    <2>3. current = NoTask /\ current' = NoTask /\ UNCHANGED <<task, stored, cached>>
      BY <1>1, <2>1, <2>2, CancelType DEF CleanInv, OneActor, SwitchSteps, Switch
    <2>4. /\ handler'[h] = step /\ \A f \in Handlers : f # h => handler'[f] = handler[f]
      BY <1>1, <1>2, GotoIs DEF SwitchSteps
    <2>5. ~NoSwitch' /\ \A f \in Handlers : handler'[f] \notin SnoozeSteps
      BY <2>1, <2>4 DEF NoSwitch, SwitchSteps, SnoozeSteps, Busy
    <2>6. OneActor' /\ QuietAgrees'
      BY <1>1, <2>1, <2>3, <2>4, <2>5 DEF CleanInv, OneActor, QuietAgrees
    <2>7. SettingsMeant' /\ CacheBehind'
      BY <1>1, <2>1, <2>5 DEF SettingsMeant, CacheBehind
    <2>8. EndsReady' /\ SleepsInSnooze'
      BY <1>1, <2>1, <2>3 DEF CleanInv, EndsReady, EndReady, SleepsInSnooze, On
    <2>9. HandlersReady'
      BY <1>1, <2>1, <2>3, <2>4 DEF CleanInv, HandlersReady, On
    <2> QED BY <2>6, <2>7, <2>8, <2>9 DEF CleanInv
  <1> QED BY <1>3, <1>4

\* While a snooze is at work, nothing else is.
LEMMA Busied ==
  ASSUME OneActor, NEW h \in Handlers, handler[h] \in SnoozeSteps
  PROVE  /\ startup = "done" /\ current = NoTask
         /\ \A t \in TaskIds : task[t] \notin EndSteps
         /\ \A g \in Handlers : g # h => handler[g] = "idle"
  BY SnoozeAssumption DEF OneActor, SnoozeSteps

LEMMA WriteRestoreKeeps ==
  ASSUME TypeOK, CleanInv, NEW h \in Handlers, WriteRestore(h)
  PROVE  CleanInv'
  <1>1. handler[h] = "restore" /\ UNCHANGED <<task, current, startup, wanted>>
    BY DEF WriteRestore
  <1>2. /\ startup = "done" /\ current = NoTask /\ \A t \in TaskIds : task[t] \notin EndSteps
        /\ \A g \in Handlers : g # h => handler[g] = "idle"
    BY <1>1, Busied DEF CleanInv, SnoozeSteps
  <1>3. (wasEnabled[h] <=> On) /\ ~stored.until /\ ~cached.until
    BY <1>1 DEF CleanInv, HandlersReady
  <1>4. Meant(stored) /\ Meant(cached)
    BY <1>1, <1>2 DEF CleanInv, SettingsMeant, NoSwitch, SwitchSteps
  <1>5. /\ (stored'.enabled <=> stored.enabled) /\ (cached'.enabled <=> cached.enabled)
        /\ ~stored'.until /\ ~cached'.until
        /\ (stored'.restore <=> On) /\ (cached'.restore <=> On)
    <2>1. wasEnabled[h] \in BOOLEAN
      BY DEF TypeOK
    <2> QED BY <1>3, <2>1, WriteRestoreIs DEF WriteRestore
  <1>6. handler'[h] = "until" /\ \A g \in Handlers : g # h => handler'[g] = "idle"
    BY <1>2, GotoIs DEF WriteRestore, SnoozeSteps
  <1>7. OneActor' /\ QuietAgrees'
    BY <1>1, <1>2, <1>6 DEF OneActor, QuietAgrees, SnoozeSteps
  <1>8. SettingsMeant' /\ CacheBehind'
    <2>1. Meant(stored)' /\ Meant(cached)'
      BY <1>1, <1>3, <1>4, <1>5 DEF Meant, On
    <2> QED BY <1>1, <1>2, <1>5, <2>1 DEF SettingsMeant, CacheBehind
  <1>9. EndsReady' /\ SleepsInSnooze'
    BY <1>1, <1>2, SnoozeAssumption DEF EndsReady, EndReady, EndSteps, SleepsInSnooze
  <1>10. HandlersReady'
    BY <1>1, <1>5, <1>6 DEF HandlersReady, On
  <1> QED BY <1>7, <1>8, <1>9, <1>10 DEF CleanInv

LEMMA WriteUntilKeeps ==
  ASSUME TypeOK, CleanInv, NEW h \in Handlers, WriteUntil(h)
  PROVE  CleanInv'
  <1>1. handler[h] = "until" /\ UNCHANGED <<task, current, startup, wasEnabled, wanted>>
    BY DEF WriteUntil
  <1>2. /\ startup = "done" /\ current = NoTask /\ \A t \in TaskIds : task[t] \notin EndSteps
        /\ \A g \in Handlers : g # h => handler[g] = "idle"
    BY <1>1, Busied DEF CleanInv, SnoozeSteps
  <1>3. (stored.restore <=> On) /\ (cached.restore <=> On)
    BY <1>1 DEF CleanInv, HandlersReady
  <1>4. Meant(stored) /\ Meant(cached)
    BY <1>1, <1>2 DEF CleanInv, SettingsMeant, NoSwitch, SwitchSteps
  <1>5. /\ (stored'.enabled <=> stored.enabled) /\ (cached'.enabled <=> cached.enabled)
        /\ stored'.until /\ cached'.until
        /\ (stored'.restore <=> On) /\ (cached'.restore <=> On)
    BY <1>3, WriteUntilIs DEF WriteUntil
  <1>6. handler'[h] = "disable" /\ \A g \in Handlers : g # h => handler'[g] = "idle"
    BY <1>2, GotoIs DEF WriteUntil, SnoozeSteps
  <1>7. OneActor' /\ QuietAgrees'
    BY <1>1, <1>2, <1>6 DEF OneActor, QuietAgrees, SnoozeSteps
  <1>8. SettingsMeant' /\ CacheBehind'
    <2>1. Meant(stored)' /\ Meant(cached)'
      BY <1>1, <1>4, <1>5 DEF Meant, On
    <2> QED BY <1>1, <1>2, <1>5, <2>1 DEF SettingsMeant, CacheBehind
  <1>9. EndsReady' /\ SleepsInSnooze'
    BY <1>1, <1>2, SnoozeAssumption DEF EndsReady, EndReady, EndSteps, SleepsInSnooze
  <1>10. HandlersReady'
    BY <1>1, <1>5, <1>6 DEF HandlersReady, On
  <1> QED BY <1>7, <1>8, <1>9, <1>10 DEF CleanInv

LEMMA WriteDisableKeeps ==
  ASSUME TypeOK, CleanInv, NEW h \in Handlers, WriteDisable(h)
  PROVE  CleanInv'
  <1>1. handler[h] = "disable" /\ UNCHANGED <<startup, wasEnabled, wanted>>
    BY DEF WriteDisable
  <1>2. /\ startup = "done" /\ \A t \in TaskIds : task[t] \notin EndSteps
        /\ \A g \in Handlers : g # h => handler[g] = "idle"
    BY <1>1, Busied DEF CleanInv, SnoozeSteps
  <1>3. /\ (stored.restore <=> On) /\ (cached.restore <=> On)
        /\ stored.until /\ cached.until
    BY <1>1 DEF CleanInv, HandlersReady
  <1>4. /\ ~stored'.enabled /\ ~cached'.enabled
        /\ stored'.until /\ cached'.until
        /\ (stored'.restore <=> On) /\ (cached'.restore <=> On)
    BY <1>3, WriteEnabled DEF WriteDisable
  <1>5. /\ current' \in TaskIds
        /\ \A t \in TaskIds : task'[t] \notin EndSteps
    BY <1>2, StartTaskIs DEF WriteDisable, EndSteps
  <1>6. \A g \in Handlers : handler'[g] = "idle"
    BY <1>2, GotoIs DEF WriteDisable
  <1>7. OneActor'
    BY <1>1, <1>2, <1>5, <1>6 DEF OneActor, SnoozeSteps
  <1>8. SettingsMeant' /\ CacheBehind'
    BY <1>1, <1>2, <1>4 DEF SettingsMeant, CacheBehind, Meant, On
  <1>9. EndsReady' /\ SleepsInSnooze'
    BY <1>1, <1>2, <1>4, <1>5 DEF EndsReady, EndReady, EndSteps, SleepsInSnooze
  <1>10. HandlersReady' /\ QuietAgrees'
    BY <1>4, <1>6 DEF HandlersReady, QuietAgrees
  <1> QED BY <1>7, <1>8, <1>9, <1>10 DEF CleanInv

LEMMA SwitchUntilKeeps ==
  ASSUME TypeOK, CleanInv, NEW h \in Handlers, SwitchUntil(h)
  PROVE  CleanInv'
  <1>1. /\ handler[h] \in SwitchSteps
        /\ UNCHANGED <<task, current, startup, wasEnabled, wanted>>
    BY DEF SwitchUntil, SwitchSteps
  <1>2. /\ startup = "done" /\ current = NoTask
        /\ \A t \in TaskIds : task[t] \notin EndSteps
        /\ \A g \in Handlers : handler[g] \notin SnoozeSteps
    BY <1>1, SnoozeAssumption DEF CleanInv, OneActor, SwitchSteps, SnoozeSteps
  <1>3. ~stored'.until /\ ~cached'.until
    BY WriteUntilIs DEF SwitchUntil
  <1>4. PICK step \in {"on_enabled", "off_enabled"} : Goto(h, step)
    BY DEF SwitchUntil
  <1>5. handler'[h] = step /\ \A g \in Handlers : g # h => handler'[g] = handler[g]
    BY <1>4, GotoIs DEF SwitchSteps
  <1>6. ~NoSwitch' /\ \A g \in Handlers : handler'[g] \notin SnoozeSteps
    BY <1>2, <1>5 DEF NoSwitch, SwitchSteps, SnoozeSteps
  <1>7. OneActor' /\ QuietAgrees'
    BY <1>1, <1>2, <1>5, <1>6 DEF OneActor, QuietAgrees
  <1>8. SettingsMeant' /\ CacheBehind'
    BY <1>1, <1>2, <1>6 DEF SettingsMeant, CacheBehind
  <1>9. EndsReady' /\ SleepsInSnooze'
    BY <1>1, <1>2, SnoozeAssumption DEF EndsReady, EndReady, EndSteps, SleepsInSnooze
  <1>10. HandlersReady'
    BY <1>3, <1>6 DEF HandlersReady, SnoozeSteps
  <1> QED BY <1>7, <1>8, <1>9, <1>10 DEF CleanInv

LEMMA SwitchEnabledKeeps ==
  ASSUME TypeOK, CleanInv, NEW h \in Handlers, SwitchEnabled(h)
  PROVE  CleanInv'
  <1>1. /\ handler[h] \in {"on_enabled", "off_enabled"}
        /\ UNCHANGED <<task, current, startup, wasEnabled>>
    BY DEF SwitchEnabled
  <1>2. /\ startup = "done" /\ current = NoTask
        /\ \A t \in TaskIds : task[t] \notin EndSteps
        /\ \A g \in Handlers : handler[g] \notin SnoozeSteps
    BY <1>1, SnoozeAssumption DEF CleanInv, OneActor, SnoozeSteps
  <1>3. ~stored.until /\ ~cached.until
    BY <1>1 DEF CleanInv, HandlersReady
  <1>4. /\ ~stored'.until /\ ~cached'.until
        /\ (stored'.enabled <=> wanted' = "on") /\ (cached'.enabled <=> wanted' = "on")
    <2>1. CASE Write("enabled", TRUE) /\ wanted' = "on"
      BY <1>3, <2>1, WriteEnabled
    <2>2. CASE Write("enabled", FALSE) /\ wanted' = "off"
      BY <1>3, <2>2, WriteEnabled
    <2> QED BY <2>1, <2>2 DEF SwitchEnabled
  <1>5. handler'[h] = "idle" /\ \A g \in Handlers : g # h => handler'[g] = handler[g]
    BY GotoIs DEF SwitchEnabled
  <1>6. \A g \in Handlers : handler'[g] \notin SnoozeSteps
    BY <1>2, <1>5 DEF SnoozeSteps
  <1>7. OneActor' /\ QuietAgrees'
    BY <1>1, <1>2, <1>4, <1>5, <1>6 DEF OneActor, QuietAgrees
  <1>8. SettingsMeant' /\ CacheBehind'
    BY <1>1, <1>2, <1>4 DEF SettingsMeant, CacheBehind, Meant, On
  <1>9. EndsReady' /\ SleepsInSnooze'
    BY <1>1, <1>2, SnoozeAssumption DEF EndsReady, EndReady, EndSteps, SleepsInSnooze
  <1>10. HandlersReady'
    BY <1>4, <1>6 DEF HandlersReady, SnoozeSteps
  <1> QED BY <1>7, <1>8, <1>9, <1>10 DEF CleanInv

\* A snooze that fails at one of its writes leaves the settings recoverable.
LEMMA FailCommandKeeps ==
  ASSUME TypeOK, CleanInv, NEW h \in Handlers, FailCommand(h), Clean'
  PROVE  CleanInv'
  <1>1. /\ handler[h] \in SnoozeSteps
        /\ cached.enabled = stored.enabled /\ cached.until = stored.until
        /\ UNCHANGED <<stored, cached, task, current, startup, wanted>>
    BY DEF FailCommand, Clean
  <1>2. /\ startup = "done" /\ current = NoTask /\ \A t \in TaskIds : task[t] \notin EndSteps
        /\ \A g \in Handlers : g # h => handler[g] = "idle"
    BY <1>1, Busied DEF CleanInv
  <1>3. \A g \in Handlers : handler'[g] = "idle"
    BY <1>2, GotoIs DEF FailCommand
  <1>4. NoSwitch
    BY <1>1, <1>2 DEF NoSwitch, SwitchSteps, SnoozeSteps
  <1>5. OneActor' /\ QuietAgrees'
    BY <1>1, <1>2, <1>3 DEF OneActor, QuietAgrees, SnoozeSteps
  <1>6. SettingsMeant' /\ CacheBehind'
    BY <1>1, <1>2, <1>4 DEF CleanInv, SettingsMeant, CacheBehind, Meant, On
  <1>7. EndsReady' /\ SleepsInSnooze'
    BY <1>1, <1>2, SnoozeAssumption DEF EndsReady, EndReady, EndSteps, SleepsInSnooze
  <1>8. HandlersReady'
    BY <1>3 DEF HandlersReady
  <1> QED BY <1>5, <1>6, <1>7, <1>8 DEF CleanInv
-----------------------------------------------------------------------------
(***************************************************************************)
(* The end of a snooze.                                                    *)
(***************************************************************************)

\* A write of the end of a snooze, by its task or by the startup: no handler is
\* at work.
LEMMA EndWriteIs ==
  ASSUME TypeOK, CleanInv, \A h \in Handlers : handler[h] = "idle",
         NEW step \in {"none", "sleep", "down", "read", "done"} \cup EndSteps, EndReady(step),
         NEW next \in {"end_until", "end_restore", "done"}, EndWrite(step, next),
         UNCHANGED wanted
  PROVE  /\ step \in EndSteps
         /\ Meant(stored)' /\ Meant(cached)'
         /\ stored'.until => cached'.until
         /\ cached'.until => (stored'.restore <=> cached'.restore)
         /\ EndReady(next)'
         /\ stored'.enabled <=> cached'.enabled
         /\ stored'.until <=> cached'.until
  <1>1. Meant(stored) /\ Meant(cached)
    BY DEF CleanInv, SettingsMeant, NoSwitch, SwitchSteps
  <1>2. /\ stored.until => cached.until
        /\ cached.until => (stored.restore <=> cached.restore)
        /\ stored.enabled <=> cached.enabled
        /\ stored.until <=> cached.until
    BY DEF CleanInv, NoSwitch, SwitchSteps, CacheBehind, QuietAgrees
  <1>3. CASE step = "end_enabled" /\ Write("enabled", TRUE) /\ next = "end_until"
    <2>1. /\ stored'.enabled /\ cached'.enabled
          /\ (stored'.until <=> stored.until) /\ (cached'.until <=> cached.until)
          /\ (stored'.restore <=> stored.restore) /\ (cached'.restore <=> cached.restore)
      BY <1>3, WriteEnabled
    <2>2. On
      BY <1>3 DEF EndReady
    <2> QED BY <1>1, <1>2, <1>3, <2>1, <2>2 DEF Meant, EndReady, EndSteps, On
  <1>4. CASE step = "end_until" /\ Write("until", FALSE) /\ next = "end_restore"
    <2>1. /\ (stored'.enabled <=> stored.enabled) /\ (cached'.enabled <=> cached.enabled)
          /\ ~stored'.until /\ ~cached'.until
      BY <1>4, WriteUntilIs
    <2>2. (stored.enabled <=> On) /\ (cached.enabled <=> On)
      BY <1>4 DEF EndReady
    <2> QED BY <1>4, <2>1, <2>2 DEF Meant, EndReady, EndSteps, On
  <1>5. CASE step = "end_restore" /\ Write("restore", TRUE) /\ next = "done"
    <2>1. /\ (stored'.enabled <=> stored.enabled) /\ (cached'.enabled <=> cached.enabled)
          /\ (stored'.until <=> stored.until) /\ (cached'.until <=> cached.until)
      BY <1>5, WriteRestoreIs
    <2>2. ~stored.until /\ ~cached.until
      BY <1>5 DEF EndReady
    <2> QED BY <1>1, <1>5, <2>1, <2>2 DEF Meant, EndReady, EndSteps, On
  <1> QED BY <1>3, <1>4, <1>5 DEF EndWrite

\* Where the end of a snooze begins, and what it may rely on.
LEMMA EndSnoozeReady ==
  ASSUME TypeOK, CleanInv, \A h \in Handlers : handler[h] = "idle",
         cached.until, stored.enabled <=> cached.enabled
  PROVE  EndSnooze \in EndSteps /\ EndReady(EndSnooze)
  <1>1. Meant(cached)
    BY DEF CleanInv, SettingsMeant, NoSwitch, SwitchSteps
  <1>2. CASE cached.restore
    BY <1>1, <1>2 DEF EndSnooze, EndSteps, EndReady, Meant
  <1>3. CASE ~cached.restore
    BY <1>1, <1>3 DEF EndSnooze, EndSteps, EndReady, Meant
  <1> QED BY <1>2, <1>3

\* A task that ends a snooze is the current one, and no handler is at work.
LEMMA Awake ==
  ASSUME TypeOK, CleanInv, NEW t \in TaskIds, current = t \/ task[t] \in EndSteps
  PROVE  /\ current = t /\ startup = "done"
         /\ \A h \in Handlers : handler[h] = "idle"
         /\ \A u \in TaskIds : u # t => task[u] \notin EndSteps
  BY SnoozeAssumption DEF CleanInv, OneActor

LEMMA WakeKeeps ==
  ASSUME TypeOK, CleanInv, NEW t \in TaskIds, Wake(t)
  PROVE  CleanInv'
  <1>1. /\ task[t] = "sleep"
        /\ UNCHANGED <<stored, cached, current, startup, handler, wasEnabled, wanted>>
    BY DEF Wake
  <1>2. SettingsMeant' /\ CacheBehind' /\ HandlersReady' /\ QuietAgrees'
    BY <1>1 DEF CleanInv, SettingsMeant, NoSwitch, CacheBehind, HandlersReady, QuietAgrees,
                Meant, On
  <1>3. CASE current # t
    <2>1. \A u \in TaskIds : task'[u] = IF u = t THEN "none" ELSE task[u]
      BY <1>3 DEF Wake, TypeOK
    <2>2. OneActor' /\ EndsReady' /\ SleepsInSnooze'
      BY <1>1, <1>3, <2>1 DEF CleanInv, OneActor, EndsReady, EndReady, EndSteps,
                              SleepsInSnooze, On
    <2> QED BY <1>2, <2>2 DEF CleanInv
  <1>4. CASE current = t
    <2>1. /\ startup = "done" /\ \A h \in Handlers : handler[h] = "idle"
          /\ \A u \in TaskIds : u # t => task[u] \notin EndSteps
      BY <1>4, Awake
    <2>2. EndSnooze \in EndSteps /\ EndReady(EndSnooze)
      BY <1>1, <1>4, <2>1, EndSnoozeReady DEF CleanInv, QuietAgrees, SleepsInSnooze
    <2>3. PICK e \in EndSteps : e = EndSnooze /\ EndReady(e)
      BY <2>2
    <2>4. task' = [task EXCEPT ![t] = e] /\ EndReady(e)'
      BY <1>1, <1>4, <2>3 DEF Wake, EndReady, On
    <2>5. \A u \in TaskIds : task'[u] = IF u = t THEN e ELSE task[u]
      BY <2>4 DEF TypeOK
    <2>6. OneActor'
      BY <1>1, <1>4, <2>1, <2>5 DEF CleanInv, OneActor
    <2>7. EndsReady' /\ SleepsInSnooze'
      BY <1>1, <1>4, <2>1, <2>4, <2>5 DEF EndsReady, EndReady, SleepsInSnooze, EndSteps
    <2> QED BY <1>2, <2>6, <2>7 DEF CleanInv
  <1> QED BY <1>3, <1>4

LEMMA ExpireKeeps ==
  ASSUME TypeOK, CleanInv, NEW t \in TaskIds, Expire(t)
  PROVE  CleanInv'
  <1>1. PICK next \in {"end_until", "end_restore", "done"} :
          /\ EndWrite(task[t], next)
          /\ task' = [task EXCEPT ![t] = IF next = "done" THEN "none" ELSE next]
          /\ current' = IF next = "done" /\ current = t THEN NoTask ELSE current
    BY DEF Expire
  <1>2. UNCHANGED <<startup, handler, wasEnabled, wanted>>
    BY DEF Expire
  <1>3. task[t] \in EndSteps
    BY <1>1 DEF EndWrite, EndSteps
  <1>4. /\ current = t /\ startup = "done"
        /\ \A h \in Handlers : handler[h] = "idle"
        /\ \A u \in TaskIds : u # t => task[u] \notin EndSteps
    BY <1>3, Awake
  <1>5. EndReady(task[t])
    BY DEF CleanInv, EndsReady
  <1>6. /\ Meant(stored)' /\ Meant(cached)'
        /\ stored'.until => cached'.until
        /\ cached'.until => (stored'.restore <=> cached'.restore)
        /\ EndReady(next)'
        /\ stored'.enabled <=> cached'.enabled
        /\ stored'.until <=> cached'.until
    BY <1>1, <1>2, <1>3, <1>4, <1>5, EndWriteIs
  <1>7. /\ task'[t] = IF next = "done" THEN "none" ELSE next
        /\ \A u \in TaskIds : u # t => task'[u] = task[u]
    BY <1>1 DEF TypeOK
  <1>8. OneActor'
    BY <1>1, <1>2, <1>4, <1>7, SnoozeAssumption DEF OneActor, EndSteps, SnoozeSteps
  <1>9. SettingsMeant' /\ CacheBehind' /\ HandlersReady' /\ QuietAgrees'
    BY <1>2, <1>4, <1>6 DEF SettingsMeant, CacheBehind, HandlersReady, QuietAgrees
  <1>10. EndsReady' /\ SleepsInSnooze'
    BY <1>1, <1>2, <1>4, <1>6, <1>7, SnoozeAssumption
       DEF EndsReady, EndReady, EndSteps, SleepsInSnooze
  <1> QED BY <1>8, <1>9, <1>10 DEF CleanInv

\* An expiry that fails has written a prefix of what it meant to.
LEMMA FailExpireKeeps ==
  ASSUME TypeOK, CleanInv, NEW t \in TaskIds, FailExpire(t)
  PROVE  CleanInv'
  <1>1. /\ task[t] \in EndSteps /\ task' = [task EXCEPT ![t] = "none"]
        /\ UNCHANGED <<stored, cached, startup, handler, wasEnabled, wanted>>
    BY DEF FailExpire
  <1>2. /\ current = t /\ startup = "done"
        /\ \A h \in Handlers : handler[h] = "idle"
        /\ \A u \in TaskIds : u # t => task[u] \notin EndSteps
    BY <1>1, Awake
  <1>3. /\ current' = NoTask
        /\ \A u \in TaskIds : task'[u] = IF u = t THEN "none" ELSE task[u]
    BY <1>1, <1>2 DEF FailExpire, TypeOK
  <1>4. OneActor'
    BY <1>1, <1>2, <1>3 DEF OneActor, EndSteps, SnoozeSteps
  <1>5. SettingsMeant' /\ CacheBehind' /\ HandlersReady' /\ QuietAgrees'
    BY <1>1 DEF CleanInv, SettingsMeant, NoSwitch, CacheBehind, HandlersReady, QuietAgrees,
                Meant, On
  <1>6. EndsReady' /\ SleepsInSnooze'
    BY <1>1, <1>2, <1>3, SnoozeAssumption DEF EndsReady, EndReady, EndSteps, SleepsInSnooze
  <1> QED BY <1>4, <1>5, <1>6 DEF CleanInv
-----------------------------------------------------------------------------
(***************************************************************************)
(* The process.                                                            *)
(***************************************************************************)

LEMMA EndAtStartupKeeps ==
  ASSUME TypeOK, CleanInv, EndAtStartup
  PROVE  CleanInv'
  <1>1. PICK next \in {"end_until", "end_restore", "done"} :
          EndWrite(startup, next) /\ startup' = next
    BY DEF EndAtStartup
  <1>2. UNCHANGED <<task, current, handler, wasEnabled, wanted>>
    BY DEF EndAtStartup
  <1>3. startup \in EndSteps
    BY <1>1 DEF EndWrite, EndSteps
  <1>4. /\ current = NoTask
        /\ \A h \in Handlers : handler[h] = "idle"
        /\ \A t \in TaskIds : task[t] \notin EndSteps
    BY <1>3, SnoozeAssumption DEF CleanInv, OneActor, EndSteps
  <1>5. EndReady(startup)
    BY DEF CleanInv, EndsReady
  <1>6. /\ Meant(stored)' /\ Meant(cached)'
        /\ stored'.until => cached'.until
        /\ cached'.until => (stored'.restore <=> cached'.restore)
        /\ EndReady(next)'
        /\ stored'.enabled <=> cached'.enabled
        /\ stored'.until <=> cached'.until
    BY <1>1, <1>2, <1>3, <1>4, <1>5, EndWriteIs
  <1>7. OneActor'
    BY <1>2, <1>4, SnoozeAssumption DEF OneActor, SnoozeSteps
  <1>8. SettingsMeant' /\ CacheBehind' /\ HandlersReady' /\ QuietAgrees'
    BY <1>1, <1>2, <1>4, <1>6 DEF SettingsMeant, CacheBehind, HandlersReady, QuietAgrees
  <1>9. EndsReady' /\ SleepsInSnooze'
    BY <1>1, <1>2, <1>4, <1>6, SnoozeAssumption
       DEF EndsReady, EndReady, EndSteps, SleepsInSnooze
  <1> QED BY <1>7, <1>8, <1>9 DEF CleanInv

LEMMA ReadSnoozeKeeps ==
  ASSUME TypeOK, CleanInv, ReadSnooze
  PROVE  CleanInv'
  <1>1. startup = "read" /\ UNCHANGED <<stored, cached, handler, wasEnabled, wanted>>
    BY DEF ReadSnooze
  <1>2. /\ current = NoTask /\ cached = stored
        /\ \A h \in Handlers : handler[h] = "idle"
        /\ \A t \in TaskIds : task[t] \notin EndSteps
    BY <1>1, SnoozeAssumption DEF CleanInv, OneActor, CacheBehind
  <1>3. SettingsMeant' /\ HandlersReady' /\ CacheBehind' /\ QuietAgrees'
    BY <1>1, <1>2 DEF CleanInv, SettingsMeant, NoSwitch, HandlersReady, CacheBehind,
                      QuietAgrees, Meant, On
  <1>4. CASE startup' \in {"done"} \cup EndSteps /\ EndReady(startup') /\ UNCHANGED <<task, current>>
    <2>1. OneActor'
      BY <1>1, <1>2, <1>4, SnoozeAssumption DEF OneActor, SnoozeSteps
    <2>2. EndsReady' /\ SleepsInSnooze'
      BY <1>1, <1>2, <1>4, SnoozeAssumption
         DEF EndsReady, EndReady, EndSteps, SleepsInSnooze, On
    <2> QED BY <1>3, <2>1, <2>2 DEF CleanInv
  <1>5. CASE cached.until /\ startup' = "done" /\ StartTask
    <2>1. \A t \in TaskIds : task'[t] \notin EndSteps
      BY <1>2, <1>5, StartTaskIs DEF EndSteps
    <2>2. OneActor'
      BY <1>1, <1>2, <1>5, <2>1 DEF OneActor, SnoozeSteps
    <2>3. EndsReady' /\ SleepsInSnooze'
      BY <1>1, <1>2, <1>5, <2>1 DEF EndsReady, EndReady, EndSteps, SleepsInSnooze
    <2> QED BY <1>3, <2>2, <2>3 DEF CleanInv
  <1>6. cached.until => EndSnooze \in EndSteps /\ EndReady(EndSnooze)
    BY <1>2, EndSnoozeReady
  <1>7. EndReady("done")
    BY DEF EndReady
  <1> HIDE DEF EndSnooze
  <1> QED BY <1>4, <1>5, <1>6, <1>7 DEF ReadSnooze

\* A crash between two writes of a snooze or of its end leaves what the database
\* says; one within a switch counts as damage.
LEMMA CrashKeeps ==
  ASSUME TypeOK, CleanInv, Crash, Clean'
  PROVE  CleanInv'
  <1>1. NoSwitch
    BY DEF Crash, Busy, NoSwitch, Clean
  <1>2. Meant(stored)
    BY <1>1 DEF CleanInv, SettingsMeant
  <1>3. /\ stored' = stored /\ cached' = stored /\ startup' = "down" /\ current' = NoTask
        /\ task' = [t \in TaskIds |-> "none"] /\ handler' = [h \in Handlers |-> "idle"]
        /\ wanted' = wanted
    BY DEF Crash
  <1>4. OneActor'
    BY <1>3, SnoozeAssumption DEF OneActor, EndSteps
  <1>5. SettingsMeant' /\ CacheBehind'
    BY <1>2, <1>3 DEF SettingsMeant, CacheBehind, Meant, On
  <1>6. EndsReady' /\ SleepsInSnooze' /\ HandlersReady' /\ QuietAgrees'
    BY <1>3 DEF EndsReady, EndReady, SleepsInSnooze, HandlersReady, QuietAgrees
  <1> QED BY <1>4, <1>5, <1>6 DEF CleanInv

LEMMA RestartKeeps ==
  ASSUME TypeOK, CleanInv, Restart
  PROVE  CleanInv'
  <1>1. /\ startup = "down" /\ startup' = "read"
        /\ UNCHANGED <<stored, cached, task, current, handler, wasEnabled, wanted>>
    BY DEF Restart
  <1>2. OneActor'
    BY <1>1 DEF CleanInv, OneActor
  <1>3. SettingsMeant' /\ CacheBehind' /\ QuietAgrees'
    BY <1>1 DEF CleanInv, SettingsMeant, NoSwitch, CacheBehind, QuietAgrees, Meant, On
  <1>4. EndsReady' /\ SleepsInSnooze' /\ HandlersReady'
    BY <1>1 DEF CleanInv, EndsReady, EndReady, SleepsInSnooze, HandlersReady, On
  <1> QED BY <1>2, <1>3, <1>4 DEF CleanInv

LEMMA InitHolds == Init => IInv
  <1> SUFFICES ASSUME Init PROVE IInv
    OBVIOUS
  <1>1. PICK on \in BOOLEAN :
          /\ stored = [enabled |-> on, until |-> FALSE, restore |-> TRUE]
          /\ wanted = IF on THEN "on" ELSE "off"
    BY DEF Init
  <1>2. /\ cached = stored /\ stored \in Settings /\ ~stored.until
        /\ (stored.enabled <=> On) /\ wanted \in {"on", "off"}
    BY <1>1 DEF Init, Settings, On
  <1>3. TypeOK
    BY <1>2, SnoozeAssumption DEF Init, TypeOK, Damages
  <1>4. OneActor
    BY SnoozeAssumption DEF Init, OneActor, EndSteps
  <1>5. SettingsMeant /\ CacheBehind /\ QuietAgrees
    BY <1>2 DEF SettingsMeant, CacheBehind, QuietAgrees, Meant
  <1>6. EndsReady /\ SleepsInSnooze /\ HandlersReady
    BY DEF Init, EndsReady, EndReady, SleepsInSnooze, HandlersReady
  <1> QED BY <1>3, <1>4, <1>5, <1>6 DEF IInv, CleanInv

\* Only a switch alone repairs what was mixed; every other step starts from where
\* nothing is.
LEMMA Inductive == IInv /\ [Next]_vars => IInv'
  <1> SUFFICES ASSUME IInv, [Next]_vars PROVE IInv'
    OBVIOUS
  <1>1. TypeOK /\ TypeOK'
    BY NextTypes DEF IInv
  <1> SUFFICES ASSUME Clean' PROVE CleanInv'
    BY <1>1 DEF IInv
  <1>2. CASE UNCHANGED vars
    <2>1. CleanInv
      BY <1>2 DEF vars, IInv, Clean
    <2> QED BY <1>2, <2>1
            DEF vars, CleanInv, OneActor, SettingsMeant, NoSwitch, CacheBehind, EndsReady,
                EndReady, SleepsInSnooze, HandlersReady, QuietAgrees, Meant, On
  <1>3. CASE \E h \in Handlers : Snooze(h) \/ Switch(h)
    BY <1>3, SnoozeKeeps, SwitchKeeps
  <1>4. CASE Work
    <2>1. damage' = damage
      BY <1>4 DEF Work, ReadSnooze, EndAtStartup, Restart, Wake, Expire, HandlerStep,
                  WriteRestore, WriteUntil, WriteDisable, SwitchUntil, SwitchEnabled
    <2>2. CleanInv
      BY <2>1 DEF IInv, Clean
    <2>3. CASE ReadSnooze \/ EndAtStartup \/ Restart
      BY <1>1, <2>2, <2>3, ReadSnoozeKeeps, EndAtStartupKeeps, RestartKeeps
    <2>4. CASE \E t \in TaskIds : Wake(t) \/ Expire(t)
      BY <1>1, <2>2, <2>4, WakeKeeps, ExpireKeeps
    <2>5. CASE \E h \in Handlers : HandlerStep(h)
      BY <1>1, <2>2, <2>5, WriteRestoreKeeps, WriteUntilKeeps, WriteDisableKeeps,
         SwitchUntilKeeps, SwitchEnabledKeeps DEF HandlerStep
    <2> QED BY <1>4, <2>3, <2>4, <2>5 DEF Work
  <1>5. CASE Fault
    <2>1. Clean
      BY <1>5 DEF Fault, Crash, FailExpire, FailCommand, Stuck, Clean
    <2>2. CleanInv
      BY <2>1 DEF IInv
    <2> QED BY <1>1, <1>5, <2>2, CrashKeeps, FailExpireKeeps, FailCommandKeeps DEF Fault
  <1> QED BY <1>2, <1>3, <1>4, <1>5 DEF Next
-----------------------------------------------------------------------------
\* Every state of the switch and the snooze satisfies the invariant.
THEOREM SnoozeInvariant == Spec => []IInv
  <1> QED BY InitHolds, Inductive, PTL DEF Spec

\* The settings, tasks and handlers are what they should be, and _snooze_task is
\* never a task that has ended, whatever meets, fails or crashes.
THEOREM TypeCorrect == Spec => []TypeOK
  <1>1. IInv => TypeOK
    BY DEF IInv
  <1> QED BY <1>1, SnoozeInvariant, PTL

\* Detection that the operator switched off stays off in both stores, through any
\* snooze, extension, expiry, cancelled commit, failed write and restart (snooze,
\* _end_snooze), from a switch that met nobody until two commands meet.
THEOREM DisabledStaysOff == Spec => []DisabledIsKept
  <1>1. IInv => DisabledIsKept
    BY DEF IInv, CleanInv, Clean, SettingsMeant, NoSwitch, Meant, On, DisabledIsKept, Busy
  <1> QED BY <1>1, SnoozeInvariant, PTL

\* A crash or a failure at any write of a snooze or of its end leaves the expiry and
\* the flag that bring wanted detection back (snooze, _end_snooze, run_forever).
THEOREM SnoozeCanBeUndone == Spec => []SnoozeIsRecoverable
  <1>1. IInv => SnoozeIsRecoverable
    BY DEF IInv, CleanInv, Clean, SettingsMeant, NoSwitch, Meant, On, SnoozeIsRecoverable, Busy
  <1> QED BY <1>1, SnoozeInvariant, PTL

\* Between commands the cache of the settings agrees with the database
\* (set_setting, get_setting, cancel_snooze), also while a snooze ends.
THEOREM CacheTellsStored == Spec => []CacheAgrees
  <1>1. IInv => CacheAgrees
    <2> SUFFICES ASSUME IInv, damage # "mixed", ~Busy(SnoozeSteps \cup SwitchSteps)
                 PROVE  cached.enabled = stored.enabled /\ cached.until = stored.until
      BY DEF CacheAgrees
    <2>1. \A h \in Handlers : handler[h] = "idle"
      BY DEF IInv, TypeOK, Busy
    <2>2. (stored.enabled <=> cached.enabled) /\ (stored.until <=> cached.until)
      BY <2>1 DEF IInv, CleanInv, Clean, QuietAgrees
    <2> QED BY <2>2 DEF IInv, TypeOK, Settings
  <1> QED BY <1>1, SnoozeInvariant, PTL
=============================================================================
