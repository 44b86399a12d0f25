------------------------------- MODULE Watcher -------------------------------
(***************************************************************************)
(* The detection watcher of centauri-sentinel (sentinel/watcher/loop.py)    *)
(* together with the parts of the printer client its safety rules depend    *)
(* on (pause debounce, pending stop, acknowledged / unacknowledged /        *)
(* refused commands), the printer itself, and the operator who acts through *)
(* the web API, Telegram or the printer's own panel.                        *)
(*                                                                         *)
(* One tick of the loop is a sequence of steps that follow the awaits of    *)
(* WatcherLoop._tick on the printer, the camera and the ML service; the     *)
(* operator, the printer, the watchdog and the clock move in between.  The  *)
(* awaits on the local database do not split a step, except where the ML    *)
(* path writes its row between a pause and its effect (RecordMlPause).      *)
(*                                                                         *)
(* Time is discrete.  Each time stamp of the code that is only ever used as *)
(* "now - stamp" is a counter that the action Pass moves by one unit.       *)
(***************************************************************************)
EXTENDS Integers, Sequences

CONSTANTS
  Files,          \* names of the files the printer may be asked to print
  NoFile,         \* no file: the printer is idle / no job is tracked
  NoStatus,       \* the tick holds no fresh status ("stale" or none at all)
  DEBOUNCE,       \* printer/client.py _PAUSE_DEBOUNCE_S, in time units
  COOLDOWN,       \* settings.resume_cooldown_seconds, in time units
  RESUME_GUARD,   \* the 5 s a pause must last before "printing" ends it
  ADOPT_WINDOW,   \* _UNCONFIRMED_PAUSE_ADOPT_WINDOW_SECONDS, in time units
  AUTO_STOP,      \* settings.auto_stop_timeout_seconds, in time units (0: off)
  CONFIRM,        \* ml_confirm_count
  ML_THRESHOLD,   \* ml_consecutive_failure_threshold
  ML_AUTO_STOP,   \* ml_failure_auto_stop
  Scores,         \* what the ML service may answer: "high", "low", "error"
  OPERATOR,       \* what the operator may do (a subset of OperatorActs)
  FAULTS          \* what may go wrong (a subset of FaultKinds)

OperatorActs == {"panel", "web_pause", "web_resume", "web_stop", "toggle"}

\* "link": the status link drops and status() raises; "silent": it drops and the
\* last pushed status is still served; "camera": a grab fails; "refused": a command
\* is not published or is rejected; "unacked": a command is published and its ack
\* is lost; "stall": the watchdog fires; "unnamed": a print begins before the printer
\* reports the name of its file.
FaultKinds == {"link", "silent", "camera", "refused", "unacked", "stall", "unnamed"}

ASSUME ConstantsAssumption ==
  /\ NoFile \notin Files
  /\ Files # {}
  /\ DEBOUNCE \in Nat \ {0}
  /\ COOLDOWN \in Nat
  /\ RESUME_GUARD \in Nat
  /\ ADOPT_WINDOW \in Nat \ {0}
  /\ AUTO_STOP \in Nat
  /\ CONFIRM \in Nat \ {0}
  /\ ML_THRESHOLD \in Nat \ {0}
  /\ ML_AUTO_STOP \in BOOLEAN
  /\ Scores \subseteq {"high", "low", "error"}
  /\ OPERATOR \subseteq OperatorActs
  /\ FAULTS \subseteq FaultKinds

\* config.py accepts an auto-stop timeout of 0 or at least 60 s, the guard is 5 s.
ASSUME AutoStopAssumption == AUTO_STOP > 0 => RESUME_GUARD <= AUTO_STOP

States == {"IDLE", "WARMUP", "ARMED", "PAUSED", "CAMERA_OFFLINE", "STALLED", "OFFLINE"}
Interrupts == {"OFFLINE", "STALLED"}
Sources == {"auto", "ml_failure"}

Status == [print: {"idle", "printing", "paused"}, file: Files \cup {NoFile}, warm: BOOLEAN]
IdlePrinter == [print |-> "idle", file |-> NoFile, warm |-> FALSE]

ASSUME NoStatusAssumption == NoStatus \notin Status

NoTime == -1                   \* _paused_since is None
MaxPaused == IF AUTO_STOP < RESUME_GUARD THEN RESUME_GUARD + 1 ELSE AUTO_STOP + 1

VARIABLES
  printer,      \* what the printer is doing (truth)
  owner,        \* ghost: who put the printer into its current pause
  inflight,     \* pause commands published and not yet executed, by sender
  link,         \* the status link is up
  view,         \* the last status the printer pushed over it
  debounce,     \* time left of the pause debounce (client._last_pause_at)
  stopPending,  \* client._stop_pending
  pc,           \* where the tick is suspended
  obs,          \* the status this tick works on
  known,        \* last_printer_status is not None
  attempt,      \* source of the pause this tick is publishing
  w,            \* the watcher's attributes, see WatcherType
  enabled,      \* runtime setting detection_enabled
  web,          \* TRUE while a web or Telegram pause waits for its turn
  votes         \* ghost: file of each high frame in a row (the last CONFIRM of
                \* them), see EndsStreak

vars == <<printer, owner, inflight, link, view, debounce, stopPending, pc, obs,
          known, attempt, w, enabled, web, votes>>

printerVars == <<printer, owner, inflight>>
linkVars    == <<link, view>>
tickVars    == <<pc, obs, known, attempt>>

PCs == {"idle", "retry", "fetch", "update", "stop", "grab", "detect", "publish",
        "acking", "backoff", "recordOk", "recordUnknown"}

WatcherType ==
  [state        : States,
   interrupted  : BOOLEAN,                 \* _interrupted_from_paused
   confirm      : 0..CONFIRM,              \* _confirm_count, saturating
   pauseAlerted : BOOLEAN,                 \* _pause_failure_alerted
   mlErr        : 0..ML_THRESHOLD,         \* _ml_error_count, saturating
   mlAlerted    : BOOLEAN,                 \* _ml_failure_alerted
   marker       : Sources \cup {"none"},   \* _pause_outcome_unknown: source
   markerLeft   : 0..ADOPT_WINDOW,         \* ... and what is left of its window
   cooldown     : 0..COOLDOWN,             \* what is left after _last_resume_time
   pausedFor    : NoTime..MaxPaused,       \* now - _paused_since, saturating
   bySentinel   : BOOLEAN,                 \* _paused_by_sentinel
   source       : Sources,                 \* _pause_source
   curFile      : Files \cup {NoFile},     \* _current_filename
   tracked      : BOOLEAN,                 \* _current_job_id is not None
   resumed      : BOOLEAN]                 \* ghost: a dashboard resume ended the
                                           \* pause that pausedFor still times

TypeOK ==
  /\ printer \in Status
  /\ owner \in {"none", "sentinel", "web", "panel"}
  /\ inflight \subseteq {"sentinel", "web"}
  /\ link \in BOOLEAN
  /\ view \in Status
  /\ debounce \in 0..DEBOUNCE
  /\ stopPending \in BOOLEAN
  /\ pc \in PCs
  /\ obs \in Status \cup {NoStatus}
  /\ known \in BOOLEAN
  /\ attempt \in Sources
  /\ w \in WatcherType
  /\ enabled \in BOOLEAN
  /\ web \in BOOLEAN
  /\ votes \in Seq(Files \cup {NoFile})

Init ==
  /\ printer = IdlePrinter
  /\ owner = "none"
  /\ inflight = {}
  /\ link = TRUE
  /\ view = IdlePrinter
  /\ debounce = 0
  /\ stopPending = FALSE
  /\ pc = "idle"
  /\ obs = NoStatus
  /\ known = FALSE
  /\ attempt = "auto"
  /\ w = [state |-> "IDLE", interrupted |-> FALSE, confirm |-> 0,
          pauseAlerted |-> FALSE, mlErr |-> 0, mlAlerted |-> FALSE,
          marker |-> "none", markerLeft |-> 0, cooldown |-> 0,
          pausedFor |-> NoTime, bySentinel |-> FALSE, source |-> "auto",
          curFile |-> NoFile, tracked |-> FALSE, resumed |-> FALSE]
  /\ enabled = TRUE
  /\ web = FALSE
  /\ votes = << >>

-----------------------------------------------------------------------------
(***************************************************************************)
(* The watcher's attributes: what the helpers of WatcherLoop do to them.    *)
(***************************************************************************)

\* Fault: the episode ends but its alerts stay muted.
ResetStreakOnly(v) == [v EXCEPT !.confirm = 0]

ResetEpisode(v) ==
  [v EXCEPT !.confirm = 0, !.pauseAlerted = FALSE, !.mlAlerted = FALSE]

DropMarker(v) == [v EXCEPT !.marker = "none", !.markerLeft = 0]

ArmMarker(v, source) == [v EXCEPT !.marker = source, !.markerLeft = ADOPT_WINDOW]

\* The state setter sees the end of a pause, also of one that was interrupted.
LeavesPause(v, state) ==
  /\ state \in {"ARMED", "WARMUP"}
  /\ \/ v.state = "PAUSED"
     \/ v.state \in Interrupts /\ v.interrupted

\* Fault: an OFFLINE that turns into STALLED forgets the pause it interrupted.
SetStateForgetful(v, state) ==
  LET left == IF LeavesPause(v, state)
              THEN [DropMarker(ResetEpisode(v)) EXCEPT !.cooldown = COOLDOWN]
              ELSE v
  IN  [left EXCEPT !.state = state,
                   !.interrupted = state \in Interrupts /\ v.state = "PAUSED",
                   !.resumed = @ /\ state # "PAUSED"]

\* Assignment to WatcherLoop.state (it also clears the debounce, see DebounceAfter).
SetState(v, state) ==
  LET interrupted == /\ state \in Interrupts
                     /\ v.interrupted \/ v.state = "PAUSED"
      left == IF LeavesPause(v, state)
              THEN [DropMarker(ResetEpisode(v)) EXCEPT !.cooldown = COOLDOWN]
              ELSE v
  IN  [left EXCEPT !.state = state, !.interrupted = interrupted,
                   !.resumed = @ /\ state # "PAUSED"]

\* clear_pause_debounce(), called by the setter at the end of a pause.
DebounceAfter(v, state) == IF LeavesPause(v, state) THEN 0 ELSE debounce

MarkPausedBySentinel(v, source) ==
  [DropMarker(SetState(v, "PAUSED"))
     EXCEPT !.pausedFor = 0, !.bySentinel = TRUE, !.source = source]

\* Fault: the time stamp goes, the ownership stays.
ClearPauseTimeOnly(v) == [v EXCEPT !.pausedFor = NoTime]

ClearPause(v) == [v EXCEPT !.pausedFor = NoTime, !.bySentinel = FALSE]

-----------------------------------------------------------------------------
(***************************************************************************)
(* _update_state: one status, as a function on the watcher's attributes.    *)
(***************************************************************************)

\* Fault: a stale status is ignored, as if detection could go on without one.
UpdateStaleIgnored(v) == v

UpdateStale(v) ==
  IF v.state \in {"STALLED", "OFFLINE", "IDLE"} THEN v ELSE SetState(v, "OFFLINE")

UpdateIdle(v) ==
  [ClearPause(DropMarker(ResetEpisode(SetState(v, "IDLE"))))
     EXCEPT !.mlErr = 0, !.curFile = NoFile, !.tracked = FALSE]

\* The report names another file than the one the tracked job was recorded with.
OtherJob(v, status) == v.tracked /\ v.curFile # NoFile /\ v.curFile # status.file

\* Fault: a new file name is recorded without ending the old job's episode.
TrackJobNameOnly(v, status) ==
  IF ~v.tracked \/ OtherJob(v, status)
  THEN [v EXCEPT !.curFile = status.file, !.tracked = TRUE]
  ELSE v

\* Job A ends and job B starts; the name is taken when a job is recorded and never
\* again, so a job whose first report has no name stays nameless.
TrackJob(v, status) ==
  IF OtherJob(v, status)
  THEN [DropMarker(ResetEpisode(v)) EXCEPT !.mlErr = 0, !.curFile = status.file]
  ELSE IF v.tracked THEN v
       ELSE [v EXCEPT !.curFile = status.file, !.tracked = TRUE]

\* Fault: the marker is spent before its source is read.
ObservePausedSpent(v) ==
  IF v.state = "PAUSED" \/ v.cooldown > 0 THEN v
  ELSE IF v.marker # "none"
       THEN ResetEpisode(MarkPausedBySentinel(DropMarker(v), DropMarker(v).marker))
       ELSE ResetEpisode(SetState(v, "PAUSED"))

\* Fault: an adopted pause is always filed as a detection.
ObservePausedAsAuto(v) ==
  IF v.state = "PAUSED" \/ v.cooldown > 0 THEN v
  ELSE IF v.marker # "none"
       THEN ResetEpisode(MarkPausedBySentinel(v, "auto"))
       ELSE ResetEpisode(SetState(v, "PAUSED"))

ObservePaused(v) ==
  IF v.state = "PAUSED" \/ v.cooldown > 0 THEN v
  ELSE IF v.marker # "none"
       THEN ResetEpisode(MarkPausedBySentinel(v, v.marker))
       ELSE ResetEpisode(SetState(DropMarker(v), "PAUSED"))

ObserveWarmup(v) == ResetEpisode(SetState(v, "WARMUP"))

\* Fault: "printing" never ends a pause.
ObservePrintingIgnored(v) ==
  IF v.state \in {"CAMERA_OFFLINE", "PAUSED"} THEN v ELSE SetState(v, "ARMED")

ObservePrinting(v) ==
  IF \/ v.state = "CAMERA_OFFLINE"
     \/ v.state = "PAUSED" /\ v.pausedFor <= RESUME_GUARD
  THEN v
  ELSE SetState(v, "ARMED")

UpdateState(v, status) ==
  IF status = NoStatus THEN UpdateStale(v)
  ELSE IF status.print = "idle" THEN UpdateIdle(v)
  ELSE LET j == TrackJob(v, status)
       IN  IF status.print = "paused" THEN ObservePaused(j)
           ELSE IF ~status.warm THEN ObserveWarmup(j)
           ELSE ObservePrinting(j)

\* Fault: an outage drops the pause timer.
PauseTimerDropped(v) ==
  IF v.state = "PAUSED"
  THEN IF v.pausedFor = NoTime THEN [v EXCEPT !.pausedFor = 0] ELSE v
  ELSE ClearPause(v)

\* The rest of _tick before the stop: start, keep or drop the pause timer.
PauseTimer(v) ==
  IF v.state = "PAUSED"
  THEN IF v.pausedFor = NoTime THEN [v EXCEPT !.pausedFor = 0] ELSE v
  ELSE IF v.state \in {"OFFLINE", "CAMERA_OFFLINE", "STALLED"} THEN v
  ELSE ClearPause(v)

AutoStopAllowed(v) == v.source # "ml_failure" \/ ML_AUTO_STOP

AutoStopDue(v) ==
  /\ v.state = "PAUSED"
  /\ v.bySentinel
  /\ AUTO_STOP > 0
  /\ v.pausedFor > AUTO_STOP
  /\ AutoStopAllowed(v)

\* Fault: a camera that went offline is never tried again.
WatchingArmedOnly(v) == v.state = "ARMED"

\* Fault: frames are looked at whatever the printer does.
WatchingAlways(v) == TRUE

\* The end of _tick: look at a frame, or forget the streak if detection is off.
Watching(v) == v.state \in {"ARMED", "CAMERA_OFFLINE"}

Gate(v) ==
  IF Watching(v) /\ ~enabled THEN [ResetEpisode(v) EXCEPT !.mlErr = 0] ELSE v

GateTo(v) == IF Watching(v) /\ enabled /\ v.cooldown = 0 THEN "grab" ELSE "idle"

-----------------------------------------------------------------------------
(***************************************************************************)
(* The tick.                                                               *)
(***************************************************************************)

EndTick == pc' = "idle" /\ obs' = NoStatus /\ attempt' = "auto"

TickStart ==
  /\ pc = "idle"
  /\ pc' = IF stopPending THEN "retry" ELSE "fetch"
  /\ UNCHANGED <<printerVars, linkVars, debounce, stopPending, obs, known, attempt,
                 w, enabled, web, votes>>

\* client.stop() on the printer.  An attempt that raises may or may not have
\* stopped the print; _stop_pending is set whatever the outcome.
StopPrint ==
  /\ printer' = IdlePrinter
  /\ owner' = "none"

Stop(acked) ==
  /\ UNCHANGED inflight
  /\ \/ StopPrint /\ (acked \/ "unacked" \in FAULTS)
     \/ ~acked /\ "refused" \in FAULTS /\ UNCHANGED <<printer, owner>>

\* Fault: a retry that fails is the last one.
RetryStopOnce ==
  /\ pc = "retry"
  /\ \E acked \in BOOLEAN : Stop(acked)
  /\ stopPending' = FALSE
  /\ pc' = "fetch"
  /\ UNCHANGED <<linkVars, debounce, obs, known, attempt, w, enabled, web, votes>>

RetryStop ==
  /\ pc = "retry"
  /\ \E acked \in BOOLEAN : Stop(acked)
  /\ stopPending' = TRUE
  /\ pc' = "fetch"
  /\ UNCHANGED <<linkVars, debounce, obs, known, attempt, w, enabled, web, votes>>

\* What client.status() may answer, and the pending stop it ends.
Served == link \/ "silent" \in FAULTS
StopPendingAfter(status) == stopPending /\ status.print # "idle"

\* get_fresh_status(force=True).
FetchFresh ==
  /\ pc = "fetch"
  /\ Served
  /\ obs' = view
  /\ known' = TRUE
  /\ stopPending' = StopPendingAfter(view)
  /\ pc' = "update"
  /\ UNCHANGED <<printerVars, linkVars, debounce, attempt, w, enabled, web, votes>>

FetchStale ==
  /\ pc = "fetch"
  /\ ~link
  /\ pc' = IF known THEN "update" ELSE "idle"
  /\ UNCHANGED <<printerVars, linkVars, debounce, stopPending, obs, known, attempt,
                 w, enabled, web, votes>>

\* The ghost votes are of frames in a row: none of them is low or fails to come, the
\* printer is not seen idle or warming up in between, and the operator does not
\* resume the print from the dashboard (but see WebResume).
EndsStreak(status) ==
  status # NoStatus /\ (status.print = "idle" \/ (status.print = "printing" /\ ~status.warm))

\* _update_state and the pause bookkeeping of _tick.
Update ==
  /\ pc = "update"
  /\ LET u == UpdateState(w, obs)
         v == PauseTimer(u)
     IN  /\ debounce' = DebounceAfter(w, u.state)
         /\ IF AutoStopDue(u)
            THEN /\ w' = u
                 /\ pc' = "stop"
                 /\ UNCHANGED <<obs, attempt>>
            ELSE /\ w' = Gate(v)
                 /\ pc' = GateTo(v)
                 /\ obs' = IF GateTo(v) = "idle" THEN NoStatus ELSE obs
                 /\ UNCHANGED attempt
  /\ votes' = IF EndsStreak(obs) THEN << >> ELSE votes
  /\ UNCHANGED <<printerVars, linkVars, stopPending, known, enabled, web>>

AutoStop ==
  /\ pc = "stop"
  /\ \E acked \in BOOLEAN :
       /\ Stop(acked)
       /\ stopPending' = TRUE
       /\ LET v == IF acked THEN ClearPause(w) ELSE w
          IN  /\ w' = Gate(v)
              /\ pc' = GateTo(v)
              /\ obs' = IF GateTo(v) = "idle" THEN NoStatus ELSE obs
  /\ UNCHANGED <<linkVars, debounce, known, attempt, enabled, web, votes>>

\* _check_frame up to the frame.
GrabFrame ==
  /\ pc = "grab"
  /\ w' = IF w.state = "CAMERA_OFFLINE" THEN SetState(w, "ARMED") ELSE w
  /\ pc' = "detect"
  /\ UNCHANGED <<printerVars, linkVars, debounce, stopPending, obs, known, attempt,
                 enabled, web, votes>>

CameraOffline ==
  /\ pc = "grab"
  /\ "camera" \in FAULTS
  /\ IF w.state # "CAMERA_OFFLINE"
     THEN /\ w' = ResetEpisode(SetState(w, "CAMERA_OFFLINE"))
          /\ votes' = << >>
     ELSE UNCHANGED <<w, votes>>
  /\ EndTick
  /\ UNCHANGED <<printerVars, linkVars, debounce, stopPending, known, enabled, web>>

GrabFailed ==
  /\ pc = "grab"
  /\ "camera" \in FAULTS
  /\ w' = ResetEpisode(w)
  /\ votes' = << >>
  /\ EndTick
  /\ UNCHANGED <<printerVars, linkVars, debounce, stopPending, known, enabled, web>>

LastVotes(s) == IF Len(s) > CONFIRM THEN Tail(s) ELSE s

\* Fault: = for >=, so that a streak kept for a retry is never confirmed again.
DetectHighExact ==
  LET reached == w.confirm + 1 = CONFIRM IN
  /\ pc = "detect"
  /\ "high" \in Scores
  /\ votes' = LastVotes(Append(votes, obs.file))
  /\ w' = [w EXCEPT !.mlErr = 0, !.mlAlerted = FALSE,
                    !.confirm = IF reached THEN 0 ELSE IF @ = CONFIRM THEN @ ELSE @ + 1]
  /\ IF reached
     THEN pc' = "publish" /\ attempt' = "auto" /\ UNCHANGED obs
     ELSE EndTick
  /\ UNCHANGED <<printerVars, linkVars, debounce, stopPending, known, enabled, web>>

DetectHigh ==
  LET reached == w.confirm + 1 >= CONFIRM IN
  /\ pc = "detect"
  /\ "high" \in Scores
  /\ votes' = LastVotes(Append(votes, obs.file))
  /\ w' = [w EXCEPT !.mlErr = 0, !.mlAlerted = FALSE,
                    !.confirm = IF reached THEN 0 ELSE @ + 1]
  /\ IF reached
     THEN pc' = "publish" /\ attempt' = "auto" /\ UNCHANGED obs
     ELSE EndTick
  /\ UNCHANGED <<printerVars, linkVars, debounce, stopPending, known, enabled, web>>

DetectLow ==
  /\ pc = "detect"
  /\ "low" \in Scores
  /\ votes' = << >>
  /\ w' = [w EXCEPT !.mlErr = 0, !.mlAlerted = FALSE, !.confirm = 0,
                    !.pauseAlerted = FALSE]
  /\ EndTick
  /\ UNCHANGED <<printerVars, linkVars, debounce, stopPending, known, enabled, web>>

DetectError ==
  LET closed == w.mlErr + 1 >= ML_THRESHOLD IN
  /\ pc = "detect"
  /\ "error" \in Scores
  /\ w' = [w EXCEPT !.mlErr = IF closed THEN ML_THRESHOLD ELSE @ + 1,
                    !.mlAlerted = @ \/ closed]
  /\ IF closed
     THEN pc' = "publish" /\ attempt' = "ml_failure" /\ UNCHANGED obs
     ELSE EndTick
  /\ UNCHANGED <<printerVars, linkVars, debounce, stopPending, known, enabled, web,
                 votes>>

-----------------------------------------------------------------------------
(***************************************************************************)
(* _publish_pause and what its two callers do with the outcome.             *)
(***************************************************************************)

\* The pause holds: its caller ends the episode (the ML path after its DB row).
PauseHolds ==
  LET v == MarkPausedBySentinel(w, attempt) IN
  IF attempt = "auto"
  THEN w' = [v EXCEPT !.pauseAlerted = FALSE] /\ EndTick
  ELSE w' = v /\ pc' = "recordOk" /\ UNCHANGED <<obs, attempt>>

\* The pause does not hold: a confirmed detection keeps its streak for a retry.
KeepStreak(v) == [v EXCEPT !.confirm = CONFIRM, !.pauseAlerted = TRUE]

PauseLost ==
  /\ w' = IF attempt = "auto" THEN KeepStreak(w) ELSE w
  /\ EndTick

PauseUnknown ==
  IF attempt = "auto"
  THEN w' = KeepStreak(ArmMarker(w, "auto")) /\ EndTick
  ELSE pc' = "recordUnknown" /\ UNCHANGED <<w, obs, attempt>>

\* The live status check after a pause that was suppressed or that raised.
LiveCheck(paused) ==
  \/ /\ Served
     /\ paused <=> view.print = "paused"
     /\ stopPending' = StopPendingAfter(view)
  \/ /\ ~link
     /\ ~paused
     /\ UNCHANGED stopPending

\* Only the ML path verifies a pause that raised.
AfterRaise(outcome) ==
  IF attempt = "ml_failure"
  THEN \E paused \in BOOLEAN :
         /\ LiveCheck(paused)
         /\ IF paused THEN PauseHolds ELSE outcome
  ELSE UNCHANGED stopPending /\ outcome

PublishDebounced ==
  /\ pc = "publish"
  /\ debounce > 0
  /\ \E paused \in BOOLEAN :
       /\ LiveCheck(paused)
       /\ IF paused THEN PauseHolds ELSE PauseLost
  /\ UNCHANGED <<printerVars, linkVars, debounce, known, enabled, web, votes>>

\* client.pause() takes the debounce anchor before it knows whether anything is sent;
\* its first session may fail to register and be retried after a backoff.
PublishPause ==
  /\ pc = "publish"
  /\ debounce = 0
  /\ debounce' = DEBOUNCE
  /\ \/ inflight' = inflight \cup {"sentinel"} /\ pc' = "acking"
     \/ "refused" \in FAULTS /\ pc' = "backoff" /\ UNCHANGED inflight
  /\ UNCHANGED <<printer, owner, linkVars, stopPending, obs, known, attempt, w,
                 enabled, web, votes>>

RepublishPause ==
  /\ pc = "backoff"
  /\ inflight' = inflight \cup {"sentinel"}
  /\ pc' = "acking"
  /\ UNCHANGED <<printer, owner, linkVars, debounce, stopPending, obs, known, attempt,
                 w, enabled, web, votes>>

PauseAcked ==
  /\ pc = "acking"
  /\ "sentinel" \notin inflight
  /\ PauseHolds
  /\ UNCHANGED <<printerVars, linkVars, debounce, stopPending, known, enabled, web,
                 votes>>

PauseUnacked ==
  /\ pc = "acking"
  /\ "unacked" \in FAULTS
  /\ debounce' = DEBOUNCE
  /\ AfterRaise(PauseUnknown)
  /\ UNCHANGED <<printerVars, linkVars, known, enabled, web, votes>>

\* Never published (attempts exhausted) or rejected by the printer.
PauseFailed ==
  /\ \/ pc = "backoff" /\ UNCHANGED inflight
     \/ /\ pc = "acking"
        /\ "refused" \in FAULTS
        /\ "sentinel" \in inflight
        /\ inflight' = inflight \ {"sentinel"}
  /\ debounce' = 0
  /\ AfterRaise(PauseLost)
  /\ UNCHANGED <<printer, owner, linkVars, known, enabled, web, votes>>

\* The ML path acts on the outcome only after its pause_history row is written.
RecordMlPause ==
  /\ \/ /\ pc = "recordOk"
        /\ w' = [w EXCEPT !.confirm = 0, !.mlErr = 0, !.mlAlerted = FALSE]
     \/ /\ pc = "recordUnknown"
        /\ w' = ArmMarker(w, "ml_failure")
  /\ EndTick
  /\ UNCHANGED <<printerVars, linkVars, debounce, stopPending, known, enabled, web,
                 votes>>

Tick ==
  \/ TickStart \/ RetryStop \/ FetchFresh \/ FetchStale \/ Update \/ AutoStop
  \/ GrabFrame \/ CameraOffline \/ GrabFailed
  \/ DetectHigh \/ DetectLow \/ DetectError
  \/ PublishDebounced \/ PublishPause \/ RepublishPause
  \/ PauseAcked \/ PauseUnacked \/ PauseFailed \/ RecordMlPause

-----------------------------------------------------------------------------
(***************************************************************************)
(* The watchdog and the operator's commands.  Commands share the client's   *)
(* control session: none is sent while the watcher awaits an ack.           *)
(***************************************************************************)

Watchdog ==
  /\ "stall" \in FAULTS
  /\ w.state # "STALLED"
  /\ w' = SetState(w, "STALLED")
  /\ UNCHANGED <<printerVars, linkVars, debounce, stopPending, tickVars, enabled,
                 web, votes>>

ControlFree == pc # "acking"

\* A handler's last call, get_fresh_status(force=True): the push that reports the
\* command may or may not have arrived by then.
Refresh(pending) ==
  /\ UNCHANGED link
  /\ view' \in IF link THEN {view, printer'} ELSE {view}
  /\ \/ Served /\ known' = TRUE /\ stopPending' = (pending /\ view'.print # "idle")
     \/ ~link /\ stopPending' = pending /\ UNCHANGED known

NoRefresh == UNCHANGED <<linkVars, stopPending, known>>

\* control_pause / cmd_pause: note_operator_pause(), then client.pause().  A debounced
\* one sends nothing and only looks at the printer's status.
WebPause ==
  /\ "web_pause" \in OPERATOR
  /\ ~web
  /\ w' = DropMarker(w)
  /\ IF debounce = 0
     THEN debounce' = DEBOUNCE /\ web' = TRUE /\ NoRefresh
     ELSE UNCHANGED <<printer, debounce, web>> /\ Refresh(stopPending)
  /\ UNCHANGED <<printerVars, pc, obs, attempt, enabled, votes>>

PausePrint(who) ==
  IF printer.print = "printing"
  THEN printer' = [printer EXCEPT !.print = "paused"] /\ owner' = who
  ELSE UNCHANGED <<printer, owner>>

WebPauseSent ==
  /\ web
  /\ ControlFree
  /\ web' = FALSE
  /\ \/ /\ PausePrint("web")
        /\ Refresh(stopPending)
        /\ UNCHANGED <<inflight, debounce>>
     \/ /\ "unacked" \in FAULTS
        /\ inflight' = inflight \cup {"web"}
        /\ debounce' = DEBOUNCE
        /\ NoRefresh
        /\ UNCHANGED <<printer, owner>>
     \/ /\ "refused" \in FAULTS
        /\ debounce' = 0
        /\ NoRefresh
        /\ UNCHANGED printerVars
  /\ UNCHANGED <<pc, obs, attempt, w, enabled, votes>>

ResumePrint ==
  /\ printer' = [printer EXCEPT !.print = "printing"]
  /\ owner' = "none"

\* control_resume / cmd_resume once client.resume() returned: clear the debounce,
\* note_operator_resume(), external_transition(ARMED).
NoteOperatorResume(v) ==
  [DropMarker(ResetEpisode(v)) EXCEPT !.cooldown = COOLDOWN, !.resumed = TRUE]

\* The tick is publishing a pause for a detection.
Attempting == pc \in {"publish", "acking", "backoff"} /\ attempt = "auto"

\* A resume during an attempt does not end its streak: if the pause fails, the streak
\* is kept (StreakEndsWithResume).
WebResume ==
  /\ "web_resume" \in OPERATOR
  /\ ControlFree
  /\ printer.print = "paused"
  /\ ResumePrint
  /\ debounce' = 0
  /\ LET v == NoteOperatorResume(w)
     IN  w' = IF v.state \in {"PAUSED", "STALLED"} THEN SetState(v, "ARMED") ELSE v
  /\ Refresh(stopPending)
  /\ votes' = IF Attempting THEN votes ELSE << >>
  /\ UNCHANGED <<inflight, pc, obs, attempt, enabled, web>>

\* control_stop / cmd_confirm, for a print the operator sees on the dashboard.
WebStop ==
  /\ "web_stop" \in OPERATOR
  /\ ControlFree
  /\ printer.print # "idle"
  /\ view.print # "idle"
  /\ \E acked \in BOOLEAN :
       /\ Stop(acked)
       /\ IF acked THEN Refresh(TRUE)
                   ELSE stopPending' = TRUE /\ UNCHANGED <<linkVars, known>>
  /\ UNCHANGED <<debounce, pc, obs, attempt, w, enabled, web, votes>>

ToggleDetection ==
  /\ "toggle" \in OPERATOR
  /\ enabled' = ~enabled
  /\ UNCHANGED <<printerVars, linkVars, debounce, stopPending, tickVars, w, web, votes>>

Operator == WebPause \/ WebPauseSent \/ WebResume \/ WebStop \/ ToggleDetection

-----------------------------------------------------------------------------
(***************************************************************************)
(* The printer, its panel, the status link and the clock.                   *)
(***************************************************************************)

printerOnly == <<linkVars, debounce, stopPending, tickVars, w, enabled, web, votes>>

StartPrint ==
  /\ printer.print = "idle"
  /\ \E f \in Files \cup {NoFile}, warm \in BOOLEAN :
       /\ f = NoFile => "unnamed" \in FAULTS
       /\ printer' = [print |-> "printing", file |-> f, warm |-> warm]
  /\ UNCHANGED <<owner, inflight, printerOnly>>

NameReported ==
  /\ printer.print # "idle"
  /\ printer.file = NoFile
  /\ \E f \in Files : printer' = [printer EXCEPT !.file = f]
  /\ UNCHANGED <<owner, inflight, printerOnly>>

EndPrint ==
  /\ printer.print # "idle"
  /\ StopPrint
  /\ UNCHANGED <<inflight, printerOnly>>

WarmedUp ==
  /\ printer.print = "printing"
  /\ ~printer.warm
  /\ printer' = [printer EXCEPT !.warm = TRUE]
  /\ UNCHANGED <<owner, inflight, printerOnly>>

PanelPause ==
  /\ "panel" \in OPERATOR
  /\ printer.print = "printing"
  /\ PausePrint("panel")
  /\ UNCHANGED <<inflight, printerOnly>>

PanelResume ==
  /\ "panel" \in OPERATOR
  /\ printer.print = "paused"
  /\ ResumePrint
  /\ UNCHANGED <<inflight, printerOnly>>

\* A published pause reaches the printer, or is lost on the way.
ExecutePause ==
  \E who \in inflight :
    /\ inflight' = inflight \ {who}
    /\ PausePrint(who)
    /\ UNCHANGED printerOnly

LosePause ==
  /\ pc # "acking"
  /\ \E who \in inflight : inflight' = inflight \ {who}
  /\ UNCHANGED <<printer, owner, printerOnly>>

Printer ==
  \/ StartPrint \/ NameReported \/ EndPrint \/ WarmedUp \/ PanelPause \/ PanelResume
  \/ ExecutePause \/ LosePause

linkOnly == <<printerVars, debounce, stopPending, tickVars, w, enabled, web, votes>>

Push ==
  /\ link
  /\ view # printer
  /\ view' = printer
  /\ UNCHANGED <<link, linkOnly>>

LinkDown ==
  /\ FAULTS \cap {"link", "silent"} # {}
  /\ link
  /\ link' = FALSE
  /\ UNCHANGED <<view, linkOnly>>

\* A reconnect serves nothing before its GET_STATUS snapshot is merged.
LinkUp ==
  /\ ~link
  /\ link' = TRUE
  /\ view' = printer
  /\ UNCHANGED linkOnly

Link == Push \/ LinkDown \/ LinkUp

CountDown(n) == IF n > 0 THEN n - 1 ELSE 0

Aged(v) ==
  [v EXCEPT !.cooldown = CountDown(@),
            !.markerLeft = CountDown(@),
            !.marker = IF v.markerLeft <= 1 THEN "none" ELSE @,
            !.pausedFor = IF @ = NoTime \/ @ = MaxPaused THEN @ ELSE @ + 1]

\* One time unit is at least as long as the printer needs to push a change (about a
\* second), so a live view is current by the end of it.  Any await may last.
Pass ==
  /\ link => view = printer
  /\ <<w, debounce>> # <<Aged(w), CountDown(debounce)>>
  /\ w' = Aged(w)
  /\ debounce' = CountDown(debounce)
  /\ UNCHANGED <<printerVars, linkVars, stopPending, tickVars, enabled, web, votes>>

Next == Tick \/ Watchdog \/ Operator \/ Printer \/ Link \/ Pass

Spec == Init /\ [][Next]_vars

(***************************************************************************)
(* Fairness: the event loop keeps running the tick, the clock runs, pushes  *)
(* arrive and a lost link comes back.  A call that is retried for ever      *)
(* succeeds in the end: the loop retries every failed call on a later tick, *)
(* and none of its failures is permanent while the program is configured    *)
(* correctly.  Nothing is assumed of the operator, of the print's own       *)
(* progress, of the frames' scores or of the watchdog.  That the link stays *)
(* up in the end is an assumption of the properties (LinkSettles).          *)
(***************************************************************************)
Fairness ==
  /\ WF_vars(Tick)
  /\ SF_vars(Pass)
  /\ WF_vars(Push)
  /\ WF_vars(LinkUp)
  /\ SF_vars(GrabFrame)
  /\ SF_vars(PublishPause /\ pc' = "acking")
  /\ SF_vars(ExecutePause)
  /\ SF_vars(PauseAcked)
  /\ SF_vars((AutoStop \/ RetryStop) /\ printer'.print = "idle")

FairSpec == Spec /\ Fairness

-----------------------------------------------------------------------------
(***************************************************************************)
(* Safety.                                                                 *)
(***************************************************************************)

\* The watcher looks at frames and publishes pauses only while it is watching a
\* print: never in IDLE, WARMUP, PAUSED or OFFLINE, whatever the operator, the
\* watchdog or the printer did since the tick began (docs/architecture.md, safety
\* rules; STALLED is possible because the watchdog does not wait for the tick).
PausesOnlyWhenWatching ==
  /\ pc = "grab" => w.state \in {"ARMED", "CAMERA_OFFLINE", "STALLED"}
  /\ pc \in {"detect", "publish", "acking", "backoff"} => w.state \in {"ARMED", "STALLED"}

\* Frames count only on a tick whose own status said that the print is running and
\* past its warmup.
FramesOnlyFromWarmPrints ==
  pc \in {"grab", "detect", "publish", "acking", "backoff"} =>
    obs # NoStatus /\ obs.print = "printing" /\ obs.warm

\* A pause attributed to Sentinel always has the time stamp auto-stop measures it
\* from: no path forgets one of the two (_paused_by_sentinel, _paused_since).
OwnershipHasAnchor == w.bySentinel => w.pausedFor # NoTime

\* An automatic stop is decided only on a tick whose own status says "paused", for
\* a pause held to be Sentinel's, and after the timeout.
StopDecidedOnPausedReport ==
  pc = "stop" =>
    /\ obs # NoStatus /\ obs.print = "paused"
    /\ w.bySentinel
    /\ w.pausedFor > AUTO_STOP

\* Failure alerts are muted only for the retries of a pause that is still owed: a
\* muted detection alert belongs to a streak kept for the next tick, a muted ML
\* alert to an ML outage that is still at its threshold.
SilentOnlyAsRetry ==
  pc = "idle" /\ w.state = "ARMED" =>
    /\ w.pauseAlerted => w.confirm = CONFIRM
    /\ w.mlAlerted => w.mlErr = ML_THRESHOLD

\* A detection pause needs CONFIRM high frames in a row, and when the tracked job was
\* recorded with a name all of them are from ticks that saw this tick's file: job A's
\* hits never count against job B.  (Without a name the code notices no change of
\* jobs, see HitsOfOneFile.)
PauseNeedsConfirmedStreak ==
  pc = "publish" /\ attempt = "auto" =>
    /\ Len(votes) = CONFIRM
    /\ w.curFile # NoFile => \A i \in DOMAIN votes : votes[i] = obs.file

\* The ML service being down never stops a print unless the operator opted in:
\* without a high frame no pause, adopted or not, is ever due for auto-stop.
MlOutageNeverStops == pc = "stop" => "high" \in Scores \/ ML_AUTO_STOP

\* Coming back to detection after an outage (OFFLINE, STALLED) that hit a pause
\* starts the post-resume cooldown and a fresh streak, as a direct resume does.  Only
\* when the operator had resumed the print from the dashboard before the outage, so
\* that its cooldown runs from there, does the return not start another.
ResumeAfterOutageCoolsDown ==
  [][w.state \in Interrupts /\ w.pausedFor # NoTime /\ w'.state \in {"ARMED", "WARMUP"}
     => \/ w'.cooldown = COOLDOWN /\ w'.confirm = 0 /\ w'.marker = "none"
        \/ w.resumed]_vars

-----------------------------------------------------------------------------
(***************************************************************************)
(* Liveness.                                                               *)
(***************************************************************************)

BeingPrinted == printer.print = "printing" /\ printer.warm

\* The status link may drop and come back any number of times, but not for ever.
LinkSettles == <>[]link

\* A print that goes on past its warmup, with detection on, is looked at for ever:
\* the watcher comes back from every OFFLINE, STALLED, CAMERA_OFFLINE and PAUSED.
KeepsWatching == LinkSettles /\ <>[](BeingPrinted /\ enabled) => []<>(pc = "detect")

\* A print all of whose frames score high, or whose ML service only fails, does not
\* go on for ever while detection is on, whatever commands are lost or refused.
FailingPrintIsHalted ==
  LinkSettles /\ <>[]enabled /\ <>[][~DetectLow]_vars => []<>~BeingPrinted

HeldBySentinel ==
  /\ pc = "idle"
  /\ printer.print = "paused" /\ view = printer
  /\ w.state = "PAUSED" /\ w.bySentinel /\ AutoStopAllowed(w)

\* A pause held to be Sentinel's is escalated: the printer does not stay paused for
\* ever once the watcher owns the pause between two ticks, however often stop() fails and whatever
\* outage comes between.
PauseEscalates == LinkSettles => (HeldBySentinel ~> (printer.print # "paused"))

\* A stop that was asked for and failed is retried until the print is over.
PendingStopTakesEffect ==
  (stopPending /\ printer.print # "idle" /\ view = printer) ~> (printer.print = "idle")

-----------------------------------------------------------------------------
(***************************************************************************)
(* What the documentation says and the code does not guarantee.            *)
(***************************************************************************)

\* docs/architecture.md: an operator's pause is never auto-stopped.
OperatorPauseNeverAutoStopped ==
  [][pc = "update" /\ pc' = "stop" => owner # "web"]_vars

\* docs/architecture.md: an operator's web or Telegram pause is never taken for
\* Sentinel's own late one.
WebPauseNeverAdopted ==
  [][pc = "update" /\ ~w.bySentinel /\ w'.bySentinel => owner # "web"]_vars

\* docs/architecture.md: the watcher calls stop() only for the auto-stop escalation,
\* so with no operator stop it never stops a print it sees running.
StopsOnlyPausedPrints ==
  [][pc = "retry" /\ pc' = "fetch" => ~(printer.print = "printing" /\ w.state = "ARMED")]_vars

\* printer/client.py: stop() only with the user's approval.  When every stop is
\* acknowledged, a print that is running was never the one the user stopped.
AckedStopNotRepeated ==
  [][pc = "retry" /\ pc' = "fetch" => printer.print = "idle"]_vars

\* docs/architecture.md: hits never carry across a resume, so no streak is kept while
\* the cooldown of a resume runs.
StreakEndsWithResume == [][w'.confirm > w.confirm + 1 => w.cooldown = 0]_vars

\* sentinel/watcher/loop.py, _update_state: "so job A's streak does not carry into
\* job B", whether job A had a name or not.
HitsOfOneFile ==
  pc = "publish" /\ attempt = "auto" =>
    \A i, j \in DOMAIN votes : votes[i] \in Files /\ votes[j] \in Files => votes[i] = votes[j]
=============================================================================
