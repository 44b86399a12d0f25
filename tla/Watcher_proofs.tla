--------------------------- MODULE Watcher_proofs ---------------------------
(***************************************************************************)
(* What holds of Watcher for every value of its constants: type            *)
(* correctness and the safety properties the runs check.  IInv is          *)
(* inductive by itself; AlertInv, OutageInv, WarmInv, PauseInv and         *)
(* StreakInv are inductive relative to it.                                 *)
(***************************************************************************)
EXTENDS Watcher, TLAPS

\* The two attributes that make a pause Sentinel's are the same in both records.
SamePause(v, u) == u.bySentinel = v.bySentinel /\ u.pausedFor = v.pausedFor

Anchored(v) == v.bySentinel => v.pausedFor # NoTime

-----------------------------------------------------------------------------
(***************************************************************************)
(* The helpers of WatcherLoop.                                             *)
(***************************************************************************)

LEMMA Limits ==
  /\ MaxPaused \in Nat
  /\ AUTO_STOP \in Nat
  /\ RESUME_GUARD \in Nat
  /\ AUTO_STOP < MaxPaused
  /\ RESUME_GUARD < MaxPaused
  BY ConstantsAssumption DEF MaxPaused

LEMMA FieldValues ==
  /\ 0 \in 0..CONFIRM /\ CONFIRM \in 0..CONFIRM
  /\ 0 \in 0..ML_THRESHOLD /\ ML_THRESHOLD \in 0..ML_THRESHOLD
  /\ 0 \in 0..ADOPT_WINDOW /\ ADOPT_WINDOW \in 0..ADOPT_WINDOW
  /\ 0 \in 0..COOLDOWN /\ COOLDOWN \in 0..COOLDOWN
  /\ 0 \in NoTime..MaxPaused /\ NoTime \in NoTime..MaxPaused
  /\ 0 # NoTime
  BY ConstantsAssumption, Limits DEF NoTime

LEMMA FieldTypes ==
  ASSUME NEW v \in WatcherType
  PROVE  /\ v.state \in States
         /\ v.interrupted \in BOOLEAN
         /\ v.confirm \in 0..CONFIRM
         /\ v.pauseAlerted \in BOOLEAN
         /\ v.mlErr \in 0..ML_THRESHOLD
         /\ v.mlAlerted \in BOOLEAN
         /\ v.marker \in Sources \cup {"none"}
         /\ v.markerLeft \in 0..ADOPT_WINDOW
         /\ v.cooldown \in 0..COOLDOWN
         /\ v.pausedFor \in NoTime..MaxPaused
         /\ v.bySentinel \in BOOLEAN
         /\ v.source \in Sources
         /\ v.curFile \in Files \cup {NoFile}
         /\ v.tracked \in BOOLEAN
         /\ v.resumed \in BOOLEAN
  BY Zenon DEF WatcherType

LEMMA ResetEpisodeType ==
  ASSUME NEW v \in WatcherType
  PROVE  /\ ResetEpisode(v) \in WatcherType
         /\ SamePause(v, ResetEpisode(v))
         /\ ResetEpisode(v).state = v.state
         /\ ResetEpisode(v).cooldown = v.cooldown
         /\ ResetEpisode(v).marker = v.marker
  <1>1. ResetEpisode(v) \in WatcherType
    BY FieldValues, Zenon DEF ResetEpisode, WatcherType
  <1>2. QED
    BY <1>1, SMT DEF ResetEpisode, WatcherType, SamePause

LEMMA DropMarkerType ==
  ASSUME NEW v \in WatcherType
  PROVE  /\ DropMarker(v) \in WatcherType
         /\ SamePause(v, DropMarker(v))
         /\ DropMarker(v).state = v.state
         /\ DropMarker(v).cooldown = v.cooldown
  <1>1. DropMarker(v) \in WatcherType
    <2>1. "none" \in Sources \cup {"none"} OBVIOUS
    <2>2. QED BY <2>1, FieldValues, Zenon DEF DropMarker, WatcherType
  <1>2. QED
    BY <1>1, SMT DEF DropMarker, WatcherType, SamePause

LEMMA ArmMarkerType ==
  ASSUME NEW v \in WatcherType, NEW source \in Sources
  PROVE  /\ ArmMarker(v, source) \in WatcherType
         /\ SamePause(v, ArmMarker(v, source))
         /\ ArmMarker(v, source).state = v.state
  <1>1. ArmMarker(v, source) \in WatcherType
    <2>1. source \in Sources \cup {"none"} OBVIOUS
    <2>2. QED BY <2>1, FieldValues, Zenon DEF ArmMarker, WatcherType
  <1>2. QED
    BY <1>1, SMT DEF ArmMarker, WatcherType, SamePause

LEMMA NoVotes == \A S : << >> \in Seq(S)
  OBVIOUS

\* The end of a pause, as the state setter performs it.
LEMMA CoolDownType ==
  ASSUME NEW v \in WatcherType
  PROVE  LET u == [DropMarker(ResetEpisode(v)) EXCEPT !.cooldown = COOLDOWN]
         IN  u \in WatcherType /\ SamePause(v, u) /\ u.state = v.state
  <1> DEFINE d == DropMarker(ResetEpisode(v))
  <1>1. d \in WatcherType /\ SamePause(v, d) /\ d.state = v.state
    BY ResetEpisodeType, DropMarkerType, Zenon DEF SamePause
  <1> HIDE DEF d
  <1>2. [d EXCEPT !.cooldown = COOLDOWN] \in WatcherType
    BY <1>1, FieldValues, Zenon DEF WatcherType
  <1>3. /\ SamePause(v, [d EXCEPT !.cooldown = COOLDOWN])
        /\ [d EXCEPT !.cooldown = COOLDOWN].state = v.state
    BY <1>1, SMT DEF WatcherType, SamePause
  <1>4. QED
    BY <1>2, <1>3 DEF d

LEMMA SetStateType ==
  ASSUME NEW v \in WatcherType, NEW state \in States
  PROVE  /\ SetState(v, state) \in WatcherType
         /\ SamePause(v, SetState(v, state))
         /\ SetState(v, state).state = state
  <1> DEFINE i == /\ state \in Interrupts
                  /\ v.interrupted \/ v.state = "PAUSED"
             c == [DropMarker(ResetEpisode(v)) EXCEPT !.cooldown = COOLDOWN]
             l == IF LeavesPause(v, state) THEN c ELSE v
             s == [l EXCEPT !.state = state, !.interrupted = i,
                            !.resumed = @ /\ state # "PAUSED"]
  <1>1. SetState(v, state) = s
    BY Zenon DEF SetState
  <1>2. i \in BOOLEAN
    BY Zenon
  <1>3. c \in WatcherType /\ SamePause(v, c)
    BY CoolDownType
  <1> HIDE DEF c
  <1>4. l \in WatcherType /\ SamePause(v, l)
    BY <1>3, Zenon DEF SamePause
  <1> HIDE DEF i, l
  <1>5. s \in WatcherType
    <2> DEFINE r == l.resumed /\ state # "PAUSED"
    <2>1. r \in BOOLEAN
      BY Zenon
    <2> HIDE DEF r
    <2>2. [l EXCEPT !.state = state, !.interrupted = i, !.resumed = r] \in WatcherType
      BY <1>2, <1>4, <2>1, Zenon DEF WatcherType
    <2>3. s = [l EXCEPT !.state = state, !.interrupted = i, !.resumed = r]
      BY <1>4, SMT DEF WatcherType, r
    <2>4. QED
      BY <2>2, <2>3
  <1>6. SamePause(v, s) /\ s.state = state
    BY <1>4, SMT DEF WatcherType, SamePause
  <1>7. QED
    BY <1>1, <1>5, <1>6, Zenon

LEMMA ClearPauseType ==
  ASSUME NEW v \in WatcherType
  PROVE  /\ ClearPause(v) \in WatcherType
         /\ Anchored(ClearPause(v))
         /\ ClearPause(v).state = v.state
         /\ ClearPause(v).cooldown = v.cooldown
         /\ ClearPause(v).bySentinel = FALSE
  <1>1. ClearPause(v) \in WatcherType
    BY FieldValues, Zenon DEF ClearPause, WatcherType
  <1>2. QED
    BY <1>1, SMT DEF ClearPause, WatcherType, Anchored

LEMMA MarkPausedBySentinelType ==
  ASSUME NEW v \in WatcherType, NEW source \in Sources
  PROVE  /\ MarkPausedBySentinel(v, source) \in WatcherType
         /\ Anchored(MarkPausedBySentinel(v, source))
         /\ MarkPausedBySentinel(v, source).state = "PAUSED"
  <1> DEFINE d == DropMarker(SetState(v, "PAUSED"))
             m == [d EXCEPT !.pausedFor = 0, !.bySentinel = TRUE, !.source = source]
  <1>1. d \in WatcherType /\ d.state = "PAUSED"
    <2>1. "PAUSED" \in States BY DEF States
    <2>2. QED BY <2>1, SetStateType, DropMarkerType, Zenon
  <1>2. MarkPausedBySentinel(v, source) = m
    BY Zenon DEF MarkPausedBySentinel
  <1> HIDE DEF d
  <1>3. m \in WatcherType
    BY <1>1, FieldValues, Zenon DEF WatcherType
  <1>4. Anchored(m) /\ m.state = "PAUSED"
    BY <1>1, FieldValues, SMT DEF WatcherType, Anchored
  <1>5. QED
    BY <1>2, <1>3, <1>4, Zenon

-----------------------------------------------------------------------------
(***************************************************************************)
(* _update_state and the end of _tick.                                     *)
(***************************************************************************)

LEMMA StateNames ==
  /\ {"IDLE", "WARMUP", "ARMED", "PAUSED", "OFFLINE", "STALLED", "CAMERA_OFFLINE"} \subseteq States
  /\ {"IDLE", "WARMUP", "OFFLINE", "STALLED"} \cap {"PAUSED", "ARMED", "CAMERA_OFFLINE"} = {}
  BY SMT DEF States

LEMMA UpdateStaleType ==
  ASSUME NEW v \in WatcherType, Anchored(v)
  PROVE  /\ UpdateStale(v) \in WatcherType
         /\ Anchored(UpdateStale(v))
         /\ UpdateStale(v).state \in {"STALLED", "OFFLINE", "IDLE"}
  <1>1. CASE v.state \in {"STALLED", "OFFLINE", "IDLE"}
    BY <1>1, Zenon DEF UpdateStale
  <1>2. CASE v.state \notin {"STALLED", "OFFLINE", "IDLE"}
    <2>1. /\ SetState(v, "OFFLINE") \in WatcherType
          /\ SamePause(v, SetState(v, "OFFLINE"))
          /\ SetState(v, "OFFLINE").state = "OFFLINE"
      BY StateNames, SetStateType, Zenon
    <2>2. UpdateStale(v) = SetState(v, "OFFLINE")
      BY <1>2, Zenon DEF UpdateStale
    <2>3. QED
      BY <2>1, <2>2, Zenon DEF SamePause, Anchored
  <1>3. QED
    BY <1>1, <1>2, Zenon

LEMMA UpdateIdleType ==
  ASSUME NEW v \in WatcherType
  PROVE  /\ UpdateIdle(v) \in WatcherType
         /\ Anchored(UpdateIdle(v))
         /\ UpdateIdle(v).state = "IDLE"
  <1> DEFINE c == ClearPause(DropMarker(ResetEpisode(SetState(v, "IDLE"))))
             u == [c EXCEPT !.mlErr = 0, !.curFile = NoFile, !.tracked = FALSE]
  <1>1. /\ SetState(v, "IDLE") \in WatcherType
        /\ SetState(v, "IDLE").state = "IDLE"
    BY StateNames, SetStateType, Zenon
  <1>2. /\ DropMarker(ResetEpisode(SetState(v, "IDLE"))) \in WatcherType
        /\ DropMarker(ResetEpisode(SetState(v, "IDLE"))).state = "IDLE"
    BY <1>1, ResetEpisodeType, DropMarkerType, Zenon
  <1>3. c \in WatcherType /\ c.bySentinel = FALSE /\ c.state = "IDLE"
    BY <1>2, ClearPauseType, Zenon
  <1>4. UpdateIdle(v) = u
    BY Zenon DEF UpdateIdle
  <1> HIDE DEF c
  <1>5. u \in WatcherType
    <2>1. NoFile \in Files \cup {NoFile} OBVIOUS
    <2>2. QED BY <1>3, <2>1, FieldValues, Zenon DEF WatcherType
  <1>6. Anchored(u) /\ u.state = "IDLE"
    BY <1>3, SMT DEF WatcherType, Anchored
  <1>7. QED
    BY <1>4, <1>5, <1>6, Zenon

LEMMA TrackJobType ==
  ASSUME NEW v \in WatcherType, NEW status \in Status
  PROVE  /\ TrackJob(v, status) \in WatcherType
         /\ SamePause(v, TrackJob(v, status))
         /\ TrackJob(v, status).state = v.state
  <1> DEFINE d == DropMarker(ResetEpisode(v))
             other == [d EXCEPT !.mlErr = 0, !.curFile = status.file]
             first == [v EXCEPT !.curFile = status.file, !.tracked = TRUE]
  <1>1. status.file \in Files \cup {NoFile}
    BY SMT DEF Status
  <1>2. d \in WatcherType /\ SamePause(v, d) /\ d.state = v.state
    BY ResetEpisodeType, DropMarkerType, Zenon DEF SamePause
  <1>3. TrackJob(v, status) \in {other, v, first}
    BY Zenon DEF TrackJob
  <1> HIDE DEF d
  <1>4. other \in WatcherType /\ first \in WatcherType
    BY <1>1, <1>2, FieldValues, Zenon DEF WatcherType
  <1>5. /\ SamePause(v, other) /\ other.state = v.state
        /\ SamePause(v, first) /\ first.state = v.state
    BY <1>2, SMT DEF WatcherType, SamePause
  <1>6. QED
    BY <1>3, <1>4, <1>5, Zenon DEF SamePause

LEMMA ObservePausedType ==
  ASSUME NEW v \in WatcherType, Anchored(v)
  PROVE  /\ ObservePaused(v) \in WatcherType
         /\ Anchored(ObservePaused(v))
         /\ ObservePaused(v).state # "PAUSED" =>
              ObservePaused(v).state = v.state /\ ObservePaused(v).cooldown > 0
  <1>1. CASE v.state = "PAUSED" \/ v.cooldown > 0
    BY <1>1, Zenon DEF ObservePaused
  <1>2. CASE ~(v.state = "PAUSED" \/ v.cooldown > 0) /\ v.marker # "none"
    <2> DEFINE m == MarkPausedBySentinel(v, v.marker)
    <2>1. v.marker \in Sources
      BY <1>2, FieldTypes, Zenon
    <2>2. m \in WatcherType /\ Anchored(m) /\ m.state = "PAUSED"
      BY <2>1, MarkPausedBySentinelType, Zenon
    <2>3. ObservePaused(v) = ResetEpisode(m)
      BY <1>2, Zenon DEF ObservePaused
    <2> HIDE DEF m
    <2>4. QED
      BY <2>2, <2>3, ResetEpisodeType, Zenon DEF SamePause, Anchored
  <1>3. CASE ~(v.state = "PAUSED" \/ v.cooldown > 0) /\ ~(v.marker # "none")
    <2> DEFINE m == SetState(DropMarker(v), "PAUSED")
    <2>0. DropMarker(v) \in WatcherType /\ SamePause(v, DropMarker(v))
      BY DropMarkerType, Zenon
    <2>1. m \in WatcherType /\ SamePause(v, m) /\ m.state = "PAUSED"
      <3>1. "PAUSED" \in States
        BY StateNames, Zenon
      <3>2. /\ m \in WatcherType /\ m.state = "PAUSED"
            /\ SamePause(DropMarker(v), m)
        BY <2>0, <3>1, SetStateType, Zenon
      <3>3. QED
        BY <2>0, <3>2, Zenon DEF SamePause
    <2>2. ObservePaused(v) = ResetEpisode(m)
      BY <1>3, Zenon DEF ObservePaused
    <2> HIDE DEF m
    <2>3. QED
      BY <2>1, <2>2, ResetEpisodeType, Zenon DEF SamePause, Anchored
  <1>4. QED
    BY <1>1, <1>2, <1>3, Zenon

LEMMA ObserveWarmupType ==
  ASSUME NEW v \in WatcherType, Anchored(v)
  PROVE  /\ ObserveWarmup(v) \in WatcherType
         /\ Anchored(ObserveWarmup(v))
         /\ ObserveWarmup(v).state = "WARMUP"
  <1>1. /\ SetState(v, "WARMUP") \in WatcherType
        /\ SamePause(v, SetState(v, "WARMUP"))
        /\ SetState(v, "WARMUP").state = "WARMUP"
    BY StateNames, SetStateType, Zenon
  <1>2. QED
    BY <1>1, ResetEpisodeType, Zenon DEF ObserveWarmup, SamePause, Anchored

LEMMA ObservePrintingType ==
  ASSUME NEW v \in WatcherType, Anchored(v)
  PROVE  /\ ObservePrinting(v) \in WatcherType
         /\ Anchored(ObservePrinting(v))
         /\ ObservePrinting(v).state = "PAUSED" => ObservePrinting(v).pausedFor <= RESUME_GUARD
  <1>1. CASE \/ v.state = "CAMERA_OFFLINE"
             \/ v.state = "PAUSED" /\ v.pausedFor <= RESUME_GUARD
    <2>1. ObservePrinting(v) = v
      BY <1>1, Zenon DEF ObservePrinting
    <2>2. v.state = "PAUSED" => v.pausedFor <= RESUME_GUARD
      BY <1>1, SMT
    <2>3. QED
      BY <2>1, <2>2, Zenon
  <1>2. CASE ~(\/ v.state = "CAMERA_OFFLINE"
               \/ v.state = "PAUSED" /\ v.pausedFor <= RESUME_GUARD)
    <2>1. /\ SetState(v, "ARMED") \in WatcherType
          /\ SamePause(v, SetState(v, "ARMED"))
          /\ SetState(v, "ARMED").state = "ARMED"
      BY StateNames, SetStateType, Zenon
    <2>2. ObservePrinting(v) = SetState(v, "ARMED")
      BY <1>2, Zenon DEF ObservePrinting
    <2>3. QED
      BY <2>1, <2>2, Zenon DEF SamePause, Anchored
  <1>3. QED
    BY <1>1, <1>2, Zenon

\* One status: the attributes stay well typed, an owned pause keeps its time stamp,
\* and the outcomes the later steps of the tick act on were justified by the status.
LEMMA UpdateStateType ==
  ASSUME NEW v \in WatcherType, Anchored(v), NEW status \in Status \cup {NoStatus}
  PROVE  LET u == UpdateState(v, status) IN
         /\ u \in WatcherType
         /\ Anchored(u)
         /\ Watching(u) => status \in Status
         /\ u.state = "PAUSED" /\ u.pausedFor > RESUME_GUARD =>
              status \in Status /\ status.print = "paused"
  <1> DEFINE u == UpdateState(v, status)
  <1>1. CASE status = NoStatus
    <2>1. u = UpdateStale(v)
      BY <1>1, Zenon DEF UpdateState
    <2>2. u.state \notin {"PAUSED", "ARMED", "CAMERA_OFFLINE"}
      BY <2>1, UpdateStaleType, SMT
    <2>3. QED
      BY <2>1, <2>2, UpdateStaleType, Zenon DEF Watching
  <1>2. CASE status # NoStatus /\ status.print = "idle"
    <2>1. u = UpdateIdle(v)
      BY <1>2, Zenon DEF UpdateState
    <2>2. u.state # "PAUSED"
      BY <2>1, UpdateIdleType, SMT
    <2>3. status \in Status
      BY <1>2, Zenon
    <2>4. QED
      BY <2>1, <2>2, <2>3, UpdateIdleType, Zenon
  <1>3. CASE status # NoStatus /\ status.print # "idle"
    <2> DEFINE j == TrackJob(v, status)
    <2>1. status \in Status
      BY <1>3, Zenon
    <2>2. j \in WatcherType /\ Anchored(j)
      BY <2>1, TrackJobType, Zenon DEF SamePause, Anchored
    <2>3. CASE status.print = "paused"
      <3>1. u = ObservePaused(j)
        BY <1>3, <2>3, Zenon DEF UpdateState
      <3> HIDE DEF u, j
      <3>2. QED
        BY <2>1, <2>2, <2>3, <3>1, ObservePausedType, Zenon DEF u
    <2>4. CASE status.print # "paused" /\ ~status.warm
      <3>1. u = ObserveWarmup(j)
        BY <1>3, <2>4, Zenon DEF UpdateState
      <3> HIDE DEF u, j
      <3>2. u.state # "PAUSED"
        BY <2>2, <3>1, ObserveWarmupType, SMT
      <3>3. QED
        BY <2>1, <2>2, <3>1, <3>2, ObserveWarmupType, Zenon DEF u
    <2>5. CASE status.print # "paused" /\ status.warm
      <3>1. u = ObservePrinting(j)
        BY <1>3, <2>5, Zenon DEF UpdateState
      <3> HIDE DEF u, j
      <3>2. u \in WatcherType /\ Anchored(u)
        BY <2>2, <3>1, ObservePrintingType, Zenon
      <3>3. ~(u.state = "PAUSED" /\ u.pausedFor > RESUME_GUARD)
        <4>1. u.state = "PAUSED" => u.pausedFor <= RESUME_GUARD
          BY <2>2, <3>1, ObservePrintingType, Zenon
        <4>2. u.pausedFor \in Int
          BY <3>2, FieldTypes, Limits, SMT DEF NoTime
        <4>3. QED
          BY <4>1, <4>2, Limits, SMT
      <3>4. QED
        BY <2>1, <3>2, <3>3, Zenon DEF u
    <2>6. QED
      BY <2>3, <2>4, <2>5, Zenon
  <1>4. QED
    BY <1>1, <1>2, <1>3, Zenon

LEMMA PauseTimerType ==
  ASSUME NEW v \in WatcherType, Anchored(v)
  PROVE  /\ PauseTimer(v) \in WatcherType
         /\ Anchored(PauseTimer(v))
         /\ PauseTimer(v).state = v.state
  <1>1. PauseTimer(v) \in {[v EXCEPT !.pausedFor = 0], v, ClearPause(v)}
    BY Zenon DEF PauseTimer
  <1>2. [v EXCEPT !.pausedFor = 0] \in WatcherType
    BY FieldValues, Zenon DEF WatcherType
  <1>3. /\ Anchored([v EXCEPT !.pausedFor = 0])
        /\ [v EXCEPT !.pausedFor = 0].state = v.state
    BY FieldValues, SMT DEF WatcherType, Anchored
  <1>4. QED
    BY <1>1, <1>2, <1>3, ClearPauseType, Zenon

LEMMA GateType ==
  ASSUME NEW v \in WatcherType, Anchored(v)
  PROVE  /\ Gate(v) \in WatcherType
         /\ Anchored(Gate(v))
         /\ Gate(v).state = v.state
         /\ GateTo(v) \in {"grab", "idle"}
         /\ GateTo(v) = "grab" => Watching(v)
  <1> DEFINE r == ResetEpisode(v)
             g == [r EXCEPT !.mlErr = 0]
  <1>1. r \in WatcherType /\ SamePause(v, r) /\ r.state = v.state
    BY ResetEpisodeType, Zenon
  <1>2. Gate(v) \in {g, v}
    BY Zenon DEF Gate
  <1> HIDE DEF r
  <1>3. g \in WatcherType
    BY <1>1, FieldValues, Zenon DEF WatcherType
  <1>4. SamePause(v, g) /\ g.state = v.state
    BY <1>1, SMT DEF WatcherType, SamePause
  <1>5. /\ GateTo(v) \in {"grab", "idle"}
        /\ GateTo(v) = "grab" => Watching(v)
    BY SMT DEF GateTo
  <1>6. QED
    BY <1>2, <1>3, <1>4, <1>5, Zenon DEF SamePause, Anchored

LEMMA AgedType ==
  ASSUME NEW v \in WatcherType, Anchored(v)
  PROVE  /\ Aged(v) \in WatcherType
         /\ Anchored(Aged(v))
         /\ Aged(v).state = v.state
         /\ Aged(v).bySentinel = v.bySentinel
         /\ v.pausedFor > AUTO_STOP => Aged(v).pausedFor > AUTO_STOP
  <1> DEFINE c == CountDown(v.cooldown)
             l == CountDown(v.markerLeft)
             m == IF v.markerLeft <= 1 THEN "none" ELSE v.marker
             p == IF v.pausedFor = NoTime \/ v.pausedFor = MaxPaused
                  THEN v.pausedFor ELSE v.pausedFor + 1
             a == [v EXCEPT !.cooldown = c, !.markerLeft = l, !.marker = m, !.pausedFor = p]
  <1>1. Aged(v) = a
    BY Zenon DEF Aged
  <1>2. c \in 0..COOLDOWN /\ l \in 0..ADOPT_WINDOW
    BY FieldTypes, ConstantsAssumption, SMT DEF CountDown
  <1>3. m \in Sources \cup {"none"}
    BY FieldTypes, Zenon
  <1>4. /\ p \in NoTime..MaxPaused
        /\ v.pausedFor # NoTime => p # NoTime
        /\ v.pausedFor > AUTO_STOP => p > AUTO_STOP
    BY FieldTypes, Limits, SMT DEF NoTime
  <1> HIDE DEF c, l, m, p
  <1>5. a \in WatcherType
    BY <1>2, <1>3, <1>4, Zenon DEF WatcherType
  <1>6. /\ a.state = v.state
        /\ a.bySentinel = v.bySentinel
        /\ a.pausedFor = p
    BY SMT DEF WatcherType
  <1>7. QED
    BY <1>1, <1>4, <1>5, <1>6, Zenon DEF Anchored

-----------------------------------------------------------------------------
(***************************************************************************)
(* The inductive invariant.  The three safety properties need the type     *)
(* invariant, and the type of votes needs the tick to hold a status        *)
(* whenever a frame is looked at.                                          *)
(***************************************************************************)

StatusHeld == pc \in {"grab", "detect"} => obs \in Status

IInv ==
  /\ TypeOK
  /\ PausesOnlyWhenWatching
  /\ OwnershipHasAnchor
  /\ StopDecidedOnPausedReport
  /\ StatusHeld

LEMMA StatusTypes ==
  /\ IdlePrinter \in Status
  /\ \A status \in Status : status # NoStatus
  /\ \A status \in Status :
       /\ status.file \in Files \cup {NoFile}
       /\ [status EXCEPT !.print = "paused"] \in Status
       /\ [status EXCEPT !.print = "printing"] \in Status
       /\ [status EXCEPT !.warm = TRUE] \in Status
  <1>1. IdlePrinter \in Status
    BY SMT DEF Status, IdlePrinter
  <1>2. \A status \in Status : status # NoStatus
    BY NoStatusAssumption, Zenon
  <1>3. ASSUME NEW status \in Status
        PROVE  /\ status.file \in Files \cup {NoFile}
               /\ [status EXCEPT !.print = "paused"] \in Status
               /\ [status EXCEPT !.print = "printing"] \in Status
               /\ [status EXCEPT !.warm = TRUE] \in Status
    <2>1. {"paused", "printing"} \subseteq {"idle", "printing", "paused"} /\ TRUE \in BOOLEAN
      BY SMT
    <2>2. QED
      BY <2>1, Zenon DEF Status
  <1>4. QED
    BY <1>1, <1>2, <1>3, Zenon

LEMMA InitIInv == Init => IInv
  <1> SUFFICES ASSUME Init PROVE IInv
    OBVIOUS
  <1>1. w \in WatcherType /\ w.bySentinel = FALSE
    <2>1. "IDLE" \in States /\ "none" \in Sources \cup {"none"} /\ "auto" \in Sources
      BY DEF States, Sources
    <2>2. NoFile \in Files \cup {NoFile}
      OBVIOUS
    <2>3. w \in WatcherType
      BY <2>1, <2>2, FieldValues, Zenon DEF Init, WatcherType
    <2>4. w.bySentinel = FALSE
      BY Zenon DEF Init
    <2>5. QED
      BY <2>3, <2>4
  <1>2. TypeOK
    <2>1. /\ printer \in Status /\ view \in Status
          /\ obs \in Status \cup {NoStatus}
      BY StatusTypes, Zenon DEF Init
    <2>2. debounce \in 0..DEBOUNCE /\ pc \in PCs /\ attempt \in Sources
          /\ votes \in Seq(Files \cup {NoFile})
      BY ConstantsAssumption, SMT DEF Init, PCs, Sources
    <2>3. /\ owner \in {"none", "sentinel", "web", "panel"}
          /\ inflight \subseteq {"sentinel", "web"}
          /\ link \in BOOLEAN /\ stopPending \in BOOLEAN /\ known \in BOOLEAN
          /\ enabled \in BOOLEAN /\ web \in BOOLEAN
      BY Zenon DEF Init
    <2>4. QED
      BY <1>1, <2>1, <2>2, <2>3, Zenon DEF TypeOK
  <1>3. pc = "idle"
    BY DEF Init
  <1>4. QED
    BY <1>1, <1>2, <1>3, SMT
       DEF IInv, PausesOnlyWhenWatching, OwnershipHasAnchor, StopDecidedOnPausedReport,
           StatusHeld

\* Between two steps of the tick nothing but the type is at stake.
LEMMA IdleTick ==
  ASSUME TypeOK', Anchored(w'),
         pc' \in {"idle", "retry", "fetch", "update", "recordOk", "recordUnknown"}
  PROVE  IInv'
  BY SMT DEF IInv, PausesOnlyWhenWatching, OwnershipHasAnchor, StopDecidedOnPausedReport,
         StatusHeld, Anchored

\* A step that leaves the tick and the watcher alone.
LEMMA SameTick ==
  ASSUME IInv, TypeOK', UNCHANGED <<pc, obs, w>>
  PROVE  IInv'
  BY SMT DEF IInv, PausesOnlyWhenWatching, OwnershipHasAnchor, StopDecidedOnPausedReport,
         StatusHeld

-----------------------------------------------------------------------------
(***************************************************************************)
(* Every action preserves the inductive invariant.                         *)
(***************************************************************************)

LEMMA TickStartStep == IInv /\ TickStart => IInv'
  <1> SUFFICES ASSUME IInv, TickStart PROVE IInv'
    OBVIOUS
  <1>1. TypeOK'
    BY SMT DEF IInv, TypeOK, TickStart, PCs, printerVars, linkVars
  <1>2. Anchored(w') /\ pc' \in {"retry", "fetch"}
    BY SMT DEF IInv, OwnershipHasAnchor, Anchored, TickStart
  <1>3. QED
    BY <1>1, <1>2, IdleTick, Zenon

LEMMA StopType ==
  ASSUME TypeOK, NEW acked \in BOOLEAN, Stop(acked)
  PROVE  /\ printer' \in Status
         /\ owner' \in {"none", "sentinel", "web", "panel"}
         /\ inflight' \subseteq {"sentinel", "web"}
  <1>1. inflight' = inflight
    BY Zenon DEF Stop
  <1>2. \/ printer' = IdlePrinter /\ owner' = "none"
        \/ printer' = printer /\ owner' = owner
    BY SMT DEF Stop, StopPrint
  <1>3. QED
    BY <1>1, <1>2, StatusTypes, SMT DEF TypeOK

LEMMA RetryStopStep == IInv /\ RetryStop => IInv'
  <1> SUFFICES ASSUME IInv, RetryStop PROVE IInv'
    OBVIOUS
  <1>1. PICK acked \in BOOLEAN : Stop(acked)
    BY DEF RetryStop
  <1>2. TypeOK'
    BY <1>1, StopType, SMT DEF IInv, TypeOK, RetryStop, PCs, linkVars
  <1>3. Anchored(w') /\ pc' = "fetch"
    BY SMT DEF IInv, OwnershipHasAnchor, Anchored, RetryStop
  <1>4. QED
    BY <1>2, <1>3, IdleTick, Zenon

LEMMA StopPendingType ==
  \A status : StopPendingAfter(status) \in BOOLEAN
  BY Zenon DEF StopPendingAfter

LEMMA FetchStep == IInv /\ (FetchFresh \/ FetchStale) => IInv'
  <1> SUFFICES ASSUME IInv, FetchFresh \/ FetchStale PROVE IInv'
    OBVIOUS
  <1>1. TypeOK'
    <2>1. FetchFresh => stopPending' = StopPendingAfter(view) /\ known' = TRUE
      BY Zenon DEF FetchFresh
    <2>2. FetchStale => stopPending' = stopPending /\ known' = known
      BY Zenon DEF FetchStale
    <2>3. stopPending' \in BOOLEAN /\ known' \in BOOLEAN
      BY <2>1, <2>2, StopPendingType, Zenon DEF IInv, TypeOK
    <2>4. /\ pc' \in {"update", "idle"}
          /\ obs' \in {view, obs}
          /\ UNCHANGED <<printerVars, linkVars, debounce, attempt, w, enabled, web, votes>>
      BY SMT DEF FetchFresh, FetchStale
    <2>5. QED
      BY <2>3, <2>4, SMT DEF IInv, TypeOK, PCs, printerVars, linkVars
  <1>2. Anchored(w') /\ pc' \in {"update", "idle"}
    BY SMT DEF IInv, OwnershipHasAnchor, Anchored, FetchFresh, FetchStale
  <1>3. QED
    BY <1>1, <1>2, IdleTick, Zenon

\* The end of _tick, reached from _update_state and from the automatic stop.
LEMMA GateStep ==
  ASSUME IInv, NEW v \in WatcherType, Anchored(v),
         Watching(v) => obs \in Status,
         w' = Gate(v), pc' = GateTo(v),
         obs' = IF GateTo(v) = "idle" THEN NoStatus ELSE obs,
         TypeOK'
  PROVE  IInv'
  <1>1. /\ Anchored(w') /\ w'.state = v.state
        /\ pc' \in {"grab", "idle"}
        /\ pc' = "grab" => Watching(v)
    BY GateType, Zenon
  <1>2. CASE pc' = "idle"
    BY <1>1, <1>2, IdleTick, Zenon
  <1>3. CASE pc' = "grab"
    <2>1. obs' \in Status
      BY <1>1, <1>3, SMT
    <2>2. w'.state \in {"ARMED", "CAMERA_OFFLINE"}
      BY <1>1, <1>3, SMT DEF Watching
    <2>3. QED
      BY <1>1, <1>3, <2>1, <2>2, SMT
         DEF IInv, PausesOnlyWhenWatching, OwnershipHasAnchor, StopDecidedOnPausedReport,
             StatusHeld, Anchored
  <1>4. QED
    BY <1>1, <1>2, <1>3, Zenon

LEMMA UpdateStep == IInv /\ Update => IInv'
  <1> SUFFICES ASSUME IInv, Update PROVE IInv'
    OBVIOUS
  <1> DEFINE u == UpdateState(w, obs)
             v == PauseTimer(u)
  <1>1. w \in WatcherType /\ Anchored(w) /\ obs \in Status \cup {NoStatus}
    BY Zenon DEF IInv, TypeOK, OwnershipHasAnchor, Anchored
  <1>0. votes' \in Seq(Files \cup {NoFile})
    BY SMT DEF IInv, TypeOK, Update
  <1>2. /\ u \in WatcherType /\ Anchored(u)
        /\ Watching(u) => obs \in Status
        /\ u.state = "PAUSED" /\ u.pausedFor > RESUME_GUARD =>
             obs \in Status /\ obs.print = "paused"
    BY <1>1, UpdateStateType, Zenon
  <1>3. debounce' \in 0..DEBOUNCE
    <2>1. debounce' = DebounceAfter(w, u.state)
      BY Zenon DEF Update
    <2>2. debounce \in 0..DEBOUNCE
      BY Zenon DEF IInv, TypeOK
    <2>3. QED
      BY <2>1, <2>2, ConstantsAssumption, SMT DEF DebounceAfter
  <1> HIDE DEF u
  <1>4. v \in WatcherType /\ Anchored(v) /\ v.state = u.state
    BY <1>2, PauseTimerType, Zenon
  <1>5. CASE AutoStopDue(u)
    <2>1. w' = u /\ pc' = "stop" /\ obs' = obs /\ attempt' = attempt
      BY <1>5, Zenon DEF Update, u
    <2>2. TypeOK'
      BY <1>0, <1>2, <1>3, <2>1, SMT DEF IInv, TypeOK, Update, PCs, printerVars, linkVars
    <2>3. u.state = "PAUSED" /\ u.bySentinel /\ AUTO_STOP > 0 /\ u.pausedFor > AUTO_STOP
      BY <1>5, Zenon DEF AutoStopDue
    <2>4. u.pausedFor > RESUME_GUARD
      <3>1. u.pausedFor \in Int
        BY <1>2, FieldTypes, Limits, SMT DEF NoTime
      <3>2. QED
        BY <2>3, <3>1, AutoStopAssumption, Limits, SMT
    <2>5. obs' \in Status /\ obs'.print = "paused"
      BY <1>2, <2>1, <2>3, <2>4, Zenon
    <2>6. StopDecidedOnPausedReport' /\ OwnershipHasAnchor'
      <3>1. obs' # NoStatus
        BY <2>5, StatusTypes, Zenon
      <3>2. w'.bySentinel /\ w'.pausedFor > AUTO_STOP /\ Anchored(w')
        BY <1>2, <2>1, <2>3, Zenon
      <3>3. QED
        BY <2>5, <3>1, <3>2, Zenon DEF StopDecidedOnPausedReport, OwnershipHasAnchor, Anchored
    <2>7. PausesOnlyWhenWatching' /\ StatusHeld'
      BY <2>1, SMT DEF PausesOnlyWhenWatching, StatusHeld
    <2>8. QED
      BY <2>2, <2>6, <2>7, Zenon DEF IInv
  <1>6. CASE ~AutoStopDue(u)
    <2>1. /\ w' = Gate(v) /\ pc' = GateTo(v) /\ attempt' = attempt
          /\ obs' = IF GateTo(v) = "idle" THEN NoStatus ELSE obs
      BY <1>6, Zenon DEF Update, u
    <2> HIDE DEF v
    <2>2. w' \in WatcherType /\ pc' \in PCs
      BY <1>4, <2>1, GateType, SMT DEF PCs
    <2>3. obs' \in Status \cup {NoStatus}
      BY <1>1, <2>1, SMT
    <2>4. TypeOK'
      BY <1>0, <1>3, <2>1, <2>2, <2>3, SMT DEF IInv, TypeOK, Update, printerVars, linkVars
    <2>5. Watching(v) => obs \in Status
      BY <1>2, <1>4, Zenon DEF Watching
    <2>6. QED
      BY <1>4, <2>1, <2>4, <2>5, GateStep, Zenon
  <1>7. QED
    BY <1>5, <1>6, Zenon

LEMMA AutoStopStep == IInv /\ AutoStop => IInv'
  <1> SUFFICES ASSUME IInv, AutoStop PROVE IInv'
    OBVIOUS
  <1>1. PICK acked \in BOOLEAN :
          /\ Stop(acked)
          /\ stopPending' = TRUE
          /\ LET v == IF acked THEN ClearPause(w) ELSE w
             IN  /\ w' = Gate(v)
                 /\ pc' = GateTo(v)
                 /\ obs' = IF GateTo(v) = "idle" THEN NoStatus ELSE obs
    BY Zenon DEF AutoStop
  <1> DEFINE v == IF acked THEN ClearPause(w) ELSE w
  <1>2. v \in WatcherType /\ Anchored(v)
    <2>1. w \in WatcherType /\ Anchored(w)
      BY Zenon DEF IInv, TypeOK, OwnershipHasAnchor, Anchored
    <2>2. QED
      BY <2>1, ClearPauseType, Zenon
  <1>3. /\ w' = Gate(v) /\ pc' = GateTo(v)
        /\ obs' = IF GateTo(v) = "idle" THEN NoStatus ELSE obs
    BY <1>1, Zenon
  <1> HIDE DEF v
  <1>4. obs \in Status
    BY SMT DEF IInv, TypeOK, StopDecidedOnPausedReport, AutoStop
  <1>5. TypeOK'
    <2>1. w' \in WatcherType /\ pc' \in PCs
      BY <1>2, <1>3, GateType, SMT DEF PCs
    <2>2. obs' \in Status \cup {NoStatus}
      BY <1>3, <1>4, SMT
    <2>3. /\ printer' \in Status
          /\ owner' \in {"none", "sentinel", "web", "panel"}
          /\ inflight' \subseteq {"sentinel", "web"}
      BY <1>1, StopType, Zenon DEF IInv
    <2>4. QED
      BY <1>1, <2>1, <2>2, <2>3, SMT DEF IInv, TypeOK, AutoStop, linkVars
  <1>6. QED
    BY <1>2, <1>3, <1>4, <1>5, GateStep, Zenon

\* What a frame step leaves: the tick ends, or a pause is published.
LEMMA FrameStep ==
  ASSUME IInv, TypeOK', Anchored(w'),
         \/ pc' = "idle"
         \/ pc' \in {"publish", "detect"} /\ w'.state \in {"ARMED", "STALLED"} /\ obs' \in Status
  PROVE  IInv'
  BY SMT DEF IInv, PausesOnlyWhenWatching, OwnershipHasAnchor, StopDecidedOnPausedReport,
         StatusHeld, Anchored

LEMMA GrabStep == IInv /\ (GrabFrame \/ CameraOffline \/ GrabFailed) => IInv'
  <1> SUFFICES ASSUME IInv, GrabFrame \/ CameraOffline \/ GrabFailed PROVE IInv'
    OBVIOUS
  <1>1. w \in WatcherType /\ Anchored(w)
    BY Zenon DEF IInv, TypeOK, OwnershipHasAnchor, Anchored
  <1>2. CASE GrabFrame
    <2>1. w' \in {SetState(w, "ARMED"), w}
      BY <1>2, Zenon DEF GrabFrame
    <2>2. /\ SetState(w, "ARMED") \in WatcherType
          /\ SamePause(w, SetState(w, "ARMED"))
          /\ SetState(w, "ARMED").state = "ARMED"
      BY <1>1, StateNames, SetStateType, Zenon
    <2>3. w' \in WatcherType /\ Anchored(w')
      BY <1>1, <2>1, <2>2, Zenon DEF SamePause, Anchored
    <2>4. w'.state \in {"ARMED", "STALLED"}
      <3>1. w.state \in {"ARMED", "CAMERA_OFFLINE", "STALLED"}
        BY <1>2, Zenon DEF GrabFrame, IInv, PausesOnlyWhenWatching
      <3>2. w' = IF w.state = "CAMERA_OFFLINE" THEN SetState(w, "ARMED") ELSE w
        BY <1>2, Zenon DEF GrabFrame
      <3>3. QED
        BY <2>2, <3>1, <3>2, SMT
    <2>5. pc' = "detect" /\ obs' = obs /\ obs \in Status
      BY <1>2, SMT DEF GrabFrame, IInv, StatusHeld
    <2>6. TypeOK'
      BY <1>2, <2>3, <2>5, SMT DEF IInv, TypeOK, GrabFrame, PCs, printerVars, linkVars
    <2>7. QED
      BY <2>3, <2>4, <2>5, <2>6, FrameStep, SMT
  <1>3. CASE CameraOffline \/ GrabFailed
    <2>1. w' \in {ResetEpisode(SetState(w, "CAMERA_OFFLINE")), ResetEpisode(w), w}
      BY <1>3, Zenon DEF CameraOffline, GrabFailed
    <2>2. /\ SetState(w, "CAMERA_OFFLINE") \in WatcherType
          /\ SamePause(w, SetState(w, "CAMERA_OFFLINE"))
      BY <1>1, StateNames, SetStateType, Zenon
    <2>3. /\ ResetEpisode(SetState(w, "CAMERA_OFFLINE")) \in WatcherType
          /\ Anchored(ResetEpisode(SetState(w, "CAMERA_OFFLINE")))
      BY <1>1, <2>2, ResetEpisodeType, Zenon DEF SamePause, Anchored
    <2>4. ResetEpisode(w) \in WatcherType /\ Anchored(ResetEpisode(w))
      BY <1>1, ResetEpisodeType, Zenon DEF SamePause, Anchored
    <2>5. w' \in WatcherType /\ Anchored(w')
      BY <1>1, <2>1, <2>3, <2>4, Zenon
    <2>6. pc' = "idle" /\ obs' = NoStatus /\ attempt' = "auto"
      BY <1>3, Zenon DEF CameraOffline, GrabFailed, EndTick
    <2>7. /\ UNCHANGED <<printerVars, linkVars, debounce, stopPending, known, enabled, web>>
          /\ votes' \in {votes, << >>}
      BY <1>3, Zenon DEF CameraOffline, GrabFailed
    <2>8. votes' \in Seq(Files \cup {NoFile})
      BY <2>7, NoVotes DEF IInv, TypeOK
    <2>9. TypeOK'
      BY <2>5, <2>6, <2>7, <2>8, SMT DEF IInv, TypeOK, PCs, Sources, printerVars, linkVars
    <2>10. QED
      BY <2>5, <2>6, <2>9, FrameStep, Zenon
  <1>4. QED
    BY <1>2, <1>3, Zenon

LEMMA DetectHighStep == IInv /\ DetectHigh => IInv'
  <1> SUFFICES ASSUME IInv, DetectHigh PROVE IInv'
    OBVIOUS
  <1> DEFINE reached == w.confirm + 1 >= CONFIRM
             n == IF reached THEN 0 ELSE w.confirm + 1
             d == [w EXCEPT !.mlErr = 0, !.mlAlerted = FALSE, !.confirm = n]
  <1>1. w \in WatcherType /\ Anchored(w)
    BY Zenon DEF IInv, TypeOK, OwnershipHasAnchor, Anchored
  <1>2. w' = d
    BY Zenon DEF DetectHigh
  <1>3. n \in 0..CONFIRM
    BY <1>1, FieldTypes, ConstantsAssumption, SMT
  <1> HIDE DEF n
  <1>4. d \in WatcherType
    BY <1>1, <1>3, FieldValues, Zenon DEF WatcherType
  <1>5. Anchored(d) /\ d.state = w.state
    BY <1>1, SMT DEF WatcherType, Anchored
  <1>6. pc = "detect" /\ obs \in Status /\ w.state \in {"ARMED", "STALLED"}
    BY SMT DEF DetectHigh, IInv, StatusHeld, PausesOnlyWhenWatching
  <1>7. votes' \in Seq(Files \cup {NoFile})
    <2>1. obs.file \in Files \cup {NoFile}
      BY <1>6, StatusTypes, Zenon
    <2>2. votes \in Seq(Files \cup {NoFile})
      BY Zenon DEF IInv, TypeOK
    <2>3. votes' = LastVotes(Append(votes, obs.file))
      BY Zenon DEF DetectHigh
    <2>4. Append(votes, obs.file) \in Seq(Files \cup {NoFile})
      BY <2>1, <2>2, SMT
    <2>5. Len(Append(votes, obs.file)) > CONFIRM => Append(votes, obs.file) # << >>
      BY <2>1, <2>2, ConstantsAssumption, SMT
    <2>6. QED
      BY <2>3, <2>4, <2>5, SMT DEF LastVotes
  <1>8. \/ pc' = "publish" /\ attempt' = "auto" /\ obs' = obs
        \/ pc' = "idle" /\ attempt' = "auto" /\ obs' = NoStatus
    BY Zenon DEF DetectHigh, EndTick
  <1> HIDE DEF d
  <1>9. TypeOK'
    BY <1>2, <1>4, <1>6, <1>7, <1>8, SMT
       DEF IInv, TypeOK, DetectHigh, PCs, Sources, printerVars, linkVars
  <1>10. QED
    BY <1>2, <1>5, <1>6, <1>8, <1>9, FrameStep, SMT

LEMMA DetectLowStep == IInv /\ DetectLow => IInv'
  <1> SUFFICES ASSUME IInv, DetectLow PROVE IInv'
    OBVIOUS
  <1> DEFINE d == [w EXCEPT !.mlErr = 0, !.mlAlerted = FALSE, !.confirm = 0,
                            !.pauseAlerted = FALSE]
  <1>1. w \in WatcherType /\ Anchored(w)
    BY Zenon DEF IInv, TypeOK, OwnershipHasAnchor, Anchored
  <1>2. w' = d
    BY Zenon DEF DetectLow
  <1>3. d \in WatcherType
    BY <1>1, FieldValues, Zenon DEF WatcherType
  <1>4. Anchored(d)
    BY <1>1, SMT DEF WatcherType, Anchored
  <1> HIDE DEF d
  <1>5. TypeOK'
    <2>1. votes' \in Seq(Files \cup {NoFile})
      BY SMT DEF DetectLow
    <2>2. QED
      BY <1>2, <1>3, <2>1, SMT
         DEF IInv, TypeOK, DetectLow, EndTick, PCs, Sources, printerVars, linkVars
  <1>6. pc' = "idle"
    BY Zenon DEF DetectLow, EndTick
  <1>7. QED
    BY <1>2, <1>4, <1>5, <1>6, FrameStep, Zenon

LEMMA DetectErrorStep == IInv /\ DetectError => IInv'
  <1> SUFFICES ASSUME IInv, DetectError PROVE IInv'
    OBVIOUS
  <1> DEFINE closed == w.mlErr + 1 >= ML_THRESHOLD
             n == IF closed THEN ML_THRESHOLD ELSE w.mlErr + 1
             a == w.mlAlerted \/ closed
             d == [w EXCEPT !.mlErr = n, !.mlAlerted = a]
  <1>1. w \in WatcherType /\ Anchored(w)
    BY Zenon DEF IInv, TypeOK, OwnershipHasAnchor, Anchored
  <1>2. w' = d
    BY Zenon DEF DetectError
  <1>3. n \in 0..ML_THRESHOLD
    BY <1>1, FieldTypes, ConstantsAssumption, SMT
  <1>4. a \in BOOLEAN
    BY Zenon
  <1> HIDE DEF n, a
  <1>5. d \in WatcherType
    BY <1>1, <1>3, <1>4, Zenon DEF WatcherType
  <1>6. Anchored(d) /\ d.state = w.state
    BY <1>1, SMT DEF WatcherType, Anchored
  <1>7. pc = "detect" /\ obs \in Status /\ w.state \in {"ARMED", "STALLED"}
    BY SMT DEF DetectError, IInv, StatusHeld, PausesOnlyWhenWatching
  <1>8. \/ pc' = "publish" /\ attempt' = "ml_failure" /\ obs' = obs
        \/ pc' = "idle" /\ attempt' = "auto" /\ obs' = NoStatus
    BY Zenon DEF DetectError, EndTick
  <1> HIDE DEF d
  <1>9. TypeOK'
    BY <1>2, <1>5, <1>7, <1>8, SMT
       DEF IInv, TypeOK, DetectError, PCs, Sources, printerVars, linkVars
  <1>10. QED
    BY <1>2, <1>6, <1>7, <1>8, <1>9, FrameStep, SMT

-----------------------------------------------------------------------------
(***************************************************************************)
(* The pause: whatever its outcome, no later step of this tick pauses.      *)
(***************************************************************************)

Settled ==
  /\ w' \in WatcherType /\ Anchored(w')
  /\ pc' \in {"idle", "recordOk", "recordUnknown"}
  /\ obs' \in Status \cup {NoStatus}
  /\ attempt' \in Sources

LEMMA PauseHoldsSettled == IInv /\ PauseHolds => Settled
  <1> SUFFICES ASSUME IInv, PauseHolds PROVE Settled
    OBVIOUS
  <1> DEFINE m == MarkPausedBySentinel(w, attempt)
             d == [m EXCEPT !.pauseAlerted = FALSE]
  <1>1. w \in WatcherType /\ attempt \in Sources /\ obs \in Status \cup {NoStatus}
    BY Zenon DEF IInv, TypeOK
  <1>2. m \in WatcherType /\ Anchored(m)
    BY <1>1, MarkPausedBySentinelType, Zenon
  <1>3. \/ w' = d /\ EndTick
        \/ w' = m /\ pc' = "recordOk" /\ UNCHANGED <<obs, attempt>>
    BY Zenon DEF PauseHolds
  <1> HIDE DEF m
  <1>4. d \in WatcherType
    BY <1>2, Zenon DEF WatcherType
  <1>5. Anchored(d)
    BY <1>2, SMT DEF WatcherType, Anchored
  <1> HIDE DEF d
  <1>6. w' \in WatcherType /\ Anchored(w')
    BY <1>2, <1>3, <1>4, <1>5, Zenon
  <1>7. QED
    BY <1>1, <1>3, <1>6, SMT DEF Settled, EndTick, Sources

LEMMA KeepStreakType ==
  ASSUME NEW v \in WatcherType, Anchored(v)
  PROVE  KeepStreak(v) \in WatcherType /\ Anchored(KeepStreak(v))
  <1>1. KeepStreak(v) \in WatcherType
    BY FieldValues, Zenon DEF KeepStreak, WatcherType
  <1>2. Anchored(KeepStreak(v))
    BY SMT DEF KeepStreak, WatcherType, Anchored
  <1>3. QED
    BY <1>1, <1>2

LEMMA PauseLostSettled == IInv /\ PauseLost => Settled
  <1> SUFFICES ASSUME IInv, PauseLost PROVE Settled
    OBVIOUS
  <1>1. w \in WatcherType /\ Anchored(w)
    BY Zenon DEF IInv, TypeOK, OwnershipHasAnchor, Anchored
  <1>2. w' \in {KeepStreak(w), w} /\ EndTick
    BY Zenon DEF PauseLost
  <1>3. w' \in WatcherType /\ Anchored(w')
    BY <1>1, <1>2, KeepStreakType, Zenon
  <1>4. QED
    BY <1>2, <1>3, SMT DEF Settled, EndTick, Sources

LEMMA PauseUnknownSettled == IInv /\ PauseUnknown => Settled
  <1> SUFFICES ASSUME IInv, PauseUnknown PROVE Settled
    OBVIOUS
  <1>1. w \in WatcherType /\ Anchored(w)
    BY Zenon DEF IInv, TypeOK, OwnershipHasAnchor, Anchored
  <1>2. "auto" \in Sources
    BY DEF Sources
  <1>3. ArmMarker(w, "auto") \in WatcherType /\ Anchored(ArmMarker(w, "auto"))
    BY <1>1, <1>2, ArmMarkerType, Zenon DEF SamePause, Anchored
  <1>4. /\ KeepStreak(ArmMarker(w, "auto")) \in WatcherType
        /\ Anchored(KeepStreak(ArmMarker(w, "auto")))
    BY <1>3, KeepStreakType, Zenon
  <1>5. \/ w' = KeepStreak(ArmMarker(w, "auto")) /\ EndTick
        \/ pc' = "recordUnknown" /\ UNCHANGED <<w, obs, attempt>>
    BY Zenon DEF PauseUnknown
  <1>6. w' \in WatcherType /\ Anchored(w')
    BY <1>1, <1>4, <1>5, SMT
  <1>7. obs \in Status \cup {NoStatus} /\ attempt \in Sources
    BY Zenon DEF IInv, TypeOK
  <1>8. QED
    BY <1>2, <1>5, <1>6, <1>7, SMT DEF Settled, EndTick

LEMMA LiveCheckType ==
  ASSUME IInv, NEW paused \in BOOLEAN, LiveCheck(paused)
  PROVE  stopPending' \in BOOLEAN
  BY StopPendingType, Zenon DEF IInv, TypeOK, LiveCheck

LEMMA AfterRaiseSettled ==
  IInv /\ (AfterRaise(PauseLost) \/ AfterRaise(PauseUnknown))
    => Settled /\ stopPending' \in BOOLEAN
  <1> SUFFICES ASSUME IInv, AfterRaise(PauseLost) \/ AfterRaise(PauseUnknown)
               PROVE  Settled /\ stopPending' \in BOOLEAN
    OBVIOUS
  <1>1. PauseHolds \/ PauseLost \/ PauseUnknown
    BY Zenon DEF AfterRaise
  <1>2. stopPending' \in BOOLEAN
    <2>1. \/ \E paused \in BOOLEAN : LiveCheck(paused)
          \/ UNCHANGED stopPending
      BY Zenon DEF AfterRaise
    <2>2. stopPending \in BOOLEAN
      BY Zenon DEF IInv, TypeOK
    <2>3. QED
      BY <2>1, <2>2, LiveCheckType, Zenon
  <1>3. QED
    BY <1>1, <1>2, PauseHoldsSettled, PauseLostSettled, PauseUnknownSettled, Zenon

LEMMA PublishDebouncedStep == IInv /\ PublishDebounced => IInv'
  <1> SUFFICES ASSUME IInv, PublishDebounced PROVE IInv'
    OBVIOUS
  <1>1. PICK paused \in BOOLEAN : LiveCheck(paused) /\ (PauseHolds \/ PauseLost)
    BY Zenon DEF PublishDebounced
  <1>2. Settled /\ stopPending' \in BOOLEAN
    BY <1>1, LiveCheckType, PauseHoldsSettled, PauseLostSettled, Zenon
  <1>3. UNCHANGED <<printerVars, linkVars, debounce, known, enabled, web, votes>>
    BY Zenon DEF PublishDebounced
  <1>4. TypeOK'
    BY <1>2, <1>3, SMT DEF IInv, TypeOK, Settled, PCs, printerVars, linkVars
  <1>5. QED
    BY <1>2, <1>4, IdleTick, SMT DEF Settled

\* The pause is on its way: the tick still holds the state it published in.
LEMMA PublishStep == IInv /\ (PublishPause \/ RepublishPause) => IInv'
  <1> SUFFICES ASSUME IInv, PublishPause \/ RepublishPause PROVE IInv'
    OBVIOUS
  <1>1. /\ pc' \in {"acking", "backoff"} /\ w' = w
        /\ inflight' \subseteq {"sentinel", "web"}
        /\ debounce' \in 0..DEBOUNCE
    <2>1. debounce \in 0..DEBOUNCE /\ inflight \subseteq {"sentinel", "web"}
      BY Zenon DEF IInv, TypeOK
    <2>2. debounce' \in {DEBOUNCE, debounce}
      BY Zenon DEF PublishPause, RepublishPause
    <2>3. inflight' \in {inflight, inflight \cup {"sentinel"}}
      BY Zenon DEF PublishPause, RepublishPause
    <2>4. pc' \in {"acking", "backoff"} /\ w' = w
      BY Zenon DEF PublishPause, RepublishPause
    <2>5. DEBOUNCE \in 0..DEBOUNCE
      BY ConstantsAssumption, SMT
    <2>6. QED
      BY <2>1, <2>2, <2>3, <2>4, <2>5, SMT
  <1>2. UNCHANGED <<printer, owner, linkVars, stopPending, obs, known, attempt, w, enabled,
                    web, votes>>
    BY Zenon DEF PublishPause, RepublishPause
  <1>3. TypeOK'
    BY <1>1, <1>2, SMT DEF IInv, TypeOK, PCs, linkVars
  <1>4. w.state \in {"ARMED", "STALLED"}
    BY SMT DEF IInv, PausesOnlyWhenWatching, PublishPause, RepublishPause
  <1>5. QED
    BY <1>1, <1>3, <1>4, SMT
       DEF IInv, PausesOnlyWhenWatching, OwnershipHasAnchor, StopDecidedOnPausedReport,
           StatusHeld

LEMMA AckStep == IInv /\ (PauseAcked \/ PauseUnacked \/ PauseFailed) => IInv'
  <1> SUFFICES ASSUME IInv, PauseAcked \/ PauseUnacked \/ PauseFailed PROVE IInv'
    OBVIOUS
  <1>1. CASE PauseAcked
    <2>1. Settled
      BY <1>1, PauseHoldsSettled, Zenon DEF PauseAcked
    <2>2. UNCHANGED <<printerVars, linkVars, debounce, stopPending, known, enabled, web, votes>>
      BY <1>1, Zenon DEF PauseAcked
    <2>3. TypeOK'
      BY <2>1, <2>2, SMT DEF IInv, TypeOK, Settled, PCs, printerVars, linkVars
    <2>4. QED
      BY <2>1, <2>3, IdleTick, SMT DEF Settled
  <1>2. CASE PauseUnacked \/ PauseFailed
    <2>1. Settled /\ stopPending' \in BOOLEAN
      BY <1>2, AfterRaiseSettled, Zenon DEF PauseUnacked, PauseFailed
    <2>2. /\ debounce' \in 0..DEBOUNCE
          /\ inflight' \subseteq {"sentinel", "web"}
      <3>1. inflight \subseteq {"sentinel", "web"}
        BY Zenon DEF IInv, TypeOK
      <3>2. inflight' \in {inflight, inflight \ {"sentinel"}}
        BY <1>2, Zenon DEF PauseUnacked, PauseFailed, printerVars
      <3>3. debounce' \in {0, DEBOUNCE}
        BY <1>2, Zenon DEF PauseUnacked, PauseFailed
      <3>4. {0, DEBOUNCE} \subseteq 0..DEBOUNCE
        BY ConstantsAssumption, SMT
      <3>5. QED
        BY <3>1, <3>2, <3>3, <3>4, SMT
    <2>3. UNCHANGED <<printer, owner, linkVars, known, enabled, web, votes>>
      BY <1>2, SMT DEF PauseUnacked, PauseFailed, printerVars
    <2>4. TypeOK'
      BY <2>1, <2>2, <2>3, SMT DEF IInv, TypeOK, Settled, PCs, linkVars
    <2>5. QED
      BY <2>1, <2>4, IdleTick, SMT DEF Settled
  <1>3. QED
    BY <1>1, <1>2, Zenon

LEMMA RecordStep == IInv /\ RecordMlPause => IInv'
  <1> SUFFICES ASSUME IInv, RecordMlPause PROVE IInv'
    OBVIOUS
  <1> DEFINE d == [w EXCEPT !.confirm = 0, !.mlErr = 0, !.mlAlerted = FALSE]
  <1>1. w \in WatcherType /\ Anchored(w)
    BY Zenon DEF IInv, TypeOK, OwnershipHasAnchor, Anchored
  <1>2. w' \in {d, ArmMarker(w, "ml_failure")} /\ EndTick
    BY Zenon DEF RecordMlPause
  <1>3. d \in WatcherType
    BY <1>1, FieldValues, Zenon DEF WatcherType
  <1>4. Anchored(d)
    BY <1>1, SMT DEF WatcherType, Anchored
  <1> HIDE DEF d
  <1>5. "ml_failure" \in Sources
    BY DEF Sources
  <1>6. /\ ArmMarker(w, "ml_failure") \in WatcherType
        /\ Anchored(ArmMarker(w, "ml_failure"))
    BY <1>1, <1>5, ArmMarkerType, Zenon DEF SamePause, Anchored
  <1>7. w' \in WatcherType /\ Anchored(w')
    BY <1>2, <1>3, <1>4, <1>6, Zenon
  <1>8. UNCHANGED <<printerVars, linkVars, debounce, stopPending, known, enabled, web, votes>>
    BY Zenon DEF RecordMlPause
  <1>9. TypeOK'
    BY <1>2, <1>7, <1>8, SMT DEF IInv, TypeOK, EndTick, PCs, Sources, printerVars, linkVars
  <1>10. QED
    BY <1>2, <1>7, <1>9, IdleTick, SMT DEF EndTick

-----------------------------------------------------------------------------
(***************************************************************************)
(* What happens between the steps of the tick.  The watchdog and an         *)
(* operator's resume move a watcher whose tick is suspended only to STALLED *)
(* or ARMED, and leave the pause it measures alone.                         *)
(***************************************************************************)

LEMMA BetweenSteps ==
  ASSUME IInv, TypeOK', UNCHANGED <<pc, obs>>, Anchored(w'),
         w'.state \in {w.state, "ARMED", "STALLED"},
         w'.bySentinel = w.bySentinel,
         w.pausedFor > AUTO_STOP => w'.pausedFor > AUTO_STOP
  PROVE  IInv'
  <1>1. PausesOnlyWhenWatching' /\ StatusHeld'
    BY SMT DEF IInv, PausesOnlyWhenWatching, StatusHeld
  <1>2. OwnershipHasAnchor'
    BY Zenon DEF OwnershipHasAnchor, Anchored
  <1>3. StopDecidedOnPausedReport'
    BY Zenon DEF IInv, StopDecidedOnPausedReport
  <1>4. QED
    BY <1>1, <1>2, <1>3, Zenon DEF IInv

LEMMA WatchdogStep == IInv /\ Watchdog => IInv'
  <1> SUFFICES ASSUME IInv, Watchdog PROVE IInv'
    OBVIOUS
  <1>1. w \in WatcherType /\ Anchored(w)
    BY Zenon DEF IInv, TypeOK, OwnershipHasAnchor, Anchored
  <1>2. w' = SetState(w, "STALLED")
    BY Zenon DEF Watchdog
  <1>3. w' \in WatcherType /\ SamePause(w, w') /\ w'.state = "STALLED"
    BY <1>1, <1>2, StateNames, SetStateType, Zenon
  <1>4. UNCHANGED <<printerVars, linkVars, debounce, stopPending, tickVars, enabled, web, votes>>
    BY Zenon DEF Watchdog
  <1>5. TypeOK'
    BY <1>3, <1>4, SMT DEF IInv, TypeOK, printerVars, linkVars, tickVars
  <1>6. UNCHANGED <<pc, obs>>
    BY <1>4, SMT DEF tickVars
  <1>7. QED
    BY <1>1, <1>3, <1>5, <1>6, BetweenSteps, Zenon DEF SamePause, Anchored

LEMMA RefreshType ==
  ASSUME TypeOK, printer' \in Status, NEW pending \in BOOLEAN,
         Refresh(pending) \/ NoRefresh
  PROVE  /\ link' \in BOOLEAN /\ view' \in Status
         /\ stopPending' \in BOOLEAN /\ known' \in BOOLEAN
  <1>1. link' = link
    BY SMT DEF Refresh, NoRefresh, linkVars
  <1>2. view' \in {view, printer'}
    BY SMT DEF Refresh, NoRefresh, linkVars
  <1>3. (pending /\ view'.print # "idle") \in BOOLEAN
    BY Zenon
  <1>4. \/ known' = TRUE /\ stopPending' = (pending /\ view'.print # "idle")
        \/ known' = known /\ stopPending' = pending
        \/ known' = known /\ stopPending' = stopPending
    BY Zenon DEF Refresh, NoRefresh
  <1>5. stopPending' \in BOOLEAN /\ known' \in BOOLEAN
    BY <1>3, <1>4, Zenon DEF TypeOK
  <1>6. link' \in BOOLEAN
    BY <1>1, Zenon DEF TypeOK
  <1>7. view' \in Status
    BY <1>2, SMT DEF TypeOK
  <1>8. QED
    BY <1>5, <1>6, <1>7

LEMMA PrinterMoves ==
  ASSUME TypeOK, NEW who \in {"sentinel", "web", "panel"},
         PausePrint(who) \/ ResumePrint \/ StopPrint \/ UNCHANGED <<printer, owner>>
  PROVE  printer' \in Status /\ owner' \in {"none", "sentinel", "web", "panel"}
  <1>1. printer' \in {[printer EXCEPT !.print = "paused"], [printer EXCEPT !.print = "printing"],
                      IdlePrinter, printer}
    BY SMT DEF PausePrint, ResumePrint, StopPrint
  <1>2. owner' \in {who, "none", owner}
    BY SMT DEF PausePrint, ResumePrint, StopPrint
  <1>3. printer \in Status /\ owner \in {"none", "sentinel", "web", "panel"}
    BY Zenon DEF TypeOK
  <1>4. printer' \in Status
    BY <1>1, <1>3, StatusTypes, Zenon
  <1>5. QED
    BY <1>2, <1>3, <1>4, SMT

LEMMA WebPauseStep == IInv /\ WebPause => IInv'
  <1> SUFFICES ASSUME IInv, WebPause PROVE IInv'
    OBVIOUS
  <1>1. w \in WatcherType /\ Anchored(w)
    BY Zenon DEF IInv, TypeOK, OwnershipHasAnchor, Anchored
  <1>2. w' = DropMarker(w)
    BY Zenon DEF WebPause
  <1>3. w' \in WatcherType /\ SamePause(w, w') /\ w'.state = w.state
    BY <1>1, <1>2, DropMarkerType, Zenon
  <1>4. UNCHANGED <<printerVars, pc, obs, attempt, enabled, votes>>
    BY Zenon DEF WebPause
  <1>5. TypeOK'
    <2>1. printer' \in Status
      BY <1>4, SMT DEF IInv, TypeOK, printerVars
    <2>2. stopPending \in BOOLEAN
      BY Zenon DEF IInv, TypeOK
    <2>3. Refresh(stopPending) \/ NoRefresh
      BY Zenon DEF WebPause
    <2>4. /\ link' \in BOOLEAN /\ view' \in Status
          /\ stopPending' \in BOOLEAN /\ known' \in BOOLEAN
      BY <2>1, <2>2, <2>3, RefreshType, Zenon DEF IInv
    <2>5. debounce' \in 0..DEBOUNCE
      <3>1. debounce' \in {DEBOUNCE, debounce}
        BY SMT DEF WebPause
      <3>2. QED
        BY <3>1, ConstantsAssumption, SMT DEF IInv, TypeOK
    <2>6. web' \in BOOLEAN
      BY Zenon DEF WebPause, IInv, TypeOK
    <2>7. QED
      BY <1>3, <1>4, <2>4, <2>5, <2>6, SMT DEF IInv, TypeOK, printerVars
  <1>6. QED
    BY <1>1, <1>3, <1>4, <1>5, BetweenSteps, SMT DEF SamePause, Anchored

LEMMA WebPauseSentStep == IInv /\ WebPauseSent => IInv'
  <1> SUFFICES ASSUME IInv, WebPauseSent PROVE IInv'
    OBVIOUS
  <1>1. UNCHANGED <<pc, obs, attempt, w, enabled, votes>> /\ web' \in BOOLEAN
    BY Zenon DEF WebPauseSent
  <1>2. printer' \in Status /\ owner' \in {"none", "sentinel", "web", "panel"}
    <2>1. PausePrint("web") \/ UNCHANGED <<printer, owner>>
      BY Zenon DEF WebPauseSent, printerVars
    <2>2. QED
      BY <2>1, PrinterMoves, Zenon DEF IInv
  <1>3. /\ link' \in BOOLEAN /\ view' \in Status
        /\ stopPending' \in BOOLEAN /\ known' \in BOOLEAN
    <2>1. Refresh(stopPending) \/ NoRefresh
      BY Zenon DEF WebPauseSent
    <2>2. stopPending \in BOOLEAN
      BY Zenon DEF IInv, TypeOK
    <2>3. QED
      BY <1>2, <2>1, <2>2, RefreshType, Zenon DEF IInv
  <1>4. inflight' \subseteq {"sentinel", "web"} /\ debounce' \in 0..DEBOUNCE
    <2>1. inflight' \in {inflight, inflight \cup {"web"}}
      BY Zenon DEF WebPauseSent, printerVars
    <2>2. debounce' \in {debounce, DEBOUNCE, 0}
      BY Zenon DEF WebPauseSent
    <2>3. inflight \subseteq {"sentinel", "web"} /\ debounce \in 0..DEBOUNCE
      BY Zenon DEF IInv, TypeOK
    <2>4. {0, DEBOUNCE} \subseteq 0..DEBOUNCE
      BY ConstantsAssumption, SMT
    <2>5. QED
      BY <2>1, <2>2, <2>3, <2>4, SMT
  <1>5. TypeOK'
    BY <1>1, <1>2, <1>3, <1>4, SMT DEF IInv, TypeOK
  <1>6. QED
    BY <1>1, <1>5, SameTick, Zenon

LEMMA OperatorResumeType ==
  ASSUME NEW v \in WatcherType
  PROVE  LET u == NoteOperatorResume(v)
         IN  u \in WatcherType /\ SamePause(v, u) /\ u.state = v.state
  <1> DEFINE d == DropMarker(ResetEpisode(v))
             u == [d EXCEPT !.cooldown = COOLDOWN, !.resumed = TRUE]
  <1>1. d \in WatcherType /\ SamePause(v, d) /\ d.state = v.state
    BY ResetEpisodeType, DropMarkerType, Zenon DEF SamePause
  <1> HIDE DEF d
  <1>2. u \in WatcherType
    BY <1>1, FieldValues, Zenon DEF WatcherType
  <1>3. SamePause(v, u) /\ u.state = v.state
    BY <1>1, SMT DEF WatcherType, SamePause
  <1>4. QED
    BY <1>2, <1>3, Zenon DEF NoteOperatorResume, d

LEMMA WebResumeStep == IInv /\ WebResume => IInv'
  <1> SUFFICES ASSUME IInv, WebResume PROVE IInv'
    OBVIOUS
  <1> DEFINE v == NoteOperatorResume(w)
  <1>1. w \in WatcherType /\ Anchored(w)
    BY Zenon DEF IInv, TypeOK, OwnershipHasAnchor, Anchored
  <1>2. v \in WatcherType /\ SamePause(w, v) /\ v.state = w.state
    BY <1>1, OperatorResumeType, Zenon
  <1>3. w' \in {SetState(v, "ARMED"), v}
    BY Zenon DEF WebResume
  <1> HIDE DEF v
  <1>4. /\ SetState(v, "ARMED") \in WatcherType
        /\ SamePause(v, SetState(v, "ARMED"))
        /\ SetState(v, "ARMED").state = "ARMED"
    BY <1>2, StateNames, SetStateType, Zenon
  <1>5. w' \in WatcherType /\ SamePause(w, w') /\ w'.state \in {w.state, "ARMED"}
    BY <1>2, <1>3, <1>4, Zenon DEF SamePause
  <1>6. /\ UNCHANGED <<inflight, pc, obs, attempt, enabled, web>>
        /\ debounce' = 0 /\ votes' \in {votes, << >>} /\ ResumePrint /\ Refresh(stopPending)
    BY Zenon DEF WebResume
  <1>7. TypeOK'
    <2>1. printer' \in Status /\ owner' \in {"none", "sentinel", "web", "panel"}
      BY <1>6, PrinterMoves, Zenon DEF IInv
    <2>2. stopPending \in BOOLEAN
      BY Zenon DEF IInv, TypeOK
    <2>3. /\ link' \in BOOLEAN /\ view' \in Status
          /\ stopPending' \in BOOLEAN /\ known' \in BOOLEAN
      BY <1>6, <2>1, <2>2, RefreshType, Zenon DEF IInv
    <2>4. votes' \in Seq(Files \cup {NoFile})
      BY <1>6, NoVotes DEF IInv, TypeOK
    <2>5. debounce' \in 0..DEBOUNCE
      BY <1>6, ConstantsAssumption, SMT
    <2>6. QED
      BY <1>5, <1>6, <2>1, <2>3, <2>4, <2>5, SMT DEF IInv, TypeOK
  <1>8. QED
    BY <1>1, <1>5, <1>6, <1>7, BetweenSteps, SMT DEF SamePause, Anchored

LEMMA WebStopStep == IInv /\ WebStop => IInv'
  <1> SUFFICES ASSUME IInv, WebStop PROVE IInv'
    OBVIOUS
  <1>1. PICK acked \in BOOLEAN :
          /\ Stop(acked)
          /\ IF acked THEN Refresh(TRUE)
                      ELSE stopPending' = TRUE /\ UNCHANGED <<linkVars, known>>
    BY Zenon DEF WebStop
  <1>2. UNCHANGED <<debounce, pc, obs, attempt, w, enabled, web, votes>>
    BY Zenon DEF WebStop
  <1>3. /\ printer' \in Status
        /\ owner' \in {"none", "sentinel", "web", "panel"}
        /\ inflight' \subseteq {"sentinel", "web"}
    BY <1>1, StopType, Zenon DEF IInv
  <1>4. /\ link' \in BOOLEAN /\ view' \in Status
        /\ stopPending' \in BOOLEAN /\ known' \in BOOLEAN
    <2>1. CASE acked
      <3>1. Refresh(TRUE)
        BY <1>1, <2>1, Zenon
      <3>2. QED
        BY <1>3, <3>1, RefreshType, Zenon DEF IInv
    <2>2. CASE ~acked
      BY <1>1, <2>2, Zenon DEF IInv, TypeOK, linkVars
    <2>3. QED
      BY <2>1, <2>2
  <1>5. TypeOK'
    BY <1>2, <1>3, <1>4, SMT DEF IInv, TypeOK
  <1>6. QED
    BY <1>2, <1>5, SameTick, Zenon

LEMMA ToggleStep == IInv /\ ToggleDetection => IInv'
  <1> SUFFICES ASSUME IInv, ToggleDetection PROVE IInv'
    OBVIOUS
  <1>1. UNCHANGED <<printerVars, linkVars, debounce, stopPending, tickVars, w, web, votes>>
    BY Zenon DEF ToggleDetection
  <1>2. enabled' \in BOOLEAN
    <2>1. (~enabled) \in BOOLEAN
      BY Zenon
    <2>2. QED
      BY <2>1, Zenon DEF ToggleDetection
  <1>3. TypeOK'
    BY <1>1, <1>2, SMT DEF IInv, TypeOK, printerVars, linkVars, tickVars
  <1>4. UNCHANGED <<pc, obs, w>>
    BY <1>1, SMT DEF tickVars
  <1>5. QED
    BY <1>3, <1>4, SameTick, Zenon

LEMMA PrinterStep == IInv /\ Printer => IInv'
  <1> SUFFICES ASSUME IInv, Printer PROVE IInv'
    OBVIOUS
  <1>1. UNCHANGED printerOnly
    BY Zenon DEF Printer, StartPrint, NameReported, EndPrint, WarmedUp, PanelPause,
                 PanelResume, ExecutePause, LosePause
  <1>2. printer \in Status /\ owner \in {"none", "sentinel", "web", "panel"}
        /\ inflight \subseteq {"sentinel", "web"}
    BY Zenon DEF IInv, TypeOK
  <1>3. /\ printer' \in Status
        /\ owner' \in {"none", "sentinel", "web", "panel"}
        /\ inflight' \subseteq {"sentinel", "web"}
    <2>1. CASE StartPrint
      <3>1. PICK f \in Files \cup {NoFile}, warm \in BOOLEAN :
              printer' = [print |-> "printing", file |-> f, warm |-> warm]
        BY <2>1, Zenon DEF StartPrint
      <3>2. printer' \in Status
        BY <3>1, SMT DEF Status
      <3>3. QED
        BY <1>2, <2>1, <3>2, SMT DEF StartPrint
    <2>2. CASE WarmedUp
      <3>1. printer' = [printer EXCEPT !.warm = TRUE] /\ UNCHANGED <<owner, inflight>>
        BY <2>2, Zenon DEF WarmedUp
      <3>2. printer' \in Status
        BY <1>2, <3>1, StatusTypes, Zenon
      <3>3. QED
        BY <1>2, <3>1, <3>2, SMT
    <2>0. CASE NameReported
      <3>1. /\ \E f \in Files : printer' = [printer EXCEPT !.file = f]
            /\ UNCHANGED <<owner, inflight>>
        BY <2>0, Zenon DEF NameReported
      <3>2. printer' \in Status
        BY <1>2, <3>1, Zenon DEF Status
      <3>3. QED
        BY <1>2, <3>1, <3>2, SMT
    <2>3. CASE EndPrint \/ PanelPause \/ PanelResume
      <3>1. (StopPrint \/ PausePrint("panel") \/ ResumePrint) /\ inflight' = inflight
        BY <2>3, Zenon DEF EndPrint, PanelPause, PanelResume
      <3>2. QED
        BY <1>2, <3>1, PrinterMoves, Zenon DEF IInv
    <2>4. CASE ExecutePause
      <3>1. PICK who \in inflight : inflight' = inflight \ {who} /\ PausePrint(who)
        BY <2>4, Zenon DEF ExecutePause
      <3>2. who \in {"sentinel", "web", "panel"}
        BY <1>2, SMT
      <3>3. printer' \in Status /\ owner' \in {"none", "sentinel", "web", "panel"}
        BY <3>1, <3>2, PrinterMoves, Zenon DEF IInv
      <3>4. QED
        BY <1>2, <3>1, <3>3, SMT
    <2>5. CASE LosePause
      <3>1. PICK who \in inflight : inflight' = inflight \ {who}
        BY <2>5, Zenon DEF LosePause
      <3>2. UNCHANGED <<printer, owner>>
        BY <2>5, Zenon DEF LosePause
      <3>3. QED
        BY <1>2, <3>1, <3>2, SMT
    <2>6. QED
      BY <2>0, <2>1, <2>2, <2>3, <2>4, <2>5, Zenon DEF Printer
  <1>4. TypeOK'
    BY <1>1, <1>3, SMT DEF IInv, TypeOK, printerOnly, linkVars, tickVars
  <1>5. UNCHANGED <<pc, obs, w>>
    BY <1>1, SMT DEF printerOnly, tickVars
  <1>6. QED
    BY <1>4, <1>5, SameTick, Zenon

LEMMA LinkStep == IInv /\ Link => IInv'
  <1> SUFFICES ASSUME IInv, Link PROVE IInv'
    OBVIOUS
  <1>1. UNCHANGED linkOnly
    BY Zenon DEF Link, Push, LinkDown, LinkUp
  <1>2. view' \in {view, printer}
    BY SMT DEF Link, Push, LinkDown, LinkUp
  <1>3. link' \in BOOLEAN
    BY Zenon DEF Link, Push, LinkDown, LinkUp, IInv, TypeOK
  <1>4. TypeOK'
    BY <1>1, <1>2, <1>3, SMT DEF IInv, TypeOK, linkOnly, printerVars, tickVars
  <1>5. UNCHANGED <<pc, obs, w>>
    BY <1>1, SMT DEF linkOnly, tickVars
  <1>6. QED
    BY <1>4, <1>5, SameTick, Zenon

LEMMA PassStep == IInv /\ Pass => IInv'
  <1> SUFFICES ASSUME IInv, Pass PROVE IInv'
    OBVIOUS
  <1>1. w \in WatcherType /\ Anchored(w) /\ debounce \in 0..DEBOUNCE
    BY Zenon DEF IInv, TypeOK, OwnershipHasAnchor, Anchored
  <1>2. w' = Aged(w) /\ debounce' = CountDown(debounce)
    BY Zenon DEF Pass
  <1>3. debounce' \in 0..DEBOUNCE
    BY <1>1, <1>2, ConstantsAssumption, SMT DEF CountDown
  <1>4. UNCHANGED <<printerVars, linkVars, stopPending, tickVars, enabled, web, votes>>
    BY Zenon DEF Pass
  <1>5. w' \in WatcherType
    BY <1>1, <1>2, AgedType, Zenon
  <1>6. TypeOK'
    BY <1>3, <1>4, <1>5, SMT DEF IInv, TypeOK, printerVars, linkVars, tickVars
  <1>7. UNCHANGED <<pc, obs>>
    BY <1>4, SMT DEF tickVars
  <1>8. /\ Anchored(w') /\ w'.state = w.state /\ w'.bySentinel = w.bySentinel
        /\ w.pausedFor > AUTO_STOP => w'.pausedFor > AUTO_STOP
    BY <1>1, <1>2, AgedType, Zenon
  <1>9. QED
    BY <1>6, <1>7, <1>8, BetweenSteps, Zenon

-----------------------------------------------------------------------------
(***************************************************************************)
(* The theorems.                                                           *)
(***************************************************************************)

LEMMA TickStep == IInv /\ Tick => IInv'
  BY TickStartStep, RetryStopStep, FetchStep, UpdateStep, AutoStopStep, GrabStep,
     DetectHighStep, DetectLowStep, DetectErrorStep, PublishDebouncedStep, PublishStep,
     AckStep, RecordStep, Zenon DEF Tick

LEMMA OperatorStep == IInv /\ Operator => IInv'
  BY WebPauseStep, WebPauseSentStep, WebResumeStep, WebStopStep, ToggleStep, Zenon
     DEF Operator

LEMMA NextIInv == IInv /\ [Next]_vars => IInv'
  <1> SUFFICES ASSUME IInv, [Next]_vars PROVE IInv'
    OBVIOUS
  <1>1. CASE Next
    BY <1>1, TickStep, WatchdogStep, OperatorStep, PrinterStep, LinkStep, PassStep, Zenon
       DEF Next
  <1>2. CASE UNCHANGED vars
    <2>1. TypeOK'
      BY <1>2, SMT DEF IInv, TypeOK, vars
    <2>2. UNCHANGED <<pc, obs, w>>
      BY <1>2, SMT DEF vars
    <2>3. QED
      BY <2>1, <2>2, SameTick, Zenon
  <1>3. QED
    BY <1>1, <1>2

\* The invariant the other theorems are read from.
THEOREM Inductive == Spec => []IInv
  <1>1. Init => IInv
    BY InitIInv
  <1>2. IInv /\ [Next]_vars => IInv'
    BY NextIInv
  <1>3. QED
    BY <1>1, <1>2, PTL DEF Spec

\* Type correctness: every attribute of the watcher and every variable of its
\* surroundings keeps the values the code gives it.
THEOREM TypeCorrect == Spec => []TypeOK
  <1>1. IInv => TypeOK
    BY DEF IInv
  <1>2. QED
    BY <1>1, Inductive, PTL

\* The watcher publishes pauses only for a print it is watching, whatever the
\* settings, the operator, the watchdog and the faults.
THEOREM PausesWatchedPrintsOnly == Spec => []PausesOnlyWhenWatching
  <1>1. IInv => PausesOnlyWhenWatching
    BY DEF IInv
  <1>2. QED
    BY <1>1, Inductive, PTL

\* The auto-stop clock of a pause held to be Sentinel's is never lost.
THEOREM OwnershipIsAnchored == Spec => []OwnershipHasAnchor
  <1>1. IInv => OwnershipHasAnchor
    BY DEF IInv
  <1>2. QED
    BY <1>1, Inductive, PTL

\* An automatic stop is decided only on a "paused" report of a pause held to be
\* Sentinel's that is older than the timeout: it rests on the resume guard not
\* exceeding the timeout (AutoStopAssumption).
THEOREM StopNeedsPausedReport == Spec => []StopDecidedOnPausedReport
  <1>1. IInv => StopDecidedOnPausedReport
    BY DEF IInv
  <1>2. QED
    BY <1>1, Inductive, PTL

-----------------------------------------------------------------------------
(***************************************************************************)
(* What the helpers of WatcherLoop leave alone and what they set.           *)
(***************************************************************************)

\* The attributes outside the pause and its episode are the same in both records.
\* The job the watcher is on, and the name it was recorded with.
SameName(v, u) == u.curFile = v.curFile /\ u.tracked = v.tracked

SameJob(v, u) == u.mlErr = v.mlErr /\ u.source = v.source /\ SameName(v, u)

\* The attributes of a detection episode are the same in both records.
SameEpisode(v, u) ==
  /\ u.confirm = v.confirm
  /\ u.pauseAlerted = v.pauseAlerted
  /\ u.mlAlerted = v.mlAlerted

SameState(v, u) ==
  u.state = v.state /\ u.interrupted = v.interrupted /\ u.resumed = v.resumed

Fresh(u) == u.confirm = 0 /\ u.pauseAlerted = FALSE /\ u.mlAlerted = FALSE

LEMMA ResetEpisodeFields ==
  ASSUME NEW v \in WatcherType
  PROVE  LET u == ResetEpisode(v) IN
         /\ SameState(v, u) /\ SameJob(v, u) /\ SamePause(v, u)
         /\ u.marker = v.marker /\ u.cooldown = v.cooldown
         /\ Fresh(u)
  BY SMT DEF ResetEpisode, WatcherType, SameState, SameJob, SameName, SamePause, Fresh

LEMMA DropMarkerFields ==
  ASSUME NEW v \in WatcherType
  PROVE  LET u == DropMarker(v) IN
         /\ SameState(v, u) /\ SameJob(v, u) /\ SamePause(v, u) /\ SameEpisode(v, u)
         /\ u.marker = "none" /\ u.cooldown = v.cooldown
  BY SMT DEF DropMarker, WatcherType, SameState, SameJob, SameName, SamePause, SameEpisode

LEMMA ArmMarkerFields ==
  ASSUME NEW v \in WatcherType, NEW source \in Sources
  PROVE  LET u == ArmMarker(v, source) IN
         /\ SameState(v, u) /\ SameJob(v, u) /\ SamePause(v, u) /\ SameEpisode(v, u)
         /\ u.marker = source /\ u.cooldown = v.cooldown
  BY SMT DEF ArmMarker, WatcherType, SameState, SameJob, SameName, SamePause, SameEpisode

LEMMA ClearPauseFields ==
  ASSUME NEW v \in WatcherType
  PROVE  LET u == ClearPause(v) IN
         /\ SameState(v, u) /\ SameJob(v, u) /\ SameEpisode(v, u)
         /\ u.marker = v.marker /\ u.cooldown = v.cooldown
         /\ u.pausedFor = NoTime /\ u.bySentinel = FALSE
  BY SMT DEF ClearPause, WatcherType, SameState, SameJob, SameName, SameEpisode

LEMMA KeepStreakFields ==
  ASSUME NEW v \in WatcherType
  PROVE  LET u == KeepStreak(v) IN
         /\ SameState(v, u) /\ SameJob(v, u) /\ SamePause(v, u)
         /\ u.marker = v.marker /\ u.cooldown = v.cooldown
         /\ u.confirm = CONFIRM /\ u.pauseAlerted = TRUE /\ u.mlAlerted = v.mlAlerted
  BY SMT DEF KeepStreak, WatcherType, SameState, SameJob, SameName, SamePause

\* What the state setter does at the end of a pause.
LEMMA CoolDownFields ==
  ASSUME NEW v \in WatcherType
  PROVE  LET u == [DropMarker(ResetEpisode(v)) EXCEPT !.cooldown = COOLDOWN] IN
         /\ SameState(v, u) /\ SameJob(v, u) /\ SamePause(v, u)
         /\ u.marker = "none" /\ u.cooldown = COOLDOWN
         /\ Fresh(u)
  <1> DEFINE r == ResetEpisode(v)
             d == DropMarker(r)
  <1>1. r \in WatcherType /\ SameState(v, r) /\ SameJob(v, r) /\ SamePause(v, r) /\ Fresh(r)
    BY ResetEpisodeType, ResetEpisodeFields, Zenon
  <1> HIDE DEF r
  <1>2. /\ d \in WatcherType
        /\ SameState(v, d) /\ SameJob(v, d) /\ SamePause(v, d) /\ Fresh(d)
        /\ d.marker = "none"
    BY <1>1, DropMarkerType, DropMarkerFields, Zenon
       DEF SameState, SameJob, SameName, SamePause, SameEpisode, Fresh
  <1> HIDE DEF d
  <1>3. LET u == [d EXCEPT !.cooldown = COOLDOWN] IN
         /\ SameState(v, u) /\ SameJob(v, u) /\ SamePause(v, u)
         /\ u.marker = "none" /\ u.cooldown = COOLDOWN
         /\ Fresh(u)
    BY <1>2, SMT DEF WatcherType, SameState, SameJob, SameName, SamePause, Fresh
  <1>4. QED
    BY <1>3 DEF d, r

\* The pause the watcher is in, or that an outage has interrupted.
Held(v) == v.state = "PAUSED" \/ (v.state \in Interrupts /\ v.interrupted)

LEMMA SetStateFields ==
  ASSUME NEW v \in WatcherType, NEW state \in States
  PROVE  LET u == SetState(v, state) IN
         /\ u.state = state
         /\ u.interrupted <=> state \in Interrupts /\ (v.interrupted \/ v.state = "PAUSED")
         /\ u.resumed <=> v.resumed /\ state # "PAUSED"
         /\ SameJob(v, u) /\ SamePause(v, u)
         /\ LeavesPause(v, state) => Fresh(u) /\ u.marker = "none" /\ u.cooldown = COOLDOWN
         /\ ~LeavesPause(v, state) =>
              SameEpisode(v, u) /\ u.marker = v.marker /\ u.cooldown = v.cooldown
  <1> DEFINE i == /\ state \in Interrupts
                  /\ v.interrupted \/ v.state = "PAUSED"
             c == [DropMarker(ResetEpisode(v)) EXCEPT !.cooldown = COOLDOWN]
             l == IF LeavesPause(v, state) THEN c ELSE v
             u == [l EXCEPT !.state = state, !.interrupted = i,
                            !.resumed = @ /\ state # "PAUSED"]
  <1>1. SetState(v, state) = u
    BY Zenon DEF SetState
  <1>2. /\ c \in WatcherType
        /\ SameJob(v, c) /\ SamePause(v, c) /\ c.resumed = v.resumed
        /\ c.marker = "none" /\ c.cooldown = COOLDOWN /\ Fresh(c)
    BY CoolDownType, CoolDownFields, Zenon DEF SameState
  <1> HIDE DEF c
  <1>3. l \in WatcherType /\ SameJob(v, l) /\ SamePause(v, l) /\ l.resumed = v.resumed
    BY <1>2, Zenon DEF SameJob, SameName, SamePause
  <1>4. /\ LeavesPause(v, state) => Fresh(l) /\ l.marker = "none" /\ l.cooldown = COOLDOWN
        /\ ~LeavesPause(v, state) =>
             SameEpisode(v, l) /\ l.marker = v.marker /\ l.cooldown = v.cooldown
    BY <1>2, Zenon DEF SameEpisode
  <1>5. i <=> state \in Interrupts /\ (v.interrupted \/ v.state = "PAUSED")
    OBVIOUS
  <1> HIDE DEF l, i
  <1>6. /\ u.state = state /\ u.interrupted = i
        /\ u.resumed = (l.resumed /\ state # "PAUSED")
        /\ u.mlErr = l.mlErr /\ u.source = l.source
        /\ u.curFile = l.curFile /\ u.tracked = l.tracked
        /\ u.bySentinel = l.bySentinel /\ u.pausedFor = l.pausedFor
        /\ u.confirm = l.confirm /\ u.pauseAlerted = l.pauseAlerted
        /\ u.mlAlerted = l.mlAlerted
        /\ u.marker = l.marker /\ u.cooldown = l.cooldown
    BY <1>3, SMT DEF WatcherType
  <1> HIDE DEF u
  <1>7. QED
    BY <1>1, <1>3, <1>4, <1>5, <1>6, Zenon DEF SameJob, SameName, SamePause, SameEpisode, Fresh

LEMMA MarkPausedBySentinelFields ==
  ASSUME NEW v \in WatcherType, NEW source \in Sources
  PROVE  LET u == MarkPausedBySentinel(v, source) IN
         /\ u.state = "PAUSED"
         /\ SameEpisode(v, u)
         /\ u.mlErr = v.mlErr /\ SameName(v, u)
         /\ u.marker = "none" /\ u.cooldown = v.cooldown
         /\ u.pausedFor = 0 /\ u.bySentinel = TRUE /\ u.source = source
  <1> DEFINE s == SetState(v, "PAUSED")
             d == DropMarker(s)
             m == [d EXCEPT !.pausedFor = 0, !.bySentinel = TRUE, !.source = source]
  <1>1. ~LeavesPause(v, "PAUSED")
    BY SMT DEF LeavesPause
  <1>2. s \in WatcherType /\ s.state = "PAUSED" /\ SameJob(v, s) /\ SameEpisode(v, s)
        /\ s.cooldown = v.cooldown
    <2>1. "PAUSED" \in States
      BY StateNames, Zenon
    <2>2. s \in WatcherType /\ s.state = "PAUSED"
      BY <2>1, SetStateType, Zenon
    <2>3. SameJob(v, s) /\ SameEpisode(v, s) /\ s.cooldown = v.cooldown
      BY <1>1, <2>1, SetStateFields, Zenon
    <2>4. QED
      BY <2>2, <2>3
  <1> HIDE DEF s
  <1>3. /\ d \in WatcherType /\ d.state = "PAUSED" /\ SameJob(v, d) /\ SameEpisode(v, d)
        /\ d.marker = "none" /\ d.cooldown = v.cooldown
    BY <1>2, DropMarkerType, DropMarkerFields, Zenon
       DEF SameState, SameJob, SameName, SameEpisode
  <1> HIDE DEF d
  <1>4. MarkPausedBySentinel(v, source) = m
    BY Zenon DEF MarkPausedBySentinel, d, s
  <1>5. /\ m.state = "PAUSED"
        /\ SameEpisode(v, m)
        /\ m.mlErr = v.mlErr /\ SameName(v, m)
        /\ m.marker = "none" /\ m.cooldown = v.cooldown
        /\ m.pausedFor = 0 /\ m.bySentinel = TRUE /\ m.source = source
    BY <1>3, SMT DEF WatcherType, SameJob, SameName, SameEpisode
  <1>6. QED
    BY <1>4, <1>5, Zenon

-----------------------------------------------------------------------------
(***************************************************************************)
(* What a helper that does not judge a frame may do to an episode: it may   *)
(* end it, but it neither mutes an alert nor makes up a hit nor turns the   *)
(* ML path's pause into a detection's.                                      *)
(***************************************************************************)

\* No pause, and no late pause that may be adopted, is a detection's.
ForOutage(v) == (v.bySentinel => v.source = "ml_failure") /\ v.marker # "auto"

Calmer(v, u) ==
  /\ u.pauseAlerted => v.pauseAlerted /\ u.confirm = v.confirm /\ (Held(v) => Held(u))
  /\ u.mlAlerted => v.mlAlerted /\ u.mlErr = v.mlErr

Benign(v, u) ==
  /\ Calmer(v, u)
  /\ ForOutage(v) => ForOutage(u)
  /\ u.confirm \in {v.confirm, 0}

LEMMA BenignSame == \A v : Benign(v, v)
  BY Zenon DEF Benign, Calmer

LEMMA BenignThen ==
  ASSUME NEW v, NEW u, NEW x, Benign(v, u), Benign(u, x)
  PROVE  Benign(v, x)
  <1>1. Calmer(v, x)
    BY Zenon DEF Benign, Calmer
  <1>2. ForOutage(v) => ForOutage(x)
    BY Zenon DEF Benign
  <1>3. x.confirm \in {v.confirm, 0}
    BY SMT DEF Benign
  <1>4. QED
    BY <1>1, <1>2, <1>3 DEF Benign

\* Records that differ in nothing an episode depends on.
LEMMA BenignFields ==
  ASSUME NEW v, NEW u, SameState(v, u), u.mlErr = v.mlErr, SameEpisode(v, u) \/ Fresh(u),
         u.bySentinel => v.bySentinel /\ u.source = v.source,
         u.marker \in {v.marker, "none"}
  PROVE  Benign(v, u)
  <1>1. Held(v) <=> Held(u)
    BY Zenon DEF SameState, Held
  <1>2. Calmer(v, u)
    BY <1>1, Zenon DEF Calmer, SameEpisode, Fresh
  <1>3. ForOutage(v) => ForOutage(u)
    BY SMT DEF ForOutage
  <1>4. u.confirm \in {v.confirm, 0}
    BY SMT DEF SameEpisode, Fresh
  <1>5. QED
    BY <1>2, <1>3, <1>4 DEF Benign

LEMMA HelpersBenign ==
  ASSUME NEW v \in WatcherType
  PROVE  /\ Benign(v, ResetEpisode(v))
         /\ Benign(v, DropMarker(v))
         /\ Benign(v, ClearPause(v))
  <1>1. Benign(v, ResetEpisode(v))
    <2> DEFINE u == ResetEpisode(v)
    <2>1. /\ SameState(v, u) /\ SameJob(v, u) /\ SamePause(v, u)
          /\ u.marker = v.marker /\ Fresh(u)
      BY ResetEpisodeFields, Zenon
    <2> HIDE DEF u
    <2>2. Benign(v, u)
      BY <2>1, BenignFields, SMT DEF SameJob, SameName, SamePause
    <2>3. QED
      BY <2>2 DEF u
  <1>2. Benign(v, DropMarker(v))
    <2> DEFINE u == DropMarker(v)
    <2>1. /\ SameState(v, u) /\ SameJob(v, u) /\ SamePause(v, u)
          /\ u.marker = "none" /\ SameEpisode(v, u)
      BY DropMarkerFields, Zenon
    <2> HIDE DEF u
    <2>2. Benign(v, u)
      BY <2>1, BenignFields, SMT DEF SameJob, SameName, SamePause
    <2>3. QED
      BY <2>2 DEF u
  <1>3. Benign(v, ClearPause(v))
    <2> DEFINE u == ClearPause(v)
    <2>1. /\ SameState(v, u) /\ SameJob(v, u)
          /\ u.marker = v.marker /\ SameEpisode(v, u) /\ u.bySentinel = FALSE
      BY ClearPauseFields, Zenon
    <2> HIDE DEF u
    <2>2. Benign(v, u)
      BY <2>1, BenignFields, SMT DEF SameJob, SameName
    <2>3. QED
      BY <2>2 DEF u
  <1>4. QED
    BY <1>1, <1>2, <1>3

LEMMA SetStateBenign ==
  ASSUME NEW v \in WatcherType,
         NEW state \in {"ARMED", "WARMUP", "PAUSED", "OFFLINE", "STALLED"}
  PROVE  Benign(v, SetState(v, state))
  <1> DEFINE u == SetState(v, state)
  <1>1. state \in States
    BY DEF States
  <1>2. /\ u.state = state
        /\ u.interrupted <=> state \in Interrupts /\ (v.interrupted \/ v.state = "PAUSED")
        /\ SameJob(v, u) /\ SamePause(v, u)
        /\ LeavesPause(v, state) => Fresh(u) /\ u.marker = "none" /\ u.cooldown = COOLDOWN
        /\ ~LeavesPause(v, state) =>
             SameEpisode(v, u) /\ u.marker = v.marker /\ u.cooldown = v.cooldown
    BY <1>1, SetStateFields
  <1> HIDE DEF u
  <1>3. ~LeavesPause(v, state) => (Held(v) => Held(u))
    BY <1>2, SMT DEF LeavesPause, Held, Interrupts
  <1>4. Calmer(v, u)
    BY <1>2, <1>3, Zenon DEF Calmer, SameEpisode, SameJob, SameName, Fresh
  <1>5. ForOutage(v) => ForOutage(u)
    BY <1>2, SMT DEF ForOutage, SameJob, SameName, SamePause
  <1>6. u.confirm \in {v.confirm, 0}
    BY <1>2, SMT DEF SameEpisode, Fresh
  <1>7. Benign(v, u)
    BY <1>4, <1>5, <1>6 DEF Benign
  <1>8. QED
    BY <1>7 DEF u

-----------------------------------------------------------------------------
(***************************************************************************)
(* What one status does to the pause and to the job.                       *)
(***************************************************************************)

\* No pause is timed, or the operator resumed the print from the dashboard since.
Untimed(v) == v.pausedFor = NoTime \/ v.resumed

\* A pause that is timed is one the watcher is in or that an outage interrupted.
PauseKept(v) == Untimed(v) \/ Held(v)

\* Detection starts anew, as after an operator's resume.
Restarted(u) == u.cooldown = COOLDOWN /\ u.confirm = 0 /\ u.marker = "none"

\* What _update_state makes of the watcher once the job is known.
Observed(v, u) ==
  /\ Benign(v, u)
  /\ SameName(v, u)
  /\ v.state \in Interrupts /\ v.interrupted /\ u.state \in {"ARMED", "WARMUP"} => Restarted(u)
  /\ PauseKept(v) => PauseKept(u) \/ u.state \in {"ARMED", "WARMUP"}

\* The watcher is on a job; if that job has a name, the status gives the same one.
OnJob(v, status) == v.tracked /\ (v.curFile # NoFile => status.file = v.curFile)

\* No hit survives a change of jobs, and none comes from before the first.
SameHits(v, u) ==
  \/ u.confirm = 0
  \/ u.confirm = v.confirm /\ (v.tracked => u.curFile = v.curFile /\ u.tracked)

LEMMA TrackJobFields ==
  ASSUME NEW v \in WatcherType, NEW status \in Status
  PROVE  LET j == TrackJob(v, status) IN
         /\ SameState(v, j) /\ SamePause(v, j)
         /\ Benign(v, j)
         /\ OnJob(j, status)
         /\ SameHits(v, j)
  <1> DEFINE r == ResetEpisode(v)
             d == DropMarker(r)
             a == [d EXCEPT !.mlErr = 0, !.curFile = status.file]
             b == [v EXCEPT !.curFile = status.file, !.tracked = TRUE]
             j == TrackJob(v, status)
  <1>1. /\ r \in WatcherType /\ SameState(v, r) /\ SameJob(v, r) /\ SamePause(v, r) /\ Fresh(r)
    BY ResetEpisodeType, ResetEpisodeFields, Zenon
  <1> HIDE DEF r
  <1>2. /\ d \in WatcherType /\ SameState(v, d) /\ SameJob(v, d) /\ SamePause(v, d) /\ Fresh(d)
        /\ d.marker = "none"
    BY <1>1, DropMarkerType, DropMarkerFields, Zenon
       DEF SameState, SameJob, SameName, SamePause, SameEpisode, Fresh
  <1>3. \/ j = a /\ v.tracked
        \/ j = v /\ v.tracked /\ (v.curFile # NoFile => v.curFile = status.file)
        \/ j = b /\ ~v.tracked
    BY Zenon DEF TrackJob, OtherJob, d, r
  <1> HIDE DEF d, j
  <1>4. /\ SameState(v, a) /\ SamePause(v, a) /\ Fresh(a)
        /\ a.marker = "none" /\ a.source = v.source
        /\ a.curFile = status.file /\ a.tracked = v.tracked
    BY <1>2, SMT DEF WatcherType, SameState, SameJob, SameName, SamePause, Fresh
  <1>5. /\ SameState(v, b) /\ SamePause(v, b) /\ SameEpisode(v, b)
        /\ b.marker = v.marker /\ b.source = v.source /\ b.mlErr = v.mlErr
        /\ b.curFile = status.file /\ b.tracked = TRUE
    BY SMT DEF WatcherType, SameState, SamePause, SameEpisode
  <1> HIDE DEF a, b
  <1>6. CASE j = a /\ v.tracked
    <2>1. Calmer(v, a)
      BY <1>4, Zenon DEF Calmer, Fresh
    <2>2. ForOutage(v) => ForOutage(a)
      BY <1>4, SMT DEF ForOutage, SamePause
    <2>3. a.confirm = 0
      BY <1>4 DEF Fresh
    <2>4. Benign(v, a)
      BY <2>1, <2>2, <2>3, SMT DEF Benign
    <2>5. OnJob(a, status) /\ SameHits(v, a)
      BY <1>4, <1>6, <2>3, Zenon DEF OnJob, SameHits
    <2>6. QED
      BY <1>4, <1>6, <2>4, <2>5, Zenon DEF j
  <1>7. CASE j = v /\ v.tracked /\ (v.curFile # NoFile => v.curFile = status.file)
    <2>1. OnJob(v, status) /\ SameHits(v, v)
      BY <1>7, Zenon DEF OnJob, SameHits
    <2>2. SameState(v, v) /\ SamePause(v, v)
      BY DEF SameState, SamePause
    <2>3. QED
      BY <1>7, <2>1, <2>2, BenignSame, Zenon DEF j
  <1>8. CASE j = b /\ ~v.tracked
    <2>1. Benign(v, b)
      BY <1>5, BenignFields, SMT DEF SamePause
    <2>2. OnJob(b, status) /\ SameHits(v, b)
      BY <1>5, <1>8, Zenon DEF OnJob, SameHits, SameEpisode
    <2>3. QED
      BY <1>5, <1>8, <2>1, <2>2, Zenon DEF j
  <1>9. QED
    BY <1>3, <1>6, <1>7, <1>8

LEMMA SetStateObserved ==
  ASSUME NEW v \in WatcherType,
         NEW state \in {"ARMED", "WARMUP", "PAUSED", "OFFLINE"}
  PROVE  Observed(v, SetState(v, state))
  <1> DEFINE u == SetState(v, state)
  <1>1. state \in States
    BY DEF States
  <1>2. /\ u.state = state
        /\ u.interrupted <=> state \in Interrupts /\ (v.interrupted \/ v.state = "PAUSED")
        /\ u.resumed <=> v.resumed /\ state # "PAUSED"
        /\ SameJob(v, u) /\ SamePause(v, u)
        /\ LeavesPause(v, state) => Fresh(u) /\ u.marker = "none" /\ u.cooldown = COOLDOWN
    BY <1>1, SetStateFields
  <1>3. Benign(v, u)
    BY SetStateBenign, SMT
  <1> HIDE DEF u
  <1>4. SameName(v, u)
    BY <1>2, Zenon DEF SameJob
  <1>5. v.state \in Interrupts /\ v.interrupted /\ u.state \in {"ARMED", "WARMUP"} => Restarted(u)
    BY <1>2, Zenon DEF LeavesPause, Restarted, Fresh
  <1>6. state \notin {"ARMED", "WARMUP"} => (Held(v) => Held(u))
    BY <1>2, SMT DEF Held, Interrupts
  <1>7. state = "PAUSED" => Held(u)
    BY <1>2, Zenon DEF Held
  <1>9. PauseKept(v) => PauseKept(u) \/ u.state \in {"ARMED", "WARMUP"}
    BY <1>2, <1>6, <1>7, Zenon DEF PauseKept, Untimed, SamePause
  <1>8. QED
    BY <1>3, <1>4, <1>5, <1>9, Zenon DEF Observed, u

LEMMA ObservedReset ==
  ASSUME NEW v \in WatcherType, NEW u \in WatcherType, Observed(v, u)
  PROVE  Observed(v, ResetEpisode(u))
  <1> DEFINE r == ResetEpisode(u)
  <1>1. /\ SameState(u, r) /\ SameJob(u, r) /\ SamePause(u, r)
        /\ r.marker = u.marker /\ r.cooldown = u.cooldown
        /\ Fresh(r) /\ Benign(u, r)
    BY ResetEpisodeFields, HelpersBenign, Zenon
  <1> HIDE DEF r
  <1>2. Benign(v, r)
    BY <1>1, BenignThen, Zenon DEF Observed
  <1>3. SameName(v, r) /\ r.state = u.state
    BY <1>1, Zenon DEF SameJob, SameName, SameState, Observed
  <1>4. Restarted(u) => Restarted(r)
    BY <1>1, Zenon DEF Restarted, Fresh
  <1>5. PauseKept(u) => PauseKept(r)
    BY <1>1, Zenon DEF PauseKept, Untimed, SamePause, SameState, Held
  <1>6. Observed(v, r)
    BY <1>2, <1>3, <1>4, <1>5, Zenon DEF Observed
  <1>7. QED
    BY <1>6 DEF r

LEMMA ObservedSame == \A v : Observed(v, v)
  <1> TAKE v
  <1>1. v.state \in Interrupts => v.state \notin {"ARMED", "WARMUP"}
    BY SMT DEF Interrupts
  <1>2. QED
    BY <1>1, BenignSame, Zenon DEF Observed, SameName

LEMMA ObservePausedObserved ==
  ASSUME NEW v \in WatcherType
  PROVE  Observed(v, ObservePaused(v))
  <1>1. CASE v.state = "PAUSED" \/ v.cooldown > 0
    BY <1>1, ObservedSame, Zenon DEF ObservePaused
  <1>2. CASE ~(v.state = "PAUSED" \/ v.cooldown > 0) /\ v.marker # "none"
    <2> DEFINE m == MarkPausedBySentinel(v, v.marker)
               u == ResetEpisode(m)
    <2>1. v.marker \in Sources
      BY <1>2, FieldTypes, Zenon
    <2>2. /\ m \in WatcherType /\ m.state = "PAUSED"
          /\ SameName(v, m) /\ m.marker = "none" /\ m.source = v.marker
      <3> HIDE DEF u
      <3>1. m \in WatcherType
        BY <2>1, MarkPausedBySentinelType, Zenon
      <3>2. QED
        BY <2>1, <3>1, MarkPausedBySentinelFields, Zenon
    <2>3. ObservePaused(v) = u
      BY <1>2, Zenon DEF ObservePaused
    <2> HIDE DEF m
    <2>4. /\ SameState(m, u) /\ SameJob(m, u) /\ SamePause(m, u)
          /\ u.marker = m.marker /\ Fresh(u)
      BY <2>2, ResetEpisodeFields, Zenon
    <2> HIDE DEF u
    <2>5. u.state = "PAUSED" /\ SameName(v, u) /\ u.marker = "none" /\ u.source = v.marker
      BY <2>2, <2>4, Zenon DEF SameState, SameJob, SameName
    <2>6. Calmer(v, u)
      BY <2>4, Zenon DEF Calmer, Fresh
    <2>7. ForOutage(v) => ForOutage(u)
      BY <2>1, <2>5, SMT DEF ForOutage, Sources
    <2>8. u.confirm \in {v.confirm, 0}
      BY <2>4, SMT DEF Fresh
    <2>9. PauseKept(u)
      BY <2>5 DEF PauseKept, Untimed, Held
    <2>10. u.state \notin {"ARMED", "WARMUP"}
      BY <2>5, SMT
    <2>11. QED
      BY <2>3, <2>5, <2>6, <2>7, <2>8, <2>9, <2>10, Zenon DEF Observed, Benign
  <1>3. CASE ~(v.state = "PAUSED" \/ v.cooldown > 0) /\ ~(v.marker # "none")
    <2> DEFINE d == DropMarker(v)
               s == SetState(d, "PAUSED")
    <2>1. /\ d \in WatcherType /\ Benign(v, d) /\ SameState(v, d)
          /\ SameJob(v, d) /\ SamePause(v, d)
      BY DropMarkerType, DropMarkerFields, HelpersBenign, Zenon
    <2> HIDE DEF d
    <2>2. "PAUSED" \in {"ARMED", "WARMUP", "PAUSED", "OFFLINE"}
      BY SMT
    <2>3. s \in WatcherType /\ s.state = "PAUSED"
      BY <2>1, StateNames, SetStateType, SMT
    <2>4. Observed(d, s)
      BY <2>1, <2>2, SetStateObserved, Zenon
    <2> HIDE DEF s
    <2>5. Observed(v, s)
      <3>1. Benign(v, s)
        BY <2>1, <2>4, BenignThen, Zenon DEF Observed
      <3>2. SameName(v, s)
        BY <2>1, <2>4, Zenon DEF Observed, SameJob, SameName
      <3>3. PauseKept(s) /\ s.state \notin {"ARMED", "WARMUP"}
        BY <2>3, SMT DEF PauseKept, Untimed, Held
      <3>4. QED
        BY <3>1, <3>2, <3>3, Zenon DEF Observed
    <2>6. Observed(v, ResetEpisode(s))
      BY <2>3, <2>5, ObservedReset, Zenon
    <2>7. ObservePaused(v) = ResetEpisode(s)
      BY <1>3, Zenon DEF ObservePaused, s, d
    <2>8. QED
      BY <2>6, <2>7, Zenon
  <1>4. QED
    BY <1>1, <1>2, <1>3, Zenon

LEMMA ObserveWarmupObserved ==
  ASSUME NEW v \in WatcherType
  PROVE  Observed(v, ObserveWarmup(v))
  <1>1. SetState(v, "WARMUP") \in WatcherType
    BY StateNames, SetStateType, SMT
  <1>2. Observed(v, SetState(v, "WARMUP"))
    BY SetStateObserved, SMT
  <1>3. QED
    BY <1>1, <1>2, ObservedReset, Zenon DEF ObserveWarmup

LEMMA ObservePrintingObserved ==
  ASSUME NEW v \in WatcherType
  PROVE  Observed(v, ObservePrinting(v))
  <1>1. Observed(v, SetState(v, "ARMED"))
    BY SetStateObserved, SMT
  <1>2. ObservePrinting(v) \in {v, SetState(v, "ARMED")}
    BY Zenon DEF ObservePrinting
  <1>3. QED
    BY <1>1, <1>2, ObservedSame, Zenon

LEMMA UpdateIdleFields ==
  ASSUME NEW v \in WatcherType
  PROVE  LET u == UpdateIdle(v) IN
         /\ u.state = "IDLE" /\ Fresh(u)
         /\ u.pausedFor = NoTime /\ u.bySentinel = FALSE /\ u.marker = "none"
  <1> DEFINE s == SetState(v, "IDLE")
             r == ResetEpisode(s)
             d == DropMarker(r)
             c == ClearPause(d)
             u == [c EXCEPT !.mlErr = 0, !.curFile = NoFile, !.tracked = FALSE]
  <1>1. s \in WatcherType /\ s.state = "IDLE"
    BY StateNames, SetStateType, SMT
  <1> HIDE DEF s
  <1>2. r \in WatcherType /\ r.state = "IDLE" /\ Fresh(r)
    BY <1>1, ResetEpisodeType, ResetEpisodeFields, Zenon
  <1> HIDE DEF r
  <1>3. d \in WatcherType /\ d.state = "IDLE" /\ Fresh(d) /\ d.marker = "none"
    BY <1>2, DropMarkerType, DropMarkerFields, Zenon DEF SameEpisode, Fresh
  <1> HIDE DEF d
  <1>4. /\ c \in WatcherType /\ c.state = "IDLE" /\ Fresh(c) /\ c.marker = "none"
        /\ c.pausedFor = NoTime /\ c.bySentinel = FALSE
    BY <1>3, ClearPauseType, ClearPauseFields, Zenon DEF SameEpisode, Fresh
  <1>5. UpdateIdle(v) = u
    BY Zenon DEF UpdateIdle, c, d, r, s
  <1> HIDE DEF c
  <1>6. /\ u.state = "IDLE" /\ Fresh(u)
        /\ u.pausedFor = NoTime /\ u.bySentinel = FALSE /\ u.marker = "none"
    BY <1>4, SMT DEF WatcherType, Fresh
  <1>7. QED
    BY <1>5, <1>6, Zenon

\* One status: it can end an episode and a pause, and a watcher that is free to look
\* at a frame owes it to a status that says "printing" past the warmup.
LEMMA UpdateStateEffect ==
  ASSUME NEW v \in WatcherType, Anchored(v), NEW status \in Status \cup {NoStatus}
  PROVE  LET u == UpdateState(v, status) IN
         /\ Benign(v, u)
         /\ SameHits(v, u)
         /\ EndsStreak(status) => u.confirm = 0
         /\ v.state \in Interrupts /\ v.interrupted /\ u.state \in {"ARMED", "WARMUP"}
              => Restarted(u)
         /\ PauseKept(v) => PauseKept(u) \/ u.state \in {"ARMED", "WARMUP", "IDLE"}
         /\ Watching(u) \/ u.state = "PAUSED" => OnJob(u, status)
         /\ Watching(u) /\ u.cooldown = 0 => status.print = "printing" /\ status.warm
  <1> DEFINE u == UpdateState(v, status)
  <1>1. CASE status = NoStatus
    <2>1. u = UpdateStale(v)
      BY <1>1, Zenon DEF UpdateState
    <2>2. UpdateStale(v) \in {v, SetState(v, "OFFLINE")}
      BY Zenon DEF UpdateStale
    <2>3. Observed(v, u)
      BY <2>1, <2>2, SetStateObserved, ObservedSame, SMT
    <2>4. ~Watching(u) /\ u.state # "PAUSED"
      BY <2>1, UpdateStaleType, SMT DEF Watching
    <2> HIDE DEF u
    <2>5. SameHits(v, u)
      BY <2>3, SMT DEF Observed, Benign, SameHits, SameName
    <2>6. ~EndsStreak(status)
      BY <1>1 DEF EndsStreak
    <2>7. QED
      BY <2>3, <2>4, <2>5, <2>6, SMT DEF Observed, u
  <1>2. CASE status # NoStatus /\ status.print = "idle"
    <2>1. u = UpdateIdle(v)
      BY <1>2, Zenon DEF UpdateState
    <2>2. /\ u.state = "IDLE" /\ Fresh(u)
          /\ u.pausedFor = NoTime /\ u.bySentinel = FALSE /\ u.marker = "none"
      BY <2>1, UpdateIdleFields, Zenon
    <2> HIDE DEF u
    <2>3. Calmer(v, u)
      BY <2>2, Zenon DEF Calmer, Fresh
    <2>4. ForOutage(u)
      BY <2>2, SMT DEF ForOutage
    <2>5. u.confirm = 0
      BY <2>2 DEF Fresh
    <2>6. ~Watching(u) /\ u.state \notin {"ARMED", "WARMUP", "PAUSED"}
      BY <2>2, SMT DEF Watching
    <2>7. QED
      BY <2>2, <2>3, <2>4, <2>5, <2>6, SMT DEF Benign, SameHits, u
  <1>3. CASE status # NoStatus /\ status.print # "idle"
    <2> DEFINE j == TrackJob(v, status)
    <2>1. status \in Status
      BY <1>3, Zenon
    <2>2. j \in WatcherType /\ Anchored(j) /\ SameState(v, j) /\ SamePause(v, j)
      BY <2>1, TrackJobType, TrackJobFields, Zenon DEF SamePause, Anchored
    <2>3. Benign(v, j) /\ OnJob(j, status) /\ SameHits(v, j)
      BY <2>1, TrackJobFields, Zenon
    <2>4. u = IF status.print = "paused" THEN ObservePaused(j)
              ELSE IF ~status.warm THEN ObserveWarmup(j)
              ELSE ObservePrinting(j)
      BY <1>3, Zenon DEF UpdateState
    <2> HIDE DEF j, u
    <2>5. Observed(j, u)
      BY <2>2, <2>4, ObservePausedObserved, ObserveWarmupObserved, ObservePrintingObserved, Zenon
    <2>6. Benign(v, u)
      BY <2>3, <2>5, BenignThen, Zenon DEF Observed
    <2>7. SameHits(v, u)
      BY <2>3, <2>5, SMT DEF Observed, Benign, SameHits, SameName
    <2>8. v.state \in Interrupts /\ v.interrupted /\ u.state \in {"ARMED", "WARMUP"}
            => Restarted(u)
      BY <2>2, <2>5, Zenon DEF Observed, SameState
    <2>9. PauseKept(v) => PauseKept(u) \/ u.state \in {"ARMED", "WARMUP"}
      <3>1. PauseKept(v) => PauseKept(j)
        BY <2>2, Zenon DEF PauseKept, Untimed, SameState, SamePause, Held
      <3>2. QED
        BY <2>5, <3>1, Zenon DEF Observed
    <2>10. OnJob(u, status)
      BY <2>3, <2>5, Zenon DEF Observed, OnJob, SameName
    <2>11. Watching(u) /\ u.cooldown = 0 => status.print = "printing" /\ status.warm
      <3>1. CASE status.print = "paused"
        <4>1. u.state # "PAUSED" => u.cooldown > 0
          BY <2>2, <2>4, <3>1, ObservePausedType, Zenon
        <4>2. QED
          BY <4>1, SMT DEF Watching
      <3>2. CASE status.print # "paused" /\ ~status.warm
        <4>1. u.state = "WARMUP"
          BY <2>2, <2>4, <3>2, ObserveWarmupType, Zenon
        <4>2. QED
          BY <4>1, SMT DEF Watching
      <3>3. CASE status.print # "paused" /\ status.warm
        BY <1>3, <2>1, <3>3, SMT DEF Status
      <3>4. QED
        BY <3>1, <3>2, <3>3
    <2>12. EndsStreak(status) => u.confirm = 0
      <3> SUFFICES ASSUME EndsStreak(status) PROVE u.confirm = 0
        OBVIOUS
      <3>1. u = ResetEpisode(SetState(j, "WARMUP"))
        BY <1>3, <2>4, SMT DEF EndsStreak, ObserveWarmup
      <3>2. SetState(j, "WARMUP") \in WatcherType
        BY <2>2, StateNames, SetStateType, SMT
      <3>3. QED
        BY <3>1, <3>2, ResetEpisodeFields, Zenon DEF Fresh
    <2>13. QED
      BY <2>6, <2>7, <2>8, <2>9, <2>10, <2>11, <2>12, SMT DEF u
  <1>4. QED
    BY <1>1, <1>2, <1>3, Zenon

\* What the rest of a tick without a frame leaves of what _update_state found.
Kept(v, u) ==
  /\ Benign(v, u) /\ SameState(v, u)
  /\ SameName(v, u) /\ u.marker = v.marker /\ u.cooldown = v.cooldown

LEMMA PauseTimerKept ==
  ASSUME NEW v \in WatcherType
  PROVE  /\ Kept(v, PauseTimer(v))
         /\ PauseKept(v) \/ v.state \in {"ARMED", "WARMUP", "IDLE"} => PauseKept(PauseTimer(v))
  <1> DEFINE a == [v EXCEPT !.pausedFor = 0]
             c == ClearPause(v)
  <1>1. /\ SameState(v, a) /\ SameJob(v, a) /\ SameEpisode(v, a)
        /\ a.marker = v.marker /\ a.cooldown = v.cooldown /\ a.bySentinel = v.bySentinel
    BY SMT DEF WatcherType, SameState, SameJob, SameName, SameEpisode
  <1>2. Benign(v, a)
    <2> HIDE DEF a
    <2>1. QED
      BY <1>1, BenignFields, SMT DEF SameJob, SameName
  <1>3. /\ SameState(v, c) /\ SameJob(v, c) /\ c.marker = v.marker /\ c.cooldown = v.cooldown
        /\ c.pausedFor = NoTime /\ Benign(v, c)
    BY ClearPauseFields, HelpersBenign, Zenon
  <1>4. \/ PauseTimer(v) = a /\ v.state = "PAUSED"
        \/ PauseTimer(v) = v /\ v.state \in {"PAUSED", "OFFLINE", "CAMERA_OFFLINE", "STALLED"}
        \/ PauseTimer(v) = c
    BY SMT DEF PauseTimer
  <1> HIDE DEF a, c
  <1>5. CASE PauseTimer(v) = a /\ v.state = "PAUSED"
    BY <1>1, <1>2, <1>5, Zenon DEF Kept, SameJob, SameName, PauseKept, Untimed, Held, SameState
  <1>6. CASE PauseTimer(v) = v /\ v.state \in {"PAUSED", "OFFLINE", "CAMERA_OFFLINE", "STALLED"}
    <2>1. v.state \notin {"ARMED", "WARMUP", "IDLE"}
      BY <1>6, SMT
    <2>2. QED
      BY <1>6, <2>1, BenignSame, Zenon DEF Kept, SameName, SameState
  <1>7. CASE PauseTimer(v) = c
    BY <1>3, <1>7, Zenon DEF Kept, SameJob, SameName, PauseKept, Untimed
  <1>8. QED
    BY <1>4, <1>5, <1>6, <1>7

LEMMA GateKept ==
  ASSUME NEW v \in WatcherType
  PROVE  Kept(v, Gate(v)) /\ (PauseKept(v) => PauseKept(Gate(v)))
  <1> DEFINE r == ResetEpisode(v)
             g == [r EXCEPT !.mlErr = 0]
  <1>1. /\ r \in WatcherType /\ SameState(v, r) /\ SameJob(v, r) /\ SamePause(v, r)
        /\ r.marker = v.marker /\ r.cooldown = v.cooldown /\ Fresh(r)
    BY ResetEpisodeType, ResetEpisodeFields, Zenon
  <1>2. Gate(v) \in {g, v}
    BY Zenon DEF Gate
  <1> HIDE DEF r
  <1>3. /\ SameState(v, g) /\ SamePause(v, g) /\ Fresh(g) /\ g.source = v.source
        /\ g.marker = v.marker /\ g.cooldown = v.cooldown /\ SameName(v, g)
    BY <1>1, SMT DEF WatcherType, SameState, SameJob, SameName, SamePause, Fresh
  <1> HIDE DEF g
  <1>4. Benign(v, g)
    <2>1. Calmer(v, g)
      BY <1>3, Zenon DEF Calmer, Fresh
    <2>2. ForOutage(v) => ForOutage(g)
      BY <1>3, Zenon DEF ForOutage, SamePause
    <2>3. g.confirm \in {v.confirm, 0}
      BY <1>3, SMT DEF Fresh
    <2>4. QED
      BY <2>1, <2>2, <2>3 DEF Benign
  <1>5. PauseKept(v) => PauseKept(g)
    BY <1>3, Zenon DEF PauseKept, Untimed, SameState, SamePause, Held
  <1>6. Kept(v, g)
    BY <1>3, <1>4 DEF Kept
  <1>7. Kept(v, v)
    BY BenignSame, Zenon DEF Kept, SameName, SameState
  <1>8. QED
    BY <1>2, <1>5, <1>6, <1>7, Zenon

LEMMA KeptThen ==
  ASSUME NEW v, NEW u, NEW x, Kept(v, u), Kept(u, x)
  PROVE  Kept(v, x)
  BY BenignThen, Zenon DEF Kept, SameName, SameState

LEMMA AgedFields ==
  ASSUME NEW v \in WatcherType
  PROVE  LET u == Aged(v) IN
         /\ SameState(v, u) /\ SameJob(v, u) /\ SameEpisode(v, u)
         /\ u.marker \in {v.marker, "none"}
         /\ u.bySentinel = v.bySentinel
         /\ v.pausedFor = NoTime => u.pausedFor = NoTime
         /\ Benign(v, u)
  <1> DEFINE c == CountDown(v.cooldown)
             l == CountDown(v.markerLeft)
             m == IF v.markerLeft <= 1 THEN "none" ELSE v.marker
             p == IF v.pausedFor = NoTime \/ v.pausedFor = MaxPaused
                  THEN v.pausedFor ELSE v.pausedFor + 1
             a == [v EXCEPT !.cooldown = c, !.markerLeft = l, !.marker = m, !.pausedFor = p]
  <1>1. Aged(v) = a
    BY Zenon DEF Aged
  <1>2. m \in {v.marker, "none"}
    BY Zenon
  <1>3. v.pausedFor = NoTime => p = NoTime
    OBVIOUS
  <1> HIDE DEF c, l, m, p
  <1>4. /\ SameState(v, a) /\ SameJob(v, a) /\ SameEpisode(v, a)
        /\ a.marker = m /\ a.bySentinel = v.bySentinel /\ a.pausedFor = p
    BY SMT DEF WatcherType, SameState, SameJob, SameName, SameEpisode
  <1> HIDE DEF a
  <1>5. Benign(v, a)
    BY <1>2, <1>4, BenignFields, SMT DEF SameJob, SameName
  <1>6. QED
    BY <1>1, <1>2, <1>3, <1>4, <1>5, Zenon

-----------------------------------------------------------------------------
(***************************************************************************)
(* What a step of the system is to the watcher's episode.                  *)
(***************************************************************************)

Publishing == {"publish", "acking", "backoff"}

\* Somebody else moves, and the tick stays where it is suspended.
Aside ==
  /\ UNCHANGED <<pc, obs, attempt, votes>>
  /\ w' \in {w, DropMarker(w), Aged(w), SetState(w, "STALLED")}

\* The tick before it has looked at the status.
Prepare ==
  /\ pc \in {"idle", "retry", "fetch"} /\ pc' \in {"idle", "retry", "fetch", "update"}
  /\ UNCHANGED <<attempt, w, votes>>

Publish ==
  /\ pc \in Publishing /\ pc' \in Publishing
  /\ UNCHANGED <<obs, attempt, w, votes>>

Settle ==
  /\ pc \in Publishing
  /\ PauseHolds \/ PauseLost \/ PauseUnknown
  /\ UNCHANGED votes

Look == GrabFrame \/ CameraOffline \/ GrabFailed
Judge == DetectHigh \/ DetectLow \/ DetectError

LEMMA Moves ==
  ASSUME [Next]_vars
  PROVE  \/ Aside \/ WebResume \/ Prepare \/ Update \/ AutoStop \/ Look \/ Judge
         \/ Publish \/ Settle \/ RecordMlPause
  <1>1. CASE Tick
    <2>1. CASE TickStart \/ RetryStop \/ FetchFresh \/ FetchStale
      BY <2>1, SMT DEF Prepare, TickStart, RetryStop, FetchFresh, FetchStale
    <2>2. CASE PublishPause \/ RepublishPause
      BY <2>2, SMT DEF Publish, Publishing, PublishPause, RepublishPause
    <2>3. CASE PublishDebounced \/ PauseAcked \/ PauseUnacked \/ PauseFailed
      <3>1. pc \in Publishing
        BY <2>3, SMT DEF Publishing, PublishDebounced, PauseAcked, PauseUnacked, PauseFailed
      <3>2. PauseHolds \/ PauseLost \/ PauseUnknown
        BY <2>3, Zenon DEF PublishDebounced, PauseAcked, PauseUnacked, PauseFailed, AfterRaise
      <3>3. UNCHANGED votes
        BY <2>3, Zenon DEF PublishDebounced, PauseAcked, PauseUnacked, PauseFailed
      <3>4. QED
        BY <3>1, <3>2, <3>3 DEF Settle
    <2>4. QED
      BY <1>1, <2>1, <2>2, <2>3, Zenon DEF Tick, Look, Judge
  <1>2. CASE Watchdog
    BY <1>2, SMT DEF Watchdog, Aside, tickVars
  <1>3. CASE Operator
    <2>1. CASE WebPause
      <3>1. w' = DropMarker(w) /\ UNCHANGED <<pc, obs, attempt, votes>>
        BY <2>1, SMT DEF WebPause
      <3>2. QED
        BY <3>1, Zenon DEF Aside
    <2>2. CASE WebPauseSent \/ WebStop \/ ToggleDetection
      <3>1. w' = w /\ UNCHANGED <<pc, obs, attempt, votes>>
        <4>1. \/ UNCHANGED <<pc, obs, attempt, w, enabled, votes>>
              \/ UNCHANGED <<debounce, pc, obs, attempt, w, enabled, web, votes>>
              \/ UNCHANGED <<printerVars, linkVars, debounce, stopPending, tickVars, w, web, votes>>
          BY <2>2, Zenon DEF WebPauseSent, WebStop, ToggleDetection
        <4>2. QED
          BY <4>1, SMT DEF tickVars
      <3>2. QED
        BY <3>1, Zenon DEF Aside
    <2>3. QED
      BY <1>3, <2>1, <2>2, Zenon DEF Operator
  <1>4. CASE Printer
    <2>1. UNCHANGED printerOnly
      BY <1>4, Zenon DEF Printer, StartPrint, NameReported, EndPrint, WarmedUp, PanelPause,
                         PanelResume, ExecutePause, LosePause
    <2>2. w' = w /\ UNCHANGED <<pc, obs, attempt, votes>>
      BY <2>1, SMT DEF printerOnly, tickVars
    <2>3. QED
      BY <2>2, Zenon DEF Aside
  <1>5. CASE Link
    <2>1. UNCHANGED linkOnly
      BY <1>5, Zenon DEF Link, Push, LinkDown, LinkUp
    <2>2. w' = w /\ UNCHANGED <<pc, obs, attempt, votes>>
      BY <2>1, SMT DEF linkOnly, tickVars
    <2>3. QED
      BY <2>2, Zenon DEF Aside
  <1>6. CASE Pass
    <2>1. w' = Aged(w) /\ UNCHANGED <<tickVars, votes>>
      BY <1>6, SMT DEF Pass
    <2>2. QED
      BY <2>1, SMT DEF Aside, tickVars
  <1>7. CASE UNCHANGED vars
    <2>1. w' = w /\ UNCHANGED <<pc, obs, attempt, votes>>
      BY <1>7, SMT DEF vars
    <2>2. QED
      BY <2>1, Zenon DEF Aside
  <1>8. QED
    BY <1>1, <1>2, <1>3, <1>4, <1>5, <1>6, <1>7, Zenon DEF Next

LEMMA Typed == IInv => w \in WatcherType /\ Anchored(w) /\ obs \in Status \cup {NoStatus} /\ attempt \in Sources
  BY Zenon DEF IInv, TypeOK, OwnershipHasAnchor, Anchored

LEMMA AsideFields ==
  ASSUME IInv, Aside
  PROVE  /\ Benign(w, w')
         /\ SameName(w, w')
         /\ w'.state \in {w.state, "STALLED"}
         /\ PauseKept(w) => PauseKept(w')
         /\ Untimed(w) => Untimed(w')
  <1>1. w \in WatcherType
    BY Typed
  <1>2. CASE w' = w
    BY <1>2, BenignSame, SMT DEF SameName, Untimed, PauseKept, Held
  <1>3. CASE w' = DropMarker(w)
    <2>1. SameState(w, w') /\ SameJob(w, w') /\ SamePause(w, w') /\ Benign(w, w')
      BY <1>1, <1>3, DropMarkerFields, HelpersBenign, Zenon
    <2>2. QED
      BY <2>1, SMT DEF SameState, SameJob, SameName, SamePause, PauseKept, Untimed, Held
  <1>4. CASE w' = Aged(w)
    <2>1. /\ SameState(w, w') /\ SameJob(w, w') /\ Benign(w, w')
          /\ w.pausedFor = NoTime => w'.pausedFor = NoTime
      BY <1>1, <1>4, AgedFields, Zenon
    <2>2. QED
      BY <2>1, SMT DEF SameState, SameJob, SameName, PauseKept, Untimed, Held
  <1>5. CASE w' = SetState(w, "STALLED")
    <2>1. Benign(w, w')
      BY <1>1, <1>5, SetStateBenign, SMT
    <2>2. "STALLED" \in States
      BY StateNames, Zenon
    <2>3. /\ w'.state = "STALLED" /\ SameJob(w, w') /\ SamePause(w, w')
          /\ w'.interrupted <=> "STALLED" \in Interrupts /\ (w.interrupted \/ w.state = "PAUSED")
          /\ w'.resumed <=> w.resumed
      <3>1. "STALLED" # "PAUSED"
        OBVIOUS
      <3>2. QED
        BY <1>1, <1>5, <2>2, <3>1, SetStateFields
    <2>4. QED
      BY <2>1, <2>3, SMT DEF SameJob, SameName, SamePause, PauseKept, Untimed, Held, Interrupts
  <1>6. QED
    BY <1>2, <1>3, <1>4, <1>5, SMT DEF Aside

\* The operator resumes the print from the dashboard.
LEMMA WebResumeBenign ==
  ASSUME IInv, WebResume
  PROVE  /\ Benign(w, w') /\ SameName(w, w')
         /\ w'.resumed /\ Restarted(w')
         /\ UNCHANGED <<pc, obs, attempt>>
         /\ votes' = votes \/ votes' = << >>
         /\ pc \in Publishing /\ attempt = "auto" => votes' = votes
  <1> DEFINE v == NoteOperatorResume(w)
             d == DropMarker(ResetEpisode(w))
             c == [d EXCEPT !.cooldown = COOLDOWN, !.resumed = TRUE]
             u == SetState(v, "ARMED")
  <1>1. w \in WatcherType
    BY Typed
  <1>2. v \in WatcherType
    BY <1>1, OperatorResumeType, Zenon
  <1>3. /\ v.state = w.state /\ v.interrupted = w.interrupted /\ v.resumed
        /\ SameJob(w, v) /\ SamePause(w, v) /\ v.marker = "none" /\ Fresh(v)
        /\ v.cooldown = COOLDOWN
    <2>1. ResetEpisode(w) \in WatcherType
      BY <1>1, ResetEpisodeType, Zenon
    <2>2. /\ SameState(w, ResetEpisode(w)) /\ SameJob(w, ResetEpisode(w))
          /\ SamePause(w, ResetEpisode(w)) /\ Fresh(ResetEpisode(w))
      BY <1>1, ResetEpisodeFields, Zenon
    <2>3. /\ d \in WatcherType /\ SameState(w, d) /\ SameJob(w, d) /\ SamePause(w, d)
          /\ d.marker = "none" /\ Fresh(d)
      BY <2>1, <2>2, DropMarkerType, DropMarkerFields, Zenon
         DEF SameState, SameJob, SameName, SamePause, SameEpisode, Fresh
    <2>4. v = c
      BY Zenon DEF NoteOperatorResume
    <2> HIDE DEF d, v
    <2>5. /\ c.state = d.state /\ c.interrupted = d.interrupted /\ c.resumed = TRUE
          /\ SameJob(d, c) /\ SamePause(d, c) /\ c.marker = d.marker
          /\ SameEpisode(d, c) /\ c.cooldown = COOLDOWN
      BY <2>3, SMT DEF WatcherType, SameJob, SameName, SamePause, SameEpisode
    <2> HIDE DEF c
    <2>6. QED
      BY <2>3, <2>4, <2>5, Zenon
         DEF SameState, SameJob, SameName, SamePause, SameEpisode, Fresh
  <1>4. w' \in {u, v}
    BY Zenon DEF WebResume
  <1> HIDE DEF v
  <1>5. Calmer(w, v)
    BY <1>3, Zenon DEF Calmer, Fresh
  <1>6. Benign(w, v)
    <2>1. ForOutage(w) => ForOutage(v)
      BY <1>3, SMT DEF ForOutage, SameJob, SamePause
    <2>2. v.confirm \in {w.confirm, 0}
      BY <1>3, SMT DEF Fresh
    <2>3. QED
      BY <1>5, <2>1, <2>2 DEF Benign
  <1>7. Benign(v, u)
    BY <1>2, SetStateBenign, SMT
  <1>8. Benign(w, w')
    BY <1>4, <1>6, <1>7, BenignThen, Zenon
  <1>9. /\ SameJob(v, u) /\ u.resumed
        /\ Restarted(u)
    <2>1. "ARMED" # "PAUSED" /\ "ARMED" \in States
      BY StateNames, Zenon
    <2>2. /\ u.resumed <=> v.resumed /\ "ARMED" # "PAUSED"
          /\ SameJob(v, u)
          /\ LeavesPause(v, "ARMED") => Fresh(u) /\ u.marker = "none" /\ u.cooldown = COOLDOWN
          /\ ~LeavesPause(v, "ARMED") =>
               SameEpisode(v, u) /\ u.marker = v.marker /\ u.cooldown = v.cooldown
      BY <1>2, <2>1, SetStateFields
    <2> HIDE DEF u
    <2>3. QED
      BY <1>3, <2>1, <2>2, Zenon DEF Restarted, Fresh, SameEpisode
  <1> HIDE DEF u
  <1>10. /\ SameName(w, w') /\ w'.resumed /\ Restarted(w')
    BY <1>3, <1>4, <1>9, Zenon DEF SameJob, SameName, Restarted, Fresh
  <1>11. votes' = IF Attempting THEN votes ELSE << >>
    BY Zenon DEF WebResume
  <1>12. UNCHANGED <<pc, obs, attempt>>
    BY SMT DEF WebResume
  <1>13. pc \in Publishing /\ attempt = "auto" => Attempting
    BY Zenon DEF Publishing, Attempting
  <1>14. QED
    BY <1>8, <1>10, <1>11, <1>12, <1>13, Zenon

\* What a tick makes of the watcher up to the decision to look at a frame.
LEMMA UpdateFields ==
  ASSUME IInv, Update
  PROVE  LET u == UpdateState(w, obs) IN
         /\ u \in WatcherType
         /\ Kept(u, w')
         /\ PauseKept(w) => PauseKept(w')
         /\ pc' \in {"stop", "grab", "idle"}
         /\ pc' = "stop" => AutoStopDue(u) /\ obs' = obs
         /\ pc' = "grab" => Watching(u) /\ u.cooldown = 0 /\ obs' = obs
         /\ pc' = "grab" /\ PauseKept(w) => Untimed(w')
         /\ attempt' = attempt
         /\ votes' = votes \/ (votes' = << >> /\ u.confirm = 0)
  <1> DEFINE u == UpdateState(w, obs)
             v == PauseTimer(u)
  <1>1. w \in WatcherType /\ Anchored(w) /\ obs \in Status \cup {NoStatus}
    BY Typed
  <1>2. u \in WatcherType /\ Anchored(u)
    BY <1>1, UpdateStateType, Zenon
  <1>3. PauseKept(w) => PauseKept(u) \/ u.state \in {"ARMED", "WARMUP", "IDLE"}
    BY <1>1, UpdateStateEffect, Zenon
  <1>4. \/ AutoStopDue(u) /\ w' = u /\ pc' = "stop" /\ obs' = obs
        \/ /\ w' = Gate(v) /\ pc' = GateTo(v)
           /\ obs' = IF GateTo(v) = "idle" THEN NoStatus ELSE obs
    BY Zenon DEF Update
  <1>5. /\ attempt' = attempt
        /\ votes' = votes \/ (votes' = << >> /\ u.confirm = 0)
    <2>1. EndsStreak(obs) => u.confirm = 0
      BY <1>1, UpdateStateEffect, Zenon
    <2>2. votes' = IF EndsStreak(obs) THEN << >> ELSE votes
      BY Zenon DEF Update
    <2>3. attempt' = attempt
      BY Zenon DEF Update
    <2>4. QED
      BY <2>1, <2>2, <2>3, Zenon
  <1> HIDE DEF u
  <1>6. v \in WatcherType /\ v.state = u.state
    BY <1>2, PauseTimerType, Zenon
  <1>7. /\ Kept(u, v)
        /\ PauseKept(u) \/ u.state \in {"ARMED", "WARMUP", "IDLE"} => PauseKept(v)
    BY <1>2, PauseTimerKept, Zenon
  <1> HIDE DEF v
  <1>8. CASE AutoStopDue(u) /\ w' = u /\ pc' = "stop" /\ obs' = obs
    <2>1. Kept(u, u)
      BY BenignSame, Zenon DEF Kept, SameName, SameState
    <2>2. PauseKept(u)
      BY <1>8, Zenon DEF AutoStopDue, PauseKept, Untimed, Held
    <2>3. pc' # "grab" /\ pc' \in {"stop", "grab", "idle"}
      BY <1>8, SMT
    <2>4. QED
      BY <1>2, <1>5, <1>8, <2>1, <2>2, <2>3, Zenon DEF u
  <1>9. CASE /\ w' = Gate(v) /\ pc' = GateTo(v)
             /\ obs' = IF GateTo(v) = "idle" THEN NoStatus ELSE obs
    <2>1. Kept(v, w') /\ (PauseKept(v) => PauseKept(w'))
      BY <1>6, <1>9, GateKept, Zenon
    <2>2. Kept(u, w')
      BY <1>7, <2>1, KeptThen, Zenon
    <2>3. PauseKept(w) => PauseKept(w')
      BY <1>3, <1>7, <2>1, Zenon
    <2>4. /\ pc' \in {"grab", "idle"}
          /\ pc' = "grab" => Watching(v) /\ v.cooldown = 0 /\ obs' = obs
      BY <1>9, SMT DEF GateTo
    <2>5. Watching(v) => Watching(u)
      BY <1>6, Zenon DEF Watching
    <2>6. v.cooldown = u.cooldown
      BY <1>7 DEF Kept
    <2>7. Watching(v) /\ PauseKept(w') => Untimed(w')
      <3>1. w'.state = v.state
        BY <2>1 DEF Kept, SameName, SameState
      <3>2. QED
        BY <3>1, SMT DEF Watching, PauseKept, Untimed, Held, Interrupts
    <2>8. pc' # "stop" /\ pc' \in {"stop", "grab", "idle"}
      BY <2>4, SMT
    <2>9. QED
      BY <1>2, <1>5, <2>2, <2>3, <2>4, <2>5, <2>6, <2>7, <2>8, Zenon DEF u
  <1>10. QED
    BY <1>4, <1>8, <1>9

LEMMA UpdateBenign ==
  ASSUME IInv, Update
  PROVE  Benign(w, w')
  <1>1. w \in WatcherType /\ Anchored(w) /\ obs \in Status \cup {NoStatus}
    BY Typed
  <1>2. Benign(w, UpdateState(w, obs))
    BY <1>1, UpdateStateEffect, Zenon
  <1>3. Kept(UpdateState(w, obs), w')
    BY UpdateFields, Zenon
  <1>4. QED
    BY <1>2, <1>3, BenignThen, Zenon DEF Kept

LEMMA AutoStopFields ==
  ASSUME IInv, AutoStop
  PROVE  /\ Kept(w, w') /\ (PauseKept(w) => PauseKept(w'))
         /\ pc' \in {"grab", "idle"}
         /\ pc' = "grab" => Watching(w) /\ obs' = obs
         /\ UNCHANGED <<attempt, votes>>
  <1>1. PICK acked \in BOOLEAN :
          LET v == IF acked THEN ClearPause(w) ELSE w
          IN  /\ w' = Gate(v)
              /\ pc' = GateTo(v)
              /\ obs' = IF GateTo(v) = "idle" THEN NoStatus ELSE obs
    BY Zenon DEF AutoStop
  <1> DEFINE v == IF acked THEN ClearPause(w) ELSE w
  <1>2. w \in WatcherType
    BY Typed
  <1>3. v \in WatcherType /\ Kept(w, v) /\ (PauseKept(w) => PauseKept(v))
    <2>1. CASE acked
      <3>1. /\ v \in WatcherType /\ Benign(w, v) /\ SameState(w, v) /\ SameJob(w, v)
            /\ v.marker = w.marker /\ v.cooldown = w.cooldown /\ v.pausedFor = NoTime
        BY <1>2, <2>1, ClearPauseType, ClearPauseFields, HelpersBenign, Zenon
      <3> HIDE DEF v
      <3>2. QED
        BY <3>1, Zenon DEF Kept, SameJob, SameName, PauseKept, Untimed
    <2>2. CASE ~acked
      BY <1>2, <2>2, BenignSame, Zenon DEF Kept, SameName, SameState
    <2>3. QED
      BY <2>1, <2>2
  <1>4. /\ w' = Gate(v) /\ pc' = GateTo(v)
        /\ obs' = IF GateTo(v) = "idle" THEN NoStatus ELSE obs
    BY <1>1
  <1> HIDE DEF v
  <1>5. Kept(v, w') /\ (PauseKept(v) => PauseKept(w'))
    BY <1>3, <1>4, GateKept, Zenon
  <1>6. Kept(w, w')
    BY <1>3, <1>5, KeptThen, Zenon
  <1>7. /\ pc' \in {"grab", "idle"}
        /\ pc' = "grab" => Watching(v) /\ obs' = obs
    BY <1>4, SMT DEF GateTo
  <1>8. Watching(v) => Watching(w)
    BY <1>3, Zenon DEF Kept, SameName, SameState, Watching
  <1>9. UNCHANGED <<attempt, votes>>
    BY Zenon DEF AutoStop
  <1>10. QED
    BY <1>3, <1>5, <1>6, <1>7, <1>8, <1>9, Zenon

LEMMA LookFields ==
  ASSUME IInv, Look
  PROVE  /\ Benign(w, w') /\ SameName(w, w')
         /\ Untimed(w) => Untimed(w')
         /\ w'.state \in {w.state, "CAMERA_OFFLINE"} \/ w.state = "CAMERA_OFFLINE"
         /\ pc = "grab"
         /\ (pc' = "detect" /\ UNCHANGED <<obs, attempt>>) \/ pc' = "idle"
         /\ votes' = votes \/ (votes' = << >> /\ w'.confirm = 0)
  <1>1. w \in WatcherType
    BY Typed
  <1>2. CASE GrabFrame
    <2>1. \/ w' = w
          \/ w' = SetState(w, "ARMED") /\ w.state = "CAMERA_OFFLINE"
      BY <1>2, Zenon DEF GrabFrame
    <2>2. pc = "grab" /\ pc' = "detect" /\ UNCHANGED <<obs, attempt, votes>>
      BY <1>2, Zenon DEF GrabFrame
    <2>3. Benign(w, SetState(w, "ARMED"))
      BY <1>1, SetStateBenign, SMT
    <2>4. /\ SameJob(w, SetState(w, "ARMED")) /\ SamePause(w, SetState(w, "ARMED"))
          /\ w.resumed => SetState(w, "ARMED").resumed
      <3>1. "ARMED" # "PAUSED" /\ "ARMED" \in States
        BY StateNames, Zenon
      <3>2. QED
        BY <1>1, <3>1, SetStateFields
    <2>5. /\ Benign(w, w') /\ SameName(w, w')
          /\ Untimed(w) => Untimed(w')
      BY <2>1, <2>3, <2>4, BenignSame, Zenon DEF SameJob, SameName, SamePause, Untimed
    <2>6. w'.state \in {w.state, "CAMERA_OFFLINE"} \/ w.state = "CAMERA_OFFLINE"
      BY <2>1, Zenon
    <2>7. QED
      BY <2>2, <2>5, <2>6, Zenon
  <1>3. CASE CameraOffline \/ GrabFailed
    <2> DEFINE s == SetState(w, "CAMERA_OFFLINE")
               r == ResetEpisode(s)
    <2>1. \/ w' = w /\ votes' = votes
          \/ w' \in {ResetEpisode(w), r} /\ votes' = << >>
      BY <1>3, SMT DEF CameraOffline, GrabFailed
    <2>2. pc = "grab" /\ pc' = "idle"
      BY <1>3, Zenon DEF CameraOffline, GrabFailed, EndTick
    <2>3. CASE w' = w /\ votes' = votes
      BY <2>2, <2>3, BenignSame, Zenon DEF SameName, Untimed
    <2>4. CASE w' = ResetEpisode(w) /\ votes' = << >>
      <3>1. /\ Benign(w, w') /\ SameState(w, w') /\ SameJob(w, w') /\ SamePause(w, w')
            /\ Fresh(w')
        BY <1>1, <2>4, ResetEpisodeFields, HelpersBenign, Zenon
      <3>2. QED
        BY <2>2, <2>4, <3>1, Zenon DEF SameState, SameJob, SamePause, Untimed, Fresh
    <2>5. CASE w' = r /\ votes' = << >>
      <3>1. "CAMERA_OFFLINE" \in States
        BY StateNames, Zenon
      <3>2. ~LeavesPause(w, "CAMERA_OFFLINE")
        BY SMT DEF LeavesPause
      <3>3. s \in WatcherType
        BY <1>1, <3>1, SetStateType, Zenon
      <3>4. /\ s.state = "CAMERA_OFFLINE" /\ SameJob(w, s) /\ SamePause(w, s) /\ s.marker = w.marker
            /\ w.resumed => s.resumed
        <4>1. "CAMERA_OFFLINE" # "PAUSED"
          OBVIOUS
        <4>2. QED
          BY <1>1, <3>1, <3>2, <4>1, SetStateFields
      <3> HIDE DEF s
      <3>5. /\ SameState(s, w') /\ SameJob(s, w') /\ SamePause(s, w')
            /\ w'.marker = s.marker /\ Fresh(w')
        BY <2>5, <3>3, ResetEpisodeFields, Zenon
      <3>6. /\ w'.state = "CAMERA_OFFLINE" /\ SameJob(w, w') /\ SamePause(w, w')
            /\ w'.marker = w.marker /\ (w.resumed => w'.resumed)
        <4>1. w'.resumed = s.resumed /\ w'.state = s.state
          BY <3>5 DEF SameState
        <4>2. w.resumed => w'.resumed
          BY <3>4, <4>1
        <4>3. SameJob(w, w') /\ SamePause(w, w')
          BY <3>4, <3>5, SMT DEF SameJob, SameName, SamePause
        <4>4. QED
          BY <3>4, <3>5, <4>1, <4>2, <4>3
      <3>7. Calmer(w, w')
        BY <3>5, Zenon DEF Calmer, Fresh
      <3>8. ForOutage(w) => ForOutage(w')
        BY <3>6, Zenon DEF ForOutage, SameJob, SameName, SamePause
      <3>9. w'.confirm \in {w.confirm, 0}
        BY <3>5, SMT DEF Fresh
      <3>10. Benign(w, w')
        BY <3>7, <3>8, <3>9 DEF Benign
      <3>11. QED
        BY <2>2, <2>5, <3>5, <3>6, <3>10, Zenon DEF SameJob, SamePause, Untimed, Fresh
    <2>6. QED
      BY <2>1, <2>3, <2>4, <2>5, Zenon
  <1>4. QED
    BY <1>2, <1>3 DEF Look

\* A frame is judged: the pause, its ownership and the job stay what they are.
SameFrame(v, u) ==
  SameState(v, u) /\ SamePause(v, u) /\ SameName(v, u) /\ u.source = v.source

LEMMA HighFields ==
  ASSUME IInv, DetectHigh
  PROVE  /\ pc = "detect" /\ "high" \in Scores
         /\ SameFrame(w, w') /\ w'.marker = w.marker
         /\ w'.pauseAlerted = w.pauseAlerted /\ w'.mlAlerted = FALSE
         /\ votes' = LastVotes(Append(votes, obs.file))
         /\ \/ /\ w.confirm + 1 >= CONFIRM /\ w'.confirm = 0
               /\ pc' = "publish" /\ attempt' = "auto" /\ obs' = obs
            \/ /\ w.confirm + 1 < CONFIRM /\ w'.confirm = w.confirm + 1
               /\ pc' = "idle"
  <1> DEFINE reached == w.confirm + 1 >= CONFIRM
             n == IF reached THEN 0 ELSE w.confirm + 1
             d == [w EXCEPT !.mlErr = 0, !.mlAlerted = FALSE, !.confirm = n]
  <1>1. w \in WatcherType
    BY Typed
  <1>2. w' = d
    BY Zenon DEF DetectHigh
  <1>3. /\ pc = "detect" /\ "high" \in Scores
        /\ votes' = LastVotes(Append(votes, obs.file))
        /\ IF reached THEN pc' = "publish" /\ attempt' = "auto" /\ obs' = obs ELSE pc' = "idle"
    BY Zenon DEF DetectHigh, EndTick
  <1>4. w.confirm \in Nat /\ CONFIRM \in Nat
    BY <1>1, FieldTypes, ConstantsAssumption, SMT
  <1>5. \/ reached /\ n = 0
        \/ w.confirm + 1 < CONFIRM /\ n = w.confirm + 1 /\ ~reached
    BY <1>4, SMT
  <1> HIDE DEF n, reached
  <1>6. /\ SameFrame(w, w') /\ w'.marker = w.marker
        /\ w'.pauseAlerted = w.pauseAlerted /\ w'.mlAlerted = FALSE
        /\ w'.confirm = n
    BY <1>1, <1>2, SMT DEF WatcherType, SameFrame, SameName, SameState, SamePause
  <1> HIDE DEF d
  <1>7. QED
    BY <1>3, <1>5, <1>6, Zenon DEF reached

LEMMA LowFields ==
  ASSUME IInv, DetectLow
  PROVE  /\ SameFrame(w, w') /\ w'.marker = w.marker
         /\ Fresh(w') /\ votes' = << >> /\ pc' = "idle" /\ pc = "detect"
  <1> DEFINE d == [w EXCEPT !.mlErr = 0, !.mlAlerted = FALSE, !.confirm = 0,
                            !.pauseAlerted = FALSE]
  <1>1. w \in WatcherType
    BY Typed
  <1>2. w' = d /\ votes' = << >> /\ pc' = "idle" /\ pc = "detect"
    BY Zenon DEF DetectLow, EndTick
  <1>3. SameFrame(w, w') /\ w'.marker = w.marker /\ Fresh(w')
    BY <1>1, <1>2, SMT DEF WatcherType, SameFrame, SameName, SameState, SamePause, Fresh
  <1>4. QED
    BY <1>2, <1>3

LEMMA ErrorFields ==
  ASSUME IInv, DetectError
  PROVE  /\ pc = "detect"
         /\ SameFrame(w, w') /\ w'.marker = w.marker
         /\ w'.confirm = w.confirm /\ w'.pauseAlerted = w.pauseAlerted
         /\ (w.mlAlerted => w.mlErr = ML_THRESHOLD) => (w'.mlAlerted => w'.mlErr = ML_THRESHOLD)
         /\ votes' = votes
         /\ \/ pc' = "publish" /\ attempt' = "ml_failure" /\ obs' = obs
            \/ pc' = "idle"
  <1> DEFINE closed == w.mlErr + 1 >= ML_THRESHOLD
             n == IF closed THEN ML_THRESHOLD ELSE w.mlErr + 1
             a == w.mlAlerted \/ closed
             d == [w EXCEPT !.mlErr = n, !.mlAlerted = a]
  <1>1. w \in WatcherType
    BY Typed
  <1>2. w' = d
    BY Zenon DEF DetectError
  <1>3. /\ pc = "detect" /\ votes' = votes
        /\ \/ pc' = "publish" /\ attempt' = "ml_failure" /\ obs' = obs
           \/ pc' = "idle"
    BY Zenon DEF DetectError, EndTick
  <1>4. closed => n = ML_THRESHOLD
    OBVIOUS
  <1>5. w.mlErr = ML_THRESHOLD => closed
    BY ConstantsAssumption, SMT
  <1>6. a <=> w.mlAlerted \/ closed
    OBVIOUS
  <1> HIDE DEF n, a, closed
  <1>7. /\ SameFrame(w, w') /\ w'.marker = w.marker
        /\ w'.confirm = w.confirm /\ w'.pauseAlerted = w.pauseAlerted
        /\ w'.mlAlerted = a /\ w'.mlErr = n
    BY <1>1, <1>2, SMT DEF WatcherType, SameFrame, SameName, SameState, SamePause
  <1> HIDE DEF d
  <1>8. (w.mlAlerted => w.mlErr = ML_THRESHOLD) => (w'.mlAlerted => w'.mlErr = ML_THRESHOLD)
    BY <1>4, <1>5, <1>6, <1>7, Zenon
  <1>9. QED
    BY <1>3, <1>7, <1>8

LEMMA RecordFields ==
  ASSUME IInv, RecordMlPause
  PROVE  /\ pc' = "idle" /\ votes' = votes
         /\ SameFrame(w, w') /\ w'.pauseAlerted = w.pauseAlerted
         /\ \/ pc = "recordOk" /\ w'.confirm = 0 /\ w'.mlAlerted = FALSE /\ w'.marker = w.marker
            \/ /\ pc = "recordUnknown" /\ w'.confirm = w.confirm /\ w'.mlAlerted = w.mlAlerted
               /\ w'.mlErr = w.mlErr /\ w'.marker = "ml_failure"
  <1> DEFINE d == [w EXCEPT !.confirm = 0, !.mlErr = 0, !.mlAlerted = FALSE]
             a == ArmMarker(w, "ml_failure")
  <1>1. w \in WatcherType /\ "ml_failure" \in Sources
    BY Typed DEF Sources
  <1>2. /\ pc' = "idle" /\ votes' = votes
        /\ (pc = "recordOk" /\ w' = d) \/ (pc = "recordUnknown" /\ w' = a)
    BY Zenon DEF RecordMlPause, EndTick
  <1>3. /\ SameFrame(w, d) /\ d.pauseAlerted = w.pauseAlerted
        /\ d.confirm = 0 /\ d.mlAlerted = FALSE /\ d.marker = w.marker
    BY <1>1, SMT DEF WatcherType, SameFrame, SameName, SameState, SamePause
  <1>4. /\ SameState(w, a) /\ SameJob(w, a) /\ SamePause(w, a) /\ SameEpisode(w, a)
        /\ a.marker = "ml_failure"
    BY <1>1, ArmMarkerFields, Zenon
  <1> HIDE DEF d, a
  <1>5. QED
    BY <1>2, <1>3, <1>4, Zenon DEF SameFrame, SameJob, SameName, SameEpisode

\* The three outcomes of a pause command.
HeldOutcome ==
  /\ w'.state = "PAUSED" /\ w'.confirm = w.confirm /\ w'.mlAlerted = w.mlAlerted
  /\ w'.mlErr = w.mlErr /\ SameName(w, w')
  /\ w'.marker = "none" /\ w'.source = attempt
  /\ \/ attempt = "auto" /\ w'.pauseAlerted = FALSE /\ pc' = "idle"
     \/ attempt # "auto" /\ w'.pauseAlerted = w.pauseAlerted /\ pc' = "recordOk" /\ attempt' = attempt

KeptOutcome ==
  /\ attempt = "auto" /\ pc' = "idle"
  /\ SameFrame(w, w') /\ w'.mlAlerted = w.mlAlerted /\ w'.mlErr = w.mlErr
  /\ w'.confirm = CONFIRM

LostOutcome ==
  /\ attempt # "auto" /\ w' = w
  /\ pc' = "idle" \/ (pc' = "recordUnknown" /\ attempt' = attempt)

LEMMA SettleFields ==
  ASSUME IInv, Settle
  PROVE  HeldOutcome \/ KeptOutcome \/ LostOutcome
  <1>1. w \in WatcherType /\ attempt \in Sources
    BY Typed
  <1>2. CASE PauseHolds
    <2> DEFINE m == MarkPausedBySentinel(w, attempt)
               d == [m EXCEPT !.pauseAlerted = FALSE]
    <2>1. /\ m \in WatcherType
          /\ m.state = "PAUSED" /\ SameEpisode(w, m)
          /\ m.mlErr = w.mlErr /\ SameName(w, m)
          /\ m.marker = "none" /\ m.source = attempt
      <3> HIDE DEF d
      <3>1. m \in WatcherType
        BY <1>1, MarkPausedBySentinelType, Zenon
      <3>2. QED
        BY <1>1, <3>1, MarkPausedBySentinelFields, Zenon
    <2>2. \/ attempt = "auto" /\ w' = d /\ pc' = "idle"
          \/ attempt # "auto" /\ w' = m /\ pc' = "recordOk" /\ attempt' = attempt
      BY <1>2, Zenon DEF PauseHolds, EndTick
    <2> HIDE DEF m
    <2>3. /\ d.state = "PAUSED" /\ d.confirm = w.confirm /\ d.mlAlerted = w.mlAlerted
          /\ d.pauseAlerted = FALSE
          /\ d.mlErr = w.mlErr /\ SameName(w, d)
          /\ d.marker = "none" /\ d.source = attempt
      BY <2>1, SMT DEF WatcherType, SameEpisode, SameName
    <2> HIDE DEF d
    <2>4. HeldOutcome
      BY <2>1, <2>2, <2>3, Zenon DEF HeldOutcome, SameEpisode
    <2>5. QED
      BY <2>4
  <1>3. CASE attempt = "auto" /\ (PauseLost \/ PauseUnknown)
    <2> DEFINE a == ArmMarker(w, "auto")
    <2>1. "auto" \in Sources
      BY DEF Sources
    <2>2. /\ a \in WatcherType /\ SameState(w, a) /\ SameJob(w, a) /\ SamePause(w, a)
          /\ SameEpisode(w, a)
      BY <1>1, <2>1, ArmMarkerType, ArmMarkerFields, Zenon
    <2>3. w' \in {KeepStreak(w), KeepStreak(a)} /\ pc' = "idle"
      BY <1>3, Zenon DEF PauseLost, PauseUnknown, EndTick
    <2> HIDE DEF a
    <2>4. PICK b \in {w, a} : w' = KeepStreak(b)
      BY <2>3, Zenon
    <2>5. /\ b \in WatcherType /\ SameState(w, b) /\ SameJob(w, b) /\ SamePause(w, b)
          /\ SameEpisode(w, b)
      BY <1>1, <2>2, <2>4, Zenon DEF SameState, SameJob, SameName, SamePause, SameEpisode
    <2>6. /\ SameState(b, w') /\ SameJob(b, w') /\ SamePause(b, w')
          /\ w'.confirm = CONFIRM /\ w'.mlAlerted = b.mlAlerted
      BY <2>4, <2>5, KeepStreakFields, Zenon
    <2>7. KeptOutcome
      BY <1>3, <2>3, <2>5, <2>6, Zenon
         DEF KeptOutcome, SameFrame, SameState, SameJob, SameName, SamePause, SameEpisode
    <2>8. QED
      BY <2>7
  <1>4. CASE attempt # "auto" /\ (PauseLost \/ PauseUnknown)
    <2>1. LostOutcome
      BY <1>4, Zenon DEF LostOutcome, PauseLost, PauseUnknown, EndTick
    <2>2. QED
      BY <2>1
  <1>5. QED
    BY <1>2, <1>3, <1>4, Zenon DEF Settle

-----------------------------------------------------------------------------
(***************************************************************************)
(* Muted alerts.                                                           *)
(***************************************************************************)

MutedWhileDown(v) == v.mlAlerted => v.mlErr = ML_THRESHOLD

StreakKept(v) == v.pauseAlerted /\ v.confirm # CONFIRM => Held(v)

\* A muted alert belongs to a pause that is owed, is under way, or was reached.
AlertInv ==
  /\ MutedWhileDown(w)
  /\ StreakKept(w) \/ (pc \in Publishing /\ attempt = "auto")
  /\ pc = "recordOk" => (w.pauseAlerted => Held(w))

LEMMA AlertKeeps ==
  ASSUME NEW v, NEW u, Benign(v, u)
  PROVE  /\ MutedWhileDown(v) => MutedWhileDown(u)
         /\ StreakKept(v) => StreakKept(u)
         /\ (v.pauseAlerted => Held(v)) => (u.pauseAlerted => Held(u))
  BY Zenon DEF Benign, Calmer, MutedWhileDown, StreakKept

LEMMA AlertInit == Init => AlertInv
  <1> SUFFICES ASSUME Init PROVE AlertInv
    OBVIOUS
  <1>1. w.mlAlerted = FALSE /\ w.pauseAlerted = FALSE
    BY Zenon DEF Init
  <1>2. pc = "idle"
    BY DEF Init
  <1>3. QED
    BY <1>1, <1>2, SMT DEF AlertInv, MutedWhileDown, StreakKept

LEMMA AlertStep == IInv /\ AlertInv /\ [Next]_vars => AlertInv'
  <1> SUFFICES ASSUME IInv, AlertInv, [Next]_vars PROVE AlertInv'
    OBVIOUS
  <1>1. CASE Aside \/ WebResume \/ Publish
    <2>1. Benign(w, w')
      BY <1>1, AsideFields, WebResumeBenign, BenignSame, SMT DEF Publish
    <2>2. \/ pc' = pc /\ attempt' = attempt
          \/ pc \in Publishing /\ pc' \in Publishing /\ attempt' = attempt
      BY <1>1, WebResumeBenign, SMT DEF Aside, Publish
    <2>3. MutedWhileDown(w')
      BY <2>1, AlertKeeps, Zenon DEF AlertInv
    <2>4. StreakKept(w') \/ (pc' \in Publishing /\ attempt' = "auto")
      BY <2>1, <2>2, AlertKeeps, Zenon DEF AlertInv
    <2>5. pc' = "recordOk" => (w'.pauseAlerted => Held(w'))
      <3>1. pc' = "recordOk" => pc = "recordOk"
        BY <2>2, SMT DEF Publishing
      <3>2. QED
        BY <2>1, <3>1, AlertKeeps, Zenon DEF AlertInv
    <2>6. QED
      BY <2>3, <2>4, <2>5, Zenon DEF AlertInv, MutedWhileDown, StreakKept, Held
  <1>2. CASE Prepare \/ Update \/ AutoStop \/ Look
    <2>1. Benign(w, w')
      BY <1>2, UpdateBenign, AutoStopFields, LookFields, BenignSame, SMT DEF Prepare, Kept
    <2>2. pc \notin Publishing
      BY <1>2, LookFields, SMT DEF Prepare, Update, AutoStop, Publishing
    <2>3. pc' # "recordOk"
      BY <1>2, UpdateFields, AutoStopFields, LookFields, SMT DEF Prepare
    <2>4. MutedWhileDown(w') /\ StreakKept(w')
      BY <2>1, <2>2, AlertKeeps, Zenon DEF AlertInv
    <2>5. QED
      BY <2>3, <2>4, Zenon DEF AlertInv, MutedWhileDown, StreakKept, Held
  <1>3. CASE DetectHigh
    <2>1. pc = "detect" /\ SameState(w, w') /\ w'.pauseAlerted = w.pauseAlerted
          /\ w'.mlAlerted = FALSE
      BY <1>3, HighFields, Zenon DEF SameFrame, SameName
    <2>2. StreakKept(w)
      BY <2>1, SMT DEF AlertInv, Publishing
    <2>3. \/ pc' = "publish" /\ attempt' = "auto"
          \/ w.confirm # CONFIRM /\ pc' = "idle"
      <3>1. w.confirm \in Int /\ CONFIRM \in Int
        BY Typed, FieldTypes, ConstantsAssumption, SMT
      <3>2. QED
        BY <1>3, <3>1, HighFields, SMT
    <2>4. Held(w) => Held(w')
      BY <2>1, Zenon DEF SameState, Held
    <2>5. StreakKept(w') \/ (pc' \in Publishing /\ attempt' = "auto")
      BY <2>1, <2>2, <2>3, <2>4, SMT DEF StreakKept, Publishing
    <2>6. pc' # "recordOk"
      BY <2>3, SMT
    <2>7. MutedWhileDown(w')
      BY <2>1 DEF MutedWhileDown
    <2>8. QED
      BY <2>5, <2>6, <2>7, Zenon DEF AlertInv, MutedWhileDown, StreakKept, Held
  <1>4. CASE DetectLow
    <2>1. Fresh(w') /\ pc' = "idle"
      BY <1>4, LowFields, Zenon
    <2>2. QED
      BY <2>1, SMT DEF AlertInv, MutedWhileDown, StreakKept, Fresh
  <1>5. CASE DetectError
    <2>1. /\ pc = "detect" /\ SameState(w, w') /\ w'.confirm = w.confirm
          /\ w'.pauseAlerted = w.pauseAlerted
          /\ (w.mlAlerted => w.mlErr = ML_THRESHOLD) => (w'.mlAlerted => w'.mlErr = ML_THRESHOLD)
          /\ pc' \in {"publish", "idle"}
      BY <1>5, ErrorFields, SMT DEF SameFrame, SameName
    <2>2. StreakKept(w)
      BY <2>1, SMT DEF AlertInv, Publishing
    <2>3. StreakKept(w') /\ MutedWhileDown(w')
      BY <2>1, <2>2, Zenon DEF AlertInv, MutedWhileDown, StreakKept, SameState, Held
    <2>4. pc' # "recordOk"
      BY <2>1, SMT
    <2>5. QED
      BY <2>3, <2>4, Zenon DEF AlertInv, MutedWhileDown, StreakKept, Held
  <1>6. CASE Settle
    <2>1. pc \in Publishing
      BY <1>6 DEF Settle
    <2>2. CASE HeldOutcome
      <3>1. MutedWhileDown(w')
        BY <2>2, Zenon DEF AlertInv, MutedWhileDown, HeldOutcome
      <3>2. Held(w')
        BY <2>2 DEF Held, HeldOutcome
      <3>3. QED
        BY <3>1, <3>2, Zenon DEF AlertInv, MutedWhileDown, StreakKept, Held
    <2>3. CASE KeptOutcome
      <3>1. MutedWhileDown(w')
        BY <2>3, Zenon DEF AlertInv, MutedWhileDown, KeptOutcome
      <3>2. StreakKept(w') /\ pc' # "recordOk"
        BY <2>3, SMT DEF StreakKept, KeptOutcome
      <3>3. QED
        BY <3>1, <3>2, Zenon DEF AlertInv, MutedWhileDown, StreakKept, Held
    <2>4. CASE LostOutcome
      <3>1. w' = w /\ StreakKept(w) /\ pc' # "recordOk"
        BY <2>4, SMT DEF AlertInv, LostOutcome
      <3>2. QED
        BY <3>1, Zenon DEF AlertInv, MutedWhileDown, StreakKept, Held
    <2>5. QED
      BY <1>6, <2>2, <2>3, <2>4, SettleFields, Zenon
  <1>7. CASE RecordMlPause
    <2>1. pc' = "idle" /\ SameState(w, w') /\ w'.pauseAlerted = w.pauseAlerted
      BY <1>7, RecordFields, Zenon DEF SameFrame, SameName
    <2>2. Held(w) => Held(w')
      BY <2>1, Zenon DEF SameState, Held
    <2>3. CASE pc = "recordOk" /\ w'.mlAlerted = FALSE
      <3>1. MutedWhileDown(w')
        BY <2>3 DEF MutedWhileDown
      <3>2. StreakKept(w')
        BY <2>1, <2>2, <2>3, Zenon DEF AlertInv, StreakKept
      <3>3. QED
        BY <2>1, <3>1, <3>2, SMT DEF AlertInv, MutedWhileDown, StreakKept
    <2>4. CASE /\ pc = "recordUnknown" /\ w'.confirm = w.confirm
               /\ w'.mlAlerted = w.mlAlerted /\ w'.mlErr = w.mlErr
      <3>1. StreakKept(w)
        BY <2>4, SMT DEF AlertInv, Publishing
      <3>2. MutedWhileDown(w') /\ StreakKept(w')
        BY <2>1, <2>2, <2>4, <3>1, Zenon DEF AlertInv, MutedWhileDown, StreakKept
      <3>3. QED
        BY <2>1, <3>2, SMT DEF AlertInv, MutedWhileDown, StreakKept
    <2>5. QED
      BY <1>7, <2>3, <2>4, RecordFields, Zenon
  <1>8. QED
    BY <1>1, <1>2, <1>3, <1>4, <1>5, <1>6, <1>7, Moves, Zenon DEF Judge

-----------------------------------------------------------------------------
(***************************************************************************)
(* An outage of the ML service.                                            *)
(***************************************************************************)

\* No frame scores high, and the operator did not opt in to stops on ML failures.
OnlyOutages == ~("high" \in Scores \/ ML_AUTO_STOP)

OutageInv ==
  /\ ForOutage(w)
  /\ pc \in Publishing \cup {"recordOk"} => attempt = "ml_failure"
  /\ pc # "stop"

LEMMA OutageInit == Init => OutageInv
  <1> SUFFICES ASSUME Init PROVE OutageInv
    OBVIOUS
  <1>1. w.bySentinel = FALSE /\ w.marker = "none"
    BY Zenon DEF Init
  <1>2. pc = "idle"
    BY DEF Init
  <1>3. QED
    BY <1>1, <1>2, SMT DEF OutageInv, ForOutage, Publishing

LEMMA OutageStep ==
  ASSUME OnlyOutages, IInv, OutageInv, [Next]_vars
  PROVE  OutageInv'
  <1>1. CASE Aside \/ WebResume \/ Publish \/ Prepare \/ Look
    <2>1. Benign(w, w')
      BY <1>1, AsideFields, WebResumeBenign, LookFields, BenignSame, SMT DEF Publish, Prepare
    <2>2. ForOutage(w')
      BY <2>1, Zenon DEF Benign, OutageInv
    <2>3. \/ pc' = pc /\ attempt' = attempt
          \/ pc \in Publishing /\ pc' \in Publishing /\ attempt' = attempt
          \/ pc' \in {"idle", "retry", "fetch", "update", "detect"}
      BY <1>1, WebResumeBenign, LookFields, SMT DEF Aside, Publish, Prepare
    <2>4. /\ pc' \in Publishing \cup {"recordOk"} => attempt' = "ml_failure"
          /\ pc' # "stop"
      BY <2>3, SMT DEF OutageInv, Publishing
    <2>5. QED
      BY <2>2, <2>4, Zenon DEF OutageInv, ForOutage
  <1>2. CASE Update
    <2> DEFINE u == UpdateState(w, obs)
    <2>1. w \in WatcherType /\ Anchored(w) /\ obs \in Status \cup {NoStatus}
      BY Typed
    <2>2. Benign(w, u)
      BY <2>1, UpdateStateEffect, Zenon
    <2>3. /\ Kept(u, w') /\ pc' \in {"stop", "grab", "idle"}
          /\ pc' = "stop" => AutoStopDue(u)
      BY <1>2, UpdateFields, Zenon
    <2> HIDE DEF u
    <2>4. ForOutage(u) /\ ForOutage(w')
      BY <2>2, <2>3, Zenon DEF Benign, Kept, OutageInv
    <2>5. ~AutoStopDue(u)
      BY <2>4, Zenon DEF ForOutage, AutoStopDue, AutoStopAllowed, OnlyOutages
    <2>6. /\ pc' \in Publishing \cup {"recordOk"} => attempt' = "ml_failure"
          /\ pc' # "stop"
      BY <2>3, <2>5, SMT DEF Publishing
    <2>7. QED
      BY <2>4, <2>6, Zenon DEF OutageInv, ForOutage
  <1>3. CASE AutoStop
    BY <1>3, Zenon DEF AutoStop, OutageInv
  <1>4. CASE DetectHigh
    BY <1>4, HighFields, Zenon DEF OnlyOutages
  <1>5. CASE DetectLow
    <2>1. SameFrame(w, w') /\ w'.marker = w.marker /\ pc' = "idle"
      BY <1>5, LowFields, Zenon
    <2>2. QED
      BY <2>1, SMT DEF OutageInv, ForOutage, SameFrame, SameName, SamePause, Publishing
  <1>6. CASE DetectError
    <2>1. SameFrame(w, w') /\ w'.marker = w.marker
      BY <1>6, ErrorFields, Zenon
    <2>2. (pc' = "publish" /\ attempt' = "ml_failure") \/ pc' = "idle"
      BY <1>6, ErrorFields, Zenon
    <2>3. QED
      BY <2>1, <2>2, SMT DEF OutageInv, ForOutage, SameFrame, SameName, SamePause, Publishing
  <1>7. CASE Settle
    <2>1. pc \in Publishing /\ attempt = "ml_failure"
      BY <1>7, SMT DEF Settle, OutageInv
    <2>2. CASE HeldOutcome
      BY <2>1, <2>2, SMT DEF OutageInv, ForOutage, HeldOutcome, Publishing
    <2>3. CASE LostOutcome
      BY <2>1, <2>3, SMT DEF OutageInv, ForOutage, LostOutcome, Publishing
    <2>4. ~KeptOutcome
      BY <2>1, SMT DEF KeptOutcome
    <2>5. QED
      BY <1>7, <2>2, <2>3, <2>4, SettleFields, Zenon
  <1>8. CASE RecordMlPause
    <2>1. pc' = "idle" /\ SameFrame(w, w') /\ (w'.marker = w.marker \/ w'.marker = "ml_failure")
      BY <1>8, RecordFields, Zenon
    <2>2. QED
      BY <2>1, SMT DEF OutageInv, ForOutage, SameFrame, SameName, SamePause, Publishing
  <1>9. QED
    BY <1>1, <1>2, <1>3, <1>4, <1>5, <1>6, <1>7, <1>8, Moves, Zenon DEF Judge

-----------------------------------------------------------------------------
(***************************************************************************)
(* WarmInv alone needs to know that nobody resumes the print through the    *)
(* web or Telegram while a tick is suspended: such a resume re-arms the     *)
(* watcher under an automatic stop that still awaits its answer.            *)
(***************************************************************************)

NoWebResume == "web_resume" \notin OPERATOR

\* An automatic stop is awaited in the state it was decided in.
WarmInv ==
  /\ FramesOnlyFromWarmPrints
  /\ pc = "stop" => AUTO_STOP > 0 /\ w.state \in {"PAUSED", "STALLED"}

LEMMA WarmInit == Init => WarmInv
  BY SMT DEF Init, WarmInv, FramesOnlyFromWarmPrints

LEMMA WarmElsewhere ==
  ASSUME pc' \in {"idle", "retry", "fetch", "update", "recordOk", "recordUnknown"}
  PROVE  WarmInv'
  BY SMT DEF WarmInv, FramesOnlyFromWarmPrints

LEMMA WarmGoesOn ==
  ASSUME WarmInv, obs' = obs,
         pc \in {"grab", "detect", "publish", "acking", "backoff"},
         pc' \in {"grab", "detect", "publish", "acking", "backoff"}
  PROVE  WarmInv'
  BY SMT DEF WarmInv, FramesOnlyFromWarmPrints

LEMMA WarmStep ==
  ASSUME AUTO_STOP = 0 \/ NoWebResume, IInv, WarmInv, [Next]_vars
  PROVE  WarmInv'
  <1>1. CASE Aside
    <2>1. pc' = pc /\ obs' = obs /\ w'.state \in {w.state, "STALLED"}
      BY <1>1, AsideFields, SMT DEF Aside
    <2>2. QED
      BY <2>1, SMT DEF WarmInv, FramesOnlyFromWarmPrints
  <1>2. CASE WebResume
    <2>1. pc' = pc /\ obs' = obs
      BY <1>2, WebResumeBenign, Zenon
    <2>2. AUTO_STOP = 0
      BY <1>2, Zenon DEF WebResume, NoWebResume
    <2>3. QED
      BY <2>1, <2>2, SMT DEF WarmInv, FramesOnlyFromWarmPrints
  <1>3. CASE Prepare
    BY <1>3, WarmElsewhere, SMT DEF Prepare
  <1>4. CASE Update
    <2> DEFINE u == UpdateState(w, obs)
    <2>1. w \in WatcherType /\ Anchored(w) /\ obs \in Status \cup {NoStatus}
      BY Typed
    <2>2. /\ Watching(u) => obs \in Status
          /\ Watching(u) /\ u.cooldown = 0 => obs.print = "printing" /\ obs.warm
      BY <2>1, UpdateStateType, UpdateStateEffect, Zenon
    <2>3. /\ Kept(u, w') /\ pc' \in {"stop", "grab", "idle"}
          /\ pc' = "stop" => AutoStopDue(u)
          /\ pc' = "grab" => Watching(u) /\ u.cooldown = 0 /\ obs' = obs
      BY <1>4, UpdateFields, Zenon
    <2> HIDE DEF u
    <2>4. CASE pc' = "stop"
      <3>1. AUTO_STOP > 0 /\ w'.state = "PAUSED"
        BY <2>3, <2>4, Zenon DEF AutoStopDue, Kept, SameState
      <3>2. QED
        BY <2>4, <3>1, SMT DEF WarmInv, FramesOnlyFromWarmPrints
    <2>5. CASE pc' = "grab"
      <3>1. obs' # NoStatus /\ obs'.print = "printing" /\ obs'.warm
        BY <2>2, <2>3, <2>5, StatusTypes, Zenon
      <3>2. QED
        BY <2>5, <3>1, SMT DEF WarmInv, FramesOnlyFromWarmPrints
    <2>6. CASE pc' = "idle"
      BY <2>6, WarmElsewhere, SMT
    <2>7. QED
      BY <2>3, <2>4, <2>5, <2>6, SMT
  <1>5. CASE AutoStop
    <2>1. w.state \in {"PAUSED", "STALLED"}
      BY <1>5, Zenon DEF AutoStop, WarmInv
    <2>2. pc' \in {"grab", "idle"} /\ (pc' = "grab" => Watching(w))
      BY <1>5, AutoStopFields, Zenon
    <2>3. pc' = "idle"
      BY <2>1, <2>2, SMT DEF Watching
    <2>4. QED
      BY <2>3, WarmElsewhere, SMT
  <1>6. CASE Look
    <2>1. pc = "grab" /\ ((pc' = "detect" /\ obs' = obs) \/ pc' = "idle")
      BY <1>6, LookFields, Zenon
    <2>2. QED
      BY <2>1, WarmElsewhere, WarmGoesOn, SMT
  <1>7. CASE Judge
    <2>1. pc = "detect" /\ ((pc' = "publish" /\ obs' = obs) \/ pc' = "idle")
      <3>1. CASE DetectHigh
        BY <3>1, HighFields, Zenon
      <3>2. CASE DetectLow
        BY <3>2, LowFields, Zenon
      <3>3. CASE DetectError
        BY <3>3, ErrorFields, Zenon
      <3>4. QED
        BY <1>7, <3>1, <3>2, <3>3, Zenon DEF Judge
    <2>2. CASE pc = "detect" /\ pc' = "publish" /\ obs' = obs
      BY <2>2, WarmGoesOn, SMT
    <2>3. CASE pc' = "idle"
      BY <2>3, WarmElsewhere, SMT
    <2>4. QED
      BY <2>1, <2>2, <2>3
  <1>8. CASE Publish
    BY <1>8, WarmGoesOn, SMT DEF Publish, Publishing
  <1>9. CASE Settle
    <2>1. pc' \in {"idle", "recordOk", "recordUnknown"}
      <3>1. HeldOutcome \/ KeptOutcome \/ LostOutcome
        BY <1>9, SettleFields, Zenon
      <3>2. QED
        BY <3>1, SMT DEF HeldOutcome, KeptOutcome, LostOutcome
    <2>2. QED
      BY <2>1, WarmElsewhere, SMT
  <1>10. CASE RecordMlPause
    BY <1>10, RecordFields, WarmElsewhere, SMT
  <1>11. QED
    BY <1>1, <1>2, <1>3, <1>4, <1>5, <1>6, <1>7, <1>8, <1>9, <1>10, Moves, Zenon

-----------------------------------------------------------------------------
(***************************************************************************)
(* The pause timer and outages.  A resume from the dashboard leaves the     *)
(* timer to the next tick, which drops it unless the watcher is in an       *)
(* outage by then; the ghost resumed tells that timer from a pause's.       *)
(***************************************************************************)

\* The timer runs only for a pause that lasts, and not for a print that is watched.
PauseInv ==
  /\ PauseKept(w)
  /\ pc = "grab" => Untimed(w)

ComesBack ==
  w.state \in Interrupts /\ w.pausedFor # NoTime /\ w'.state \in {"ARMED", "WARMUP"}
    => \/ w'.cooldown = COOLDOWN /\ w'.confirm = 0 /\ w'.marker = "none"
       \/ w.resumed

LEMMA PauseInit == Init => PauseInv
  <1> SUFFICES ASSUME Init PROVE PauseInv
    OBVIOUS
  <1>1. w.pausedFor = NoTime
    BY Zenon DEF Init
  <1>2. QED
    BY <1>1 DEF PauseInv, PauseKept, Untimed

\* A step that leaves the state alone, or moves it to a pause or an outage.
LEMMA StaysAway ==
  ASSUME w'.state = w.state \/ w'.state \in {"PAUSED", "STALLED", "CAMERA_OFFLINE"}
         \/ w.state = "CAMERA_OFFLINE"
  PROVE  ComesBack
  BY SMT DEF ComesBack, Interrupts

LEMMA PauseStep ==
  ASSUME IInv, PauseInv, [Next]_vars
  PROVE  PauseInv' /\ ComesBack
  <1>1. CASE Aside
    <2>1. /\ w'.state \in {w.state, "STALLED"} /\ PauseKept(w') /\ pc' = pc
          /\ Untimed(w) => Untimed(w')
      BY <1>1, AsideFields, SMT DEF Aside, PauseInv
    <2>2. ComesBack
      BY <2>1, StaysAway, SMT
    <2>3. QED
      BY <2>1, <2>2, Zenon DEF PauseInv, PauseKept, Untimed, Held
  <1>2. CASE WebResume
    <2>1. w'.resumed /\ Restarted(w')
      BY <1>2, WebResumeBenign, Zenon
    <2>2. QED
      BY <2>1, Zenon DEF PauseInv, PauseKept, Untimed, ComesBack, Restarted
  <1>3. CASE Prepare \/ Publish
    <2>1. w' = w /\ pc' # "grab"
      BY <1>3, SMT DEF Prepare, Publish, Publishing
    <2>2. ComesBack
      BY <2>1, StaysAway, Zenon
    <2>3. QED
      BY <2>1, <2>2, Zenon DEF PauseInv, PauseKept, Untimed, Held
  <1>4. CASE Update
    <2> DEFINE u == UpdateState(w, obs)
    <2>1. w \in WatcherType /\ Anchored(w) /\ obs \in Status \cup {NoStatus}
      BY Typed
    <2>2. w.state \in Interrupts /\ w.interrupted /\ u.state \in {"ARMED", "WARMUP"} => Restarted(u)
      BY <2>1, UpdateStateEffect, Zenon
    <2>3. /\ Kept(u, w') /\ PauseKept(w')
          /\ pc' = "grab" => Untimed(w')
      BY <1>4, UpdateFields, Zenon DEF PauseInv
    <2> HIDE DEF u
    <2>4. w.state \in Interrupts /\ w.pausedFor # NoTime => w.interrupted \/ w.resumed
      BY SMT DEF PauseInv, PauseKept, Untimed, Held, Interrupts
    <2>5. w'.state = u.state
      BY <2>3 DEF Kept, SameName, SameState
    <2>6. Restarted(u) => Restarted(w')
      BY <2>3, SMT DEF Kept, Benign, Restarted
    <2>7. ComesBack
      BY <2>2, <2>4, <2>5, <2>6, Zenon DEF ComesBack, Restarted
    <2>8. QED
      BY <2>3, <2>7, Zenon DEF PauseInv, PauseKept, Untimed, Held
  <1>5. CASE AutoStop
    <2>1. /\ Kept(w, w') /\ PauseKept(w')
          /\ pc' \in {"grab", "idle"} /\ (pc' = "grab" => Watching(w))
      BY <1>5, AutoStopFields, Zenon DEF PauseInv
    <2>2. w'.state = w.state
      BY <2>1 DEF Kept, SameState
    <2>3. pc' = "grab" => Untimed(w')
      BY <2>1, <2>2, SMT DEF Watching, PauseKept, Held, Interrupts
    <2>4. ComesBack
      BY <2>2, StaysAway, Zenon
    <2>5. QED
      BY <2>1, <2>3, <2>4, Zenon DEF PauseInv
  <1>6. CASE Look
    <2>1. /\ Untimed(w) => Untimed(w')
          /\ w'.state \in {w.state, "CAMERA_OFFLINE"} \/ w.state = "CAMERA_OFFLINE"
          /\ pc = "grab"
      BY <1>6, LookFields, Zenon
    <2>2. Untimed(w')
      BY <2>1, Zenon DEF PauseInv
    <2>3. ComesBack
      BY <2>1, StaysAway, SMT
    <2>4. QED
      BY <2>2, <2>3, Zenon DEF PauseInv, PauseKept, Untimed
  <1>7. CASE Judge \/ RecordMlPause
    <2>1. SameFrame(w, w') /\ pc' \in {"publish", "idle"}
      <3>1. CASE DetectHigh
        BY <3>1, HighFields, SMT
      <3>2. CASE DetectLow
        BY <3>2, LowFields, SMT
      <3>3. CASE DetectError
        BY <3>3, ErrorFields, SMT
      <3>4. CASE RecordMlPause
        BY <3>4, RecordFields, SMT
      <3>5. QED
        BY <1>7, <3>1, <3>2, <3>3, <3>4, Zenon DEF Judge
    <2>2. PauseKept(w')
      BY <2>1, Zenon DEF PauseInv, PauseKept, Untimed, Held, SameFrame, SameName, SameState, SamePause
    <2>3. ComesBack
      BY <2>1, StaysAway, Zenon DEF SameFrame, SameName, SameState
    <2>4. pc' # "grab"
      BY <2>1, SMT
    <2>5. QED
      BY <2>2, <2>3, <2>4, Zenon DEF PauseInv, PauseKept, Untimed, Held
  <1>8. CASE Settle
    <2>1. HeldOutcome \/ KeptOutcome \/ LostOutcome
      BY <1>8, SettleFields, Zenon
    <2>2. pc' # "grab"
      BY <2>1, SMT DEF HeldOutcome, KeptOutcome, LostOutcome
    <2>3. CASE HeldOutcome
      <3>1. w'.state = "PAUSED"
        BY <2>3 DEF HeldOutcome
      <3>2. ComesBack
        BY <3>1, StaysAway, SMT
      <3>3. QED
        BY <2>2, <3>1, <3>2, Zenon DEF PauseInv, PauseKept, Untimed, Held
    <2>4. CASE KeptOutcome \/ LostOutcome
      <3>1. SameState(w, w') /\ SamePause(w, w')
        BY <2>4, Zenon DEF KeptOutcome, LostOutcome, SameFrame, SameName, SameState, SamePause
      <3>2. PauseKept(w')
        BY <3>1, Zenon DEF PauseInv, PauseKept, Untimed, Held, SameState, SamePause
      <3>3. ComesBack
        BY <3>1, StaysAway, Zenon DEF SameState
      <3>4. QED
        BY <2>2, <3>2, <3>3, Zenon DEF PauseInv, PauseKept, Untimed, Held
    <2>5. QED
      BY <2>1, <2>3, <2>4
  <1>9. QED
    BY <1>1, <1>2, <1>3, <1>4, <1>5, <1>6, <1>7, <1>8, Moves, Zenon

-----------------------------------------------------------------------------
(***************************************************************************)
(* The confirm streak and the frames it counts.                            *)
(***************************************************************************)

Voted == Files \cup {NoFile}

\* The last n votes are for this file.
LastAre(s, n, file) == \A i \in DOMAIN s : i > Len(s) - n => s[i] = file

\* The last v.confirm votes are for the job v is on, as far as it has a name.
Streak(v, s) ==
  /\ v.confirm <= Len(s)
  /\ v.curFile # NoFile => LastAre(s, v.confirm, v.curFile)

Confirmed(v, s) ==
  /\ Len(s) = CONFIRM
  /\ v.curFile # NoFile => LastAre(s, CONFIRM, v.curFile)

StreakInv ==
  /\ Len(votes) <= CONFIRM
  /\ Streak(w, votes)
  /\ w.tracked \/ w.confirm = 0
  /\ pc \in {"stop", "grab", "detect"} \cup Publishing => OnJob(w, obs)
  /\ pc \in Publishing /\ attempt = "auto" => Confirmed(w, votes)

LEMMA StreakStays ==
  ASSUME NEW v \in WatcherType, NEW u \in WatcherType, NEW s \in Seq(Voted), Streak(v, s),
         u.confirm = 0 \/ (u.confirm = v.confirm /\ u.curFile = v.curFile)
  PROVE  Streak(u, s)
  <1>1. CASE u.confirm = 0
    BY <1>1, SMT DEF Streak, LastAre
  <1>2. CASE u.confirm = v.confirm /\ u.curFile = v.curFile
    BY <1>2, Zenon DEF Streak
  <1>3. QED
    BY <1>1, <1>2

LEMMA VoteCast ==
  ASSUME NEW s \in Seq(Voted), NEW file \in Voted, NEW n \in Nat, Len(s) <= CONFIRM, n <= Len(s)
  PROVE  LET t == LastVotes(Append(s, file)) IN
         /\ t \in Seq(Voted) /\ Len(t) <= CONFIRM
         /\ n + 1 < CONFIRM => n + 1 <= Len(t)
         /\ n + 1 >= CONFIRM => Len(t) = CONFIRM
         /\ LastAre(s, n, file) => LastAre(t, n + 1, file)
  <1> DEFINE a == Append(s, file)
             t == LastVotes(a)
  <1>1. CONFIRM \in Nat /\ CONFIRM > 0
    BY ConstantsAssumption
  <1>2. /\ a \in Seq(Voted) /\ Len(a) = Len(s) + 1 /\ Len(s) \in Nat
        /\ \A i \in 1..Len(s) : a[i] = s[i]
        /\ a[Len(s) + 1] = file
    OBVIOUS
  <1>3. LastAre(s, n, file) => \A i \in 1..Len(a) : i > Len(a) - (n + 1) => a[i] = file
    BY <1>2, SMT DEF LastAre
  <1> HIDE DEF a
  <1>4. CASE Len(s) < CONFIRM
    <2>1. t = a
      BY <1>1, <1>2, <1>4, SMT DEF LastVotes
    <2> HIDE DEF t
    <2>2. DOMAIN t = 1..Len(a) /\ Len(t) = Len(a)
      BY <1>2, <2>1
    <2>3. /\ t \in Seq(Voted) /\ Len(t) <= CONFIRM
          /\ n + 1 < CONFIRM => n + 1 <= Len(t)
          /\ n + 1 >= CONFIRM => Len(t) = CONFIRM
      BY <1>1, <1>2, <1>4, <2>1, <2>2, SMT
    <2>4. LastAre(s, n, file) => LastAre(t, n + 1, file)
      BY <1>3, <2>1, <2>2, Zenon DEF LastAre
    <2>5. QED
      BY <2>3, <2>4, Zenon DEF a, t
  <1>5. CASE Len(s) = CONFIRM
    <2>1. t = Tail(a)
      BY <1>1, <1>2, <1>5, SMT DEF LastVotes
    <2> HIDE DEF t
    <2>2. /\ t \in Seq(Voted) /\ Len(t) = CONFIRM
          /\ \A i \in 1..CONFIRM : t[i] = a[i + 1]
      BY <1>1, <1>2, <1>5, <2>1, SMT
    <2>3. ASSUME LastAre(s, n, file), NEW i \in 1..CONFIRM, i > CONFIRM - (n + 1)
          PROVE  t[i] = file
      <3>1. i + 1 \in 1..Len(a) /\ i + 1 > Len(a) - (n + 1)
        BY <1>1, <1>2, <1>5, <2>3, SMT
      <3>2. QED
        BY <1>3, <2>2, <2>3, <3>1, Zenon
    <2>4. DOMAIN t = 1..CONFIRM
      BY <2>2
    <2>5. LastAre(s, n, file) => LastAre(t, n + 1, file)
      BY <2>2, <2>3, <2>4, Zenon DEF LastAre
    <2>6. /\ Len(t) <= CONFIRM
          /\ n + 1 < CONFIRM => n + 1 <= Len(t)
          /\ n + 1 >= CONFIRM => Len(t) = CONFIRM
      BY <1>1, <2>2, SMT
    <2>7. QED
      BY <2>2, <2>5, <2>6, Zenon DEF a, t
  <1>6. QED
    BY <1>1, <1>2, <1>4, <1>5, SMT

LEMMA StreakInit == Init => StreakInv
  <1> SUFFICES ASSUME Init PROVE StreakInv
    OBVIOUS
  <1>1. w.confirm = 0 /\ votes = << >> /\ pc = "idle"
    BY Zenon DEF Init
  <1>2. Len(votes) <= CONFIRM /\ Streak(w, votes)
    BY <1>1, ConstantsAssumption, SMT DEF Streak, LastAre
  <1>3. QED
    BY <1>1, <1>2, SMT DEF StreakInv, Publishing

\* Nothing is left to count.
LEMMA NoHits ==
  ASSUME votes' = << >>, w'.confirm = 0
  PROVE  Len(votes') <= CONFIRM /\ Streak(w', votes')
  BY ConstantsAssumption, SMT DEF Streak, LastAre

\* A step that judges no frame, and starts no other job while one is counted.
LEMMA StreakGoesOn ==
  ASSUME IInv, StreakInv, [Next]_vars,
         votes' = votes \/ (votes' = << >> /\ w'.confirm = 0),
         SameHits(w, w')
  PROVE  Len(votes') <= CONFIRM /\ Streak(w', votes') /\ (w'.tracked \/ w'.confirm = 0)
  <1>1. w \in WatcherType /\ w' \in WatcherType
    BY Typed, NextIInv, Zenon DEF IInv, TypeOK
  <1>2. votes \in Seq(Voted)
    BY Zenon DEF IInv, TypeOK, Voted
  <1>3. w.tracked \/ w.confirm = 0
    BY DEF StreakInv
  <1>4. w'.tracked \/ w'.confirm = 0
    BY <1>3, Zenon DEF SameHits
  <1>5. w'.confirm = 0 \/ (w'.confirm = w.confirm /\ w'.curFile = w.curFile)
    BY <1>3, Zenon DEF SameHits
  <1>6. CASE votes' = votes
    <2>1. Streak(w', votes)
      BY <1>1, <1>2, <1>5, StreakStays, Zenon DEF StreakInv
    <2>2. QED
      BY <1>4, <1>6, <2>1, Zenon DEF StreakInv
  <1>7. CASE votes' = << >> /\ w'.confirm = 0
    BY <1>4, <1>7, NoHits, Zenon
  <1>8. QED
    BY <1>6, <1>7

\* Helpers that keep the job keep its hits or end the streak.
LEMMA NameKeepsHits ==
  ASSUME NEW v, NEW u, SameName(v, u), u.confirm \in {v.confirm, 0}
  PROVE  SameHits(v, u)
  BY SMT DEF SameHits, SameName

LEMMA StreakElsewhere ==
  ASSUME Len(votes') <= CONFIRM, Streak(w', votes'), w'.tracked \/ w'.confirm = 0,
         pc' \notin {"stop", "grab", "detect"} \cup Publishing
  PROVE  StreakInv'
  BY SMT DEF StreakInv, Publishing

\* The tick goes on with the same status, and publishes no detection's pause.
LEMMA StreakWatches ==
  ASSUME Len(votes') <= CONFIRM, Streak(w', votes'), w'.tracked \/ w'.confirm = 0,
         OnJob(w', obs'), pc' \notin Publishing \/ attempt' # "auto"
  PROVE  StreakInv'
  BY Zenon DEF StreakInv

LEMMA SameNameOnJob ==
  ASSUME NEW v, NEW u, NEW status, SameName(v, u), OnJob(v, status)
  PROVE  OnJob(u, status)
  BY Zenon DEF SameName, OnJob

LEMMA HighStep ==
  ASSUME IInv, StreakInv, DetectHigh
  PROVE  StreakInv'
  <1> DEFINE t == LastVotes(Append(votes, obs.file))
             n == w.confirm
  <1>1. /\ pc = "detect" /\ SameName(w, w') /\ votes' = t
        /\ \/ /\ n + 1 >= CONFIRM /\ w'.confirm = 0
              /\ pc' = "publish" /\ attempt' = "auto" /\ obs' = obs
           \/ /\ n + 1 < CONFIRM /\ w'.confirm = n + 1
              /\ pc' = "idle"
    BY HighFields, Zenon DEF SameFrame
  <1>2. OnJob(w, obs) /\ obs.file \in Voted
    <2>1. OnJob(w, obs)
      BY <1>1, SMT DEF StreakInv
    <2>2. obs \in Status
      BY <1>1, SMT DEF IInv, StatusHeld
    <2>3. QED
      BY <2>1, <2>2, StatusTypes, Zenon DEF Voted
  <1>3. votes \in Seq(Voted) /\ n \in 0..CONFIRM
    BY Typed, FieldTypes, Zenon DEF IInv, TypeOK, Voted
  <1>4. n \in Nat /\ CONFIRM \in Nat
    BY <1>3, ConstantsAssumption, SMT
  <1>5. Len(votes) <= CONFIRM /\ n <= Len(votes)
    BY Zenon DEF StreakInv, Streak
  <1>6. /\ t \in Seq(Voted) /\ Len(t) <= CONFIRM
        /\ n + 1 < CONFIRM => n + 1 <= Len(t)
        /\ n + 1 >= CONFIRM => Len(t) = CONFIRM
        /\ LastAre(votes, n, obs.file) => LastAre(t, n + 1, obs.file)
    BY <1>2, <1>3, <1>4, <1>5, VoteCast, Zenon
  <1>7. w.curFile # NoFile => obs.file = w.curFile /\ LastAre(votes, n, obs.file)
    BY <1>2, Zenon DEF OnJob, StreakInv, Streak
  <1>8. w'.curFile # NoFile => LastAre(t, n + 1, w'.curFile)
    BY <1>1, <1>6, <1>7, Zenon DEF SameName
  <1>9. w'.tracked
    BY <1>1, <1>2, Zenon DEF OnJob, SameName
  <1> HIDE DEF t, n
  <1>10. CASE n + 1 >= CONFIRM /\ w'.confirm = 0
              /\ pc' = "publish" /\ attempt' = "auto" /\ obs' = obs
    <2>1. Streak(w', votes')
      BY <1>1, <1>6, <1>10, SMT DEF Streak, LastAre
    <2>2. LastAre(t, n + 1, w'.curFile) => LastAre(t, CONFIRM, w'.curFile)
      BY <1>4, <1>6, <1>10, SMT DEF LastAre
    <2>3. Confirmed(w', votes')
      BY <1>1, <1>6, <1>8, <1>10, <2>2, Zenon DEF Confirmed
    <2>4. OnJob(w', obs') /\ Len(votes') <= CONFIRM
      BY <1>1, <1>2, <1>6, <1>10, SameNameOnJob, Zenon
    <2>5. QED
      BY <1>9, <2>1, <2>3, <2>4, Zenon DEF StreakInv
  <1>11. CASE n + 1 < CONFIRM /\ w'.confirm = n + 1 /\ pc' = "idle"
    <2>1. Streak(w', votes') /\ Len(votes') <= CONFIRM
      BY <1>1, <1>6, <1>8, <1>11, Zenon DEF Streak
    <2>2. QED
      BY <1>9, <1>11, <2>1, StreakElsewhere, SMT DEF Publishing
  <1>12. QED
    BY <1>1, <1>10, <1>11, Zenon

LEMMA StreakStep ==
  ASSUME IInv, StreakInv, [Next]_vars
  PROVE  StreakInv'
  <1>1. CASE Aside \/ WebResume
    <2>1. /\ SameName(w, w') /\ w'.confirm \in {w.confirm, 0}
          /\ UNCHANGED <<pc, obs, attempt>>
      BY <1>1, AsideFields, WebResumeBenign, SMT DEF Benign, Aside
    <2>2. /\ votes' = votes \/ (votes' = << >> /\ w'.confirm = 0)
          /\ pc \in Publishing /\ attempt = "auto" => votes' = votes
      BY <1>1, WebResumeBenign, SMT DEF Aside, Restarted
    <2>3. Len(votes') <= CONFIRM /\ Streak(w', votes') /\ (w'.tracked \/ w'.confirm = 0)
      BY <2>1, <2>2, NameKeepsHits, StreakGoesOn, Zenon
    <2>4. OnJob(w, obs) => OnJob(w', obs')
      BY <2>1, SameNameOnJob, SMT
    <2>5. Confirmed(w, votes) => Confirmed(w', votes)
      BY <2>1, Zenon DEF Confirmed, SameName
    <2>6. pc' = pc /\ attempt' = attempt
      BY <2>1
    <2>7. QED
      BY <2>2, <2>3, <2>4, <2>5, <2>6, SMT DEF StreakInv
  <1>2. CASE Prepare
    <2>1. w' = w /\ votes' = votes /\ pc' \notin {"stop", "grab", "detect"} \cup Publishing
      BY <1>2, SMT DEF Prepare, Publishing
    <2>2. Len(votes') <= CONFIRM /\ Streak(w', votes') /\ (w'.tracked \/ w'.confirm = 0)
      BY <2>1, Zenon DEF StreakInv
    <2>3. QED
      BY <2>1, <2>2, StreakElsewhere, Zenon
  <1>3. CASE Update
    <2> DEFINE u == UpdateState(w, obs)
    <2>1. w \in WatcherType /\ Anchored(w) /\ obs \in Status \cup {NoStatus}
      BY Typed
    <2>2. /\ SameHits(w, u)
          /\ Watching(u) \/ u.state = "PAUSED" => OnJob(u, obs)
      BY <2>1, UpdateStateEffect, Zenon
    <2>3. /\ Kept(u, w') /\ pc' \in {"stop", "grab", "idle"}
          /\ votes' = votes \/ (votes' = << >> /\ u.confirm = 0)
          /\ pc' \in {"stop", "grab"} => (Watching(u) \/ u.state = "PAUSED") /\ obs' = obs
      <3>1. /\ Kept(u, w') /\ pc' \in {"stop", "grab", "idle"}
            /\ votes' = votes \/ (votes' = << >> /\ u.confirm = 0)
            /\ pc' = "stop" => AutoStopDue(u) /\ obs' = obs
            /\ pc' = "grab" => Watching(u) /\ obs' = obs
        BY <1>3, UpdateFields, Zenon
      <3>2. QED
        BY <3>1, SMT DEF AutoStopDue
    <2> HIDE DEF u
    <2>4. SameName(u, w') /\ w'.confirm \in {u.confirm, 0}
      BY <2>3, Zenon DEF Kept, Benign
    <2>5. SameHits(w, w')
      BY <2>2, <2>4, SMT DEF SameHits, SameName
    <2>6. votes' = votes \/ (votes' = << >> /\ w'.confirm = 0)
      BY <2>3, <2>4, SMT
    <2>7. Len(votes') <= CONFIRM /\ Streak(w', votes') /\ (w'.tracked \/ w'.confirm = 0)
      BY <2>5, <2>6, StreakGoesOn, Zenon
    <2>8. CASE pc' \in {"stop", "grab"}
      <3>1. OnJob(w', obs')
        BY <2>2, <2>3, <2>4, <2>8, SameNameOnJob, Zenon
      <3>2. pc' \notin Publishing
        BY <2>8, SMT DEF Publishing
      <3>3. QED
        BY <2>7, <3>1, <3>2, StreakWatches, Zenon
    <2>9. CASE pc' = "idle"
      BY <2>7, <2>9, StreakElsewhere, SMT DEF Publishing
    <2>10. QED
      BY <2>3, <2>8, <2>9, SMT
  <1>4. CASE AutoStop
    <2>1. /\ Kept(w, w') /\ votes' = votes
          /\ pc' \in {"grab", "idle"} /\ (pc' = "grab" => obs' = obs)
      BY <1>4, AutoStopFields, Zenon
    <2>2. SameName(w, w') /\ w'.confirm \in {w.confirm, 0}
      BY <2>1, Zenon DEF Kept, Benign
    <2>3. Len(votes') <= CONFIRM /\ Streak(w', votes') /\ (w'.tracked \/ w'.confirm = 0)
      BY <2>1, <2>2, NameKeepsHits, StreakGoesOn, Zenon
    <2>4. OnJob(w', obs)
      <3>1. pc = "stop"
        BY <1>4, Zenon DEF AutoStop
      <3>2. OnJob(w, obs)
        BY <3>1, SMT DEF StreakInv
      <3>3. QED
        BY <2>2, <3>2, SameNameOnJob, Zenon
    <2>5. CASE pc' = "grab"
      <3>1. pc' \notin Publishing
        BY <2>5, SMT DEF Publishing
      <3>2. QED
        BY <2>1, <2>3, <2>4, <2>5, <3>1, StreakWatches, Zenon
    <2>6. CASE pc' = "idle"
      BY <2>3, <2>6, StreakElsewhere, SMT DEF Publishing
    <2>7. QED
      BY <2>1, <2>5, <2>6, SMT
  <1>5. CASE Look
    <2>1. /\ Benign(w, w') /\ SameName(w, w') /\ pc = "grab"
          /\ votes' = votes \/ (votes' = << >> /\ w'.confirm = 0)
          /\ (pc' = "detect" /\ obs' = obs) \/ pc' = "idle"
      BY <1>5, LookFields, Zenon
    <2>2. w'.confirm \in {w.confirm, 0}
      BY <2>1, Zenon DEF Benign
    <2>3. Len(votes') <= CONFIRM /\ Streak(w', votes') /\ (w'.tracked \/ w'.confirm = 0)
      BY <2>1, <2>2, NameKeepsHits, StreakGoesOn, Zenon
    <2>4. CASE pc' = "detect" /\ obs' = obs
      <3>1. OnJob(w, obs)
        BY <2>1, SMT DEF StreakInv
      <3>2. OnJob(w', obs')
        BY <2>1, <2>4, <3>1, SameNameOnJob, Zenon
      <3>3. pc' \notin Publishing
        BY <2>4, SMT DEF Publishing
      <3>4. QED
        BY <2>3, <3>2, <3>3, StreakWatches, Zenon
    <2>5. CASE pc' = "idle"
      BY <2>3, <2>5, StreakElsewhere, SMT DEF Publishing
    <2>6. QED
      BY <2>1, <2>4, <2>5
  <1>6. CASE DetectHigh
    BY <1>6, HighStep, Zenon
  <1>7. CASE DetectLow
    <2>1. w'.confirm = 0 /\ votes' = << >> /\ pc' = "idle"
      BY <1>7, LowFields, Zenon DEF Fresh
    <2>2. QED
      BY <2>1, NoHits, StreakElsewhere, SMT DEF Publishing
  <1>8. CASE DetectError
    <2>1. /\ SameFrame(w, w') /\ w'.confirm = w.confirm /\ votes' = votes /\ pc = "detect"
          /\ (pc' = "publish" /\ attempt' = "ml_failure" /\ obs' = obs) \/ pc' = "idle"
      BY <1>8, ErrorFields, Zenon
    <2>2. SameName(w, w') /\ w'.confirm \in {w.confirm, 0}
      BY <2>1, SMT DEF SameFrame
    <2>3. Len(votes') <= CONFIRM /\ Streak(w', votes') /\ (w'.tracked \/ w'.confirm = 0)
      BY <2>1, <2>2, NameKeepsHits, StreakGoesOn, Zenon
    <2>4. CASE pc' = "publish" /\ attempt' = "ml_failure" /\ obs' = obs
      <3>1. OnJob(w, obs)
        BY <2>1, SMT DEF StreakInv
      <3>2. OnJob(w', obs')
        BY <2>2, <2>4, <3>1, SameNameOnJob, Zenon
      <3>3. attempt' # "auto"
        BY <2>4, SMT
      <3>4. QED
        BY <2>3, <3>2, <3>3, StreakWatches, Zenon
    <2>5. CASE pc' = "idle"
      BY <2>3, <2>5, StreakElsewhere, SMT DEF Publishing
    <2>6. QED
      BY <2>1, <2>4, <2>5
  <1>9. CASE Publish
    <2>1. UNCHANGED <<obs, attempt, w, votes>> /\ pc \in Publishing /\ pc' \in Publishing
      BY <1>9 DEF Publish
    <2>2. obs' = obs /\ attempt' = attempt /\ w' = w /\ votes' = votes
      BY <2>1
    <2>3. OnJob(w, obs) /\ (attempt = "auto" => Confirmed(w, votes))
      BY <2>1, SMT DEF StreakInv
    <2>4. QED
      BY <2>1, <2>2, <2>3, Zenon DEF StreakInv, OnJob, Streak, Confirmed
  <1>10. CASE Settle
    <2>1. pc \in Publishing /\ votes' = votes
      BY <1>10 DEF Settle
    <2>2. HeldOutcome \/ KeptOutcome \/ LostOutcome
      BY <1>10, SettleFields, Zenon
    <2>3. pc' \notin {"stop", "grab", "detect"} \cup Publishing
      BY <2>2, SMT DEF HeldOutcome, KeptOutcome, LostOutcome, Publishing
    <2>4. Len(votes') <= CONFIRM /\ Streak(w', votes') /\ (w'.tracked \/ w'.confirm = 0)
      <3>1. CASE HeldOutcome \/ LostOutcome
        <4>1. SameName(w, w') /\ w'.confirm = w.confirm
          BY <3>1, Zenon DEF HeldOutcome, LostOutcome, SameName
        <4>2. SameHits(w, w')
          BY <4>1, NameKeepsHits, SMT
        <4>3. QED
          BY <2>1, <4>2, StreakGoesOn, Zenon
      <3>2. CASE KeptOutcome
        <4>1. attempt = "auto" /\ w'.confirm = CONFIRM /\ SameName(w, w')
          BY <3>2, Zenon DEF KeptOutcome, SameFrame
        <4>2. Confirmed(w, votes) /\ OnJob(w, obs)
          BY <2>1, <4>1, SMT DEF StreakInv
        <4>3. CONFIRM <= CONFIRM
          BY ConstantsAssumption, SMT
        <4>4. w'.tracked
          BY <4>1, <4>2, Zenon DEF OnJob, SameName
        <4>5. QED
          BY <2>1, <4>1, <4>2, <4>3, <4>4, Zenon DEF Streak, Confirmed, SameName
      <3>3. QED
        BY <2>2, <3>1, <3>2
    <2>5. QED
      BY <2>3, <2>4, StreakElsewhere, Zenon
  <1>11. CASE RecordMlPause
    <2>1. /\ pc' = "idle" /\ votes' = votes /\ SameFrame(w, w')
          /\ w'.confirm = 0 \/ w'.confirm = w.confirm
      BY <1>11, RecordFields, Zenon
    <2>2. SameName(w, w') /\ w'.confirm \in {w.confirm, 0}
      BY <2>1, SMT DEF SameFrame
    <2>3. Len(votes') <= CONFIRM /\ Streak(w', votes') /\ (w'.tracked \/ w'.confirm = 0)
      BY <2>1, <2>2, NameKeepsHits, StreakGoesOn, Zenon
    <2>4. QED
      BY <2>1, <2>3, StreakElsewhere, SMT DEF Publishing
  <1>12. QED
    BY <1>1, <1>2, <1>3, <1>4, <1>5, <1>6, <1>7, <1>8, <1>9, <1>10, <1>11, Moves,
       Zenon DEF Judge

LEMMA StreakConfirms ==
  ASSUME IInv, StreakInv
  PROVE  PauseNeedsConfirmedStreak
  <1> SUFFICES ASSUME pc = "publish" /\ attempt = "auto"
               PROVE  /\ Len(votes) = CONFIRM
                      /\ w.curFile # NoFile => \A i \in DOMAIN votes : votes[i] = obs.file
    BY Zenon DEF PauseNeedsConfirmedStreak
  <1>1. Confirmed(w, votes) /\ OnJob(w, obs)
    BY SMT DEF StreakInv, Publishing
  <1>2. votes \in Seq(Voted)
    BY Zenon DEF IInv, TypeOK, Voted
  <1>3. \A i \in DOMAIN votes : i > Len(votes) - CONFIRM
    BY <1>1, <1>2, ConstantsAssumption, SMT DEF Confirmed
  <1>4. QED
    BY <1>1, <1>3, Zenon DEF Confirmed, OnJob, LastAre

-----------------------------------------------------------------------------
(***************************************************************************)
(* The properties, read from the invariants.                               *)
(***************************************************************************)

\* Alerts are muted only while a pause or a call for one is still owed: no order of
\* resets, outages, retries and operator commands leaves a new episode silent.
THEOREM AlertsAreNotMuted == Spec => []SilentOnlyAsRetry
  <1>1. Init => AlertInv
    BY AlertInit
  <1>2. IInv /\ AlertInv /\ [Next]_vars => AlertInv'
    BY AlertStep
  <1>3. IInv /\ AlertInv => SilentOnlyAsRetry
    <2> SUFFICES ASSUME IInv, AlertInv, pc = "idle", w.state = "ARMED"
                 PROVE  /\ w.pauseAlerted => w.confirm = CONFIRM
                        /\ w.mlAlerted => w.mlErr = ML_THRESHOLD
      BY DEF SilentOnlyAsRetry
    <2>1. ~Held(w)
      BY SMT DEF Held, Interrupts
    <2>2. pc \notin Publishing
      BY SMT DEF Publishing
    <2>3. QED
      BY <2>1, <2>2, Zenon DEF AlertInv, MutedWhileDown, StreakKept
  <1>4. QED
    BY <1>1, <1>2, <1>3, Inductive, PTL DEF Spec

\* While the ML service is down and the operator did not opt in, nothing the watcher
\* adopts, retries or attributes to itself ever becomes an automatic stop.
THEOREM OutagesDoNotStop == Spec => []MlOutageNeverStops
  <1>1. CASE OnlyOutages
    <2>1. Init => OutageInv
      BY OutageInit
    <2>2. IInv /\ OutageInv /\ [Next]_vars => OutageInv'
      BY <1>1, OutageStep
    <2>3. OutageInv => MlOutageNeverStops
      BY DEF OutageInv, MlOutageNeverStops
    <2>4. QED
      BY <2>1, <2>2, <2>3, Inductive, PTL DEF Spec
  <1>2. CASE ~OnlyOutages
    <2>1. MlOutageNeverStops
      BY <1>2 DEF OnlyOutages, MlOutageNeverStops
    <2>2. QED
      BY <2>1, PTL
  <1>3. QED
    BY <1>1, <1>2

LEMMA WarmInvariant ==
  ASSUME AUTO_STOP = 0 \/ NoWebResume
  PROVE  Spec => []WarmInv
  <1>1. Init => WarmInv
    BY WarmInit
  <1>2. IInv /\ WarmInv /\ [Next]_vars => WarmInv'
    BY WarmStep
  <1>3. QED
    BY <1>1, <1>2, Inductive, PTL DEF Spec

\* Frames are grabbed, scored and acted on only for a print that this tick's status
\* showed printing and warm.  With automatic stops on, a resume through the web while
\* one is awaited breaks it, which is why that pair is excluded.
THEOREM OnlyWarmPrintsAreScored ==
  ASSUME AUTO_STOP = 0 \/ NoWebResume
  PROVE  Spec => []FramesOnlyFromWarmPrints
  <1>1. WarmInv => FramesOnlyFromWarmPrints
    BY DEF WarmInv
  <1>2. QED
    BY <1>1, WarmInvariant, PTL

\* A detection pause is published only after CONFIRM high frames in a row, and if the
\* print's job was recorded with a name all of them are of it: no change of job,
\* outage, retry of a failed pause, lost frame or operator command adds a hit.
THEOREM PauseIsConfirmed == Spec => []PauseNeedsConfirmedStreak
  <1>1. Init => StreakInv
    BY StreakInit
  <1>2. IInv /\ StreakInv /\ [Next]_vars => StreakInv'
    BY StreakStep
  <1>3. IInv /\ StreakInv => PauseNeedsConfirmedStreak
    BY StreakConfirms
  <1>4. QED
    BY <1>1, <1>2, <1>3, Inductive, PTL DEF Spec

\* Coming back to detection after an outage that hit a pause starts the cooldown with a
\* fresh streak and no adoption marker, unless the operator had resumed that print
\* before the outage: while the timer of a pause runs, the watcher is in PAUSED or
\* remembers that an outage interrupted it.
THEOREM OutageResumeCoolsDown == Spec => ResumeAfterOutageCoolsDown
  <1>1. Init => PauseInv
    BY PauseInit
  <1>2. IInv /\ PauseInv /\ [Next]_vars => PauseInv' /\ ComesBack
    BY PauseStep
  <1>3. Spec => [][ComesBack]_vars
    BY <1>1, <1>2, Inductive, PTL DEF Spec
  <1>4. QED
    BY <1>3, PTL DEF ResumeAfterOutageCoolsDown, ComesBack
=============================================================================
