------------------------------ MODULE Frames_proofs ------------------------------
(***************************************************************************)
(* Proofs about Frames, for any number of readers, viewers, cameras and     *)
(* places: a grab returns no frame of a failed or a former connection, and  *)
(* no viewer is left waiting for nobody.                                   *)
(***************************************************************************)
EXTENDS Frames, TLAPS

Tasks == [at : Ended \cup {"new", "connecting", "streaming", "yielded", "backoff", "sleep"},
          cam : Cameras]
Grabs == [at : {"idle", "waiting", "frame"}, asked : Cameras, frame : Cameras \cup {NoFrame}]
Waiting == [Idle EXCEPT !.at = "waiting", !.asked = url]
Given == [Idle EXCEPT !.at = "frame", !.frame = latest]

ReaderTyped ==
  /\ url \in Cameras /\ task \in Tasks /\ latest \in Cameras \cup {NoFrame}
  /\ grab \in [Readers -> Grabs]

ReadsCurrent == Running => task.cam = url

\* A frame that is kept is of a connection that lives, or of a former camera whose task
\* has been cancelled.
LatestIsLive ==
  latest # NoFrame =>
    /\ latest <= url
    /\ Running => latest = url
    /\ latest = url => task.at \in {"streaming", "yielded"}

\* Who waits asked for the current camera or a former one, and for the one a frame is of
\* or one before it.
WaitersAsked ==
  \A r \in Readers : grab[r].at = "waiting" =>
    grab[r].asked <= url /\ (latest # NoFrame => grab[r].asked <= latest)

ReaderInv == ReaderTyped /\ ReadsCurrent /\ LatestIsLive /\ WaitersAsked

-----------------------------------------------------------------------------
(***************************************************************************)
(* Records.                                                                *)
(***************************************************************************)

LEMMA CameraRange ==
  /\ Cameras \subseteq Nat /\ 1 \in Cameras /\ NoFrame \notin Cameras
  /\ url \in Cameras /\ url < MAX_URL => url + 1 \in Cameras /\ url + 1 > url
  <1>1. MAX_URL \in Nat \ {0} /\ NoFrame \notin 1..MAX_URL
    BY FramesAssumption
  <1>2. QED
    BY <1>1, SMT DEF Cameras

LEMMA TaskFields ==
  ASSUME NEW at \in Ended \cup {"new", "connecting", "streaming", "yielded", "backoff", "sleep"},
         NEW cam \in Cameras, NEW t \in Tasks
  PROVE  /\ [at |-> at, cam |-> cam] \in Tasks
         /\ [at |-> at, cam |-> cam].at = at /\ [at |-> at, cam |-> cam].cam = cam
         /\ [t EXCEPT !.at = at] \in Tasks
         /\ [t EXCEPT !.at = at].at = at /\ [t EXCEPT !.at = at].cam = t.cam
  <1>1. /\ [at |-> at, cam |-> cam] \in Tasks
        /\ [at |-> at, cam |-> cam].at = at /\ [at |-> at, cam |-> cam].cam = cam
    BY SMT DEF Tasks
  <1>2. [t EXCEPT !.at = at] \in Tasks
    BY Zenon DEF Tasks
  <1>3. [t EXCEPT !.at = at].at = at /\ [t EXCEPT !.at = at].cam = t.cam
    BY Zenon DEF Tasks
  <1>4. QED
    BY <1>1, <1>2, <1>3

LEMMA IdleFields ==
  Idle \in Grabs /\ Idle.at = "idle"
  BY CameraRange, SMT DEF Idle, Grabs

LEMMA WaitingFields ==
  ASSUME url \in Cameras
  PROVE  Waiting \in Grabs /\ Waiting.at = "waiting" /\ Waiting.asked = url
  <1>1. Idle \in Grabs /\ "waiting" \in {"idle", "waiting", "frame"}
    BY IdleFields
  <1>2. QED
    BY <1>1, Zenon DEF Waiting, Grabs

LEMMA GivenFields ==
  ASSUME latest \in Cameras \cup {NoFrame}
  PROVE  Given \in Grabs /\ Given.at = "frame" /\ Given.frame = latest
  <1>1. Idle \in Grabs /\ "frame" \in {"idle", "waiting", "frame"}
    BY IdleFields
  <1>2. QED
    BY <1>1, Zenon DEF Given, Grabs

\* One reader moves on, the others stay where they are.
LEMMA GrabUpdate ==
  ASSUME NEW r \in Readers, grab \in [Readers -> Grabs], NEW g \in Grabs,
         grab' = [grab EXCEPT ![r] = g]
  PROVE  /\ grab' \in [Readers -> Grabs] /\ grab'[r] = g
         /\ \A s \in Readers : s # r => grab'[s] = grab[s]
  BY Zenon

-----------------------------------------------------------------------------
(***************************************************************************)
(* What a step is to the readers.                                          *)
(***************************************************************************)

\* A grab ends with the frame that is kept, or without one, or starts to wait while there
\* is none.
Reads ==
  /\ UNCHANGED <<url, task, latest>>
  /\ \E r \in Readers :
       \/ grab' = [grab EXCEPT ![r] = Idle]
       \/ latest = NoFrame /\ grab' = [grab EXCEPT ![r] = Waiting]
       \/ /\ grab[r].at = "waiting" \/ Running
          /\ latest # NoFrame
          /\ grab' = [grab EXCEPT ![r] = Given]

Starts ==
  /\ Start /\ url' = url
  /\ grab' = grab \/ \E r \in Readers : grab' = [grab EXCEPT ![r] = Waiting]

\* The task moves, and keeps a frame only while it streams.
Streams ==
  /\ url' = url /\ grab' = grab /\ task' \in Tasks
  /\ Running /\ (task'.at \notin Ended => task'.cam = url)
  /\ \/ latest' = NoFrame
     \/ latest' = latest /\ task'.at \in {"streaming", "yielded"}
     \/ latest' = url /\ task'.at = "yielded"

Forgets == UNCHANGED <<url, task, grab>> /\ latest' \in {latest, NoFrame}

Renews == url < MAX_URL /\ url' = url + 1 /\ task' = NoTask /\ UNCHANGED <<latest, grab>>

LEMMA TaskMoves ==
  ASSUME ReaderInv, TaskStep
  PROVE  Streams
  <1>1. url \in Cameras /\ task \in Tasks /\ latest \in Cameras \cup {NoFrame}
    BY DEF ReaderInv, ReaderTyped
  <1>2. url' = url /\ grab' = grab
    BY SMT DEF TaskStep, Attempt, Connected, Refused, Frame, Resume, Fail, Overflow, clientVars
  <1>3. Running /\ task.cam = url
    <2>1. task.at \in {"new", "backoff", "sleep", "connecting", "streaming", "yielded"}
      BY SMT DEF TaskStep, Attempt, Connected, Refused, Frame, Resume, Fail, Overflow
    <2>2. Running
      BY <2>1, SMT DEF Running, Ended
    <2>3. QED
      BY <2>2, Zenon DEF ReaderInv, ReadsCurrent
  <1>4. latest # NoFrame => task.at \in {"streaming", "yielded"}
    BY <1>3, Zenon DEF ReaderInv, LatestIsLive
  <1>5. \A at \in Ended \cup {"new", "connecting", "streaming", "yielded", "backoff", "sleep"} :
          /\ [at |-> at, cam |-> url] \in Tasks
          /\ [at |-> at, cam |-> url].at = at /\ [at |-> at, cam |-> url].cam = url
          /\ [task EXCEPT !.at = at] \in Tasks
          /\ [task EXCEPT !.at = at].at = at /\ [task EXCEPT !.at = at].cam = url
    BY <1>1, <1>3, TaskFields, Zenon
  <1> DEFINE To(at) == [task EXCEPT !.at = at]
  <1>6. \A at \in {"done", "failed", "streaming", "yielded", "backoff", "sleep"} :
          To(at) \in Tasks /\ To(at).at = at /\ To(at).cam = url
    BY <1>5, SMT DEF Ended
  <1>7. CASE Attempt
    <2>1. task' = [at |-> "connecting", cam |-> url] /\ latest' = latest
          /\ task.at \in {"new", "backoff", "sleep"}
      BY <1>7, Zenon DEF Attempt
    <2>2. latest' = NoFrame
      BY <1>4, <2>1, SMT
    <2>3. "connecting" \in Ended \cup {"new", "connecting", "streaming", "yielded", "backoff", "sleep"}
      OBVIOUS
    <2>4. task' \in Tasks /\ task'.cam = url
      BY <1>5, <2>1, <2>3, Zenon
    <2>5. QED
      BY <1>2, <1>3, <2>2, <2>4, Zenon DEF Streams
  <1> HIDE DEF To
  <1>8. CASE Connected \/ Resume
    <2>1. \/ task' = To("streaming") /\ latest' = latest
          \/ task' = To("done") /\ latest' = NoFrame
      BY <1>8, Zenon DEF Connected, Resume, To
    <2>2. QED
      BY <1>2, <1>3, <1>6, <2>1, SMT DEF Streams
  <1>9. CASE Frame
    <2>1. task' = To("yielded") /\ latest' = url
      BY <1>3, <1>9, Zenon DEF Frame, To
    <2>2. QED
      BY <1>2, <1>3, <1>6, <2>1, SMT DEF Streams
  <1>10. CASE Refused \/ Fail \/ Overflow
    <2>1. latest' = NoFrame /\ \/ task' = To("sleep")
                               \/ task' = To("failed")
                               \/ task' = To("backoff")
      BY <1>10, Zenon DEF Refused, Fail, Overflow, To
    <2>2. QED
      BY <1>2, <1>3, <1>6, <2>1, SMT DEF Streams
  <1>11. QED
    BY <1>7, <1>8, <1>9, <1>10, Zenon DEF TaskStep

LEMMA ReaderMoves ==
  ASSUME ReaderInv, NEW r \in Readers, ReaderStep(r)
  PROVE  Reads \/ Starts
  <1>1. url' = url
    BY SMT DEF ReaderStep, GrabStarts, GrabJoins, Poll, GrabTimeout, Use, clientVars
  <1>2. CASE GrabStarts(r)
    BY <1>1, <1>2, Zenon DEF GrabStarts, Starts, Waiting
  <1>3. ASSUME Conclude(r), latest # NoFrame \/ exc, grab[r].at = "waiting" \/ Running, task' = task
        PROVE  Reads
    <2>1. latest' = latest /\ (grab' = [grab EXCEPT ![r] = Idle]
                               \/ (latest # NoFrame /\ grab' = [grab EXCEPT ![r] = Given]))
      BY <1>3, Zenon DEF Conclude, Error, Given
    <2>2. UNCHANGED <<url, task, latest>>
      BY <1>1, <1>3, <2>1
    <2>3. QED
      BY <1>3, <2>1, <2>2, Zenon DEF Reads
  <1>4. CASE GrabJoins(r)
    <2>1. task' = task /\ Running
      BY <1>4, Zenon DEF GrabJoins
    <2>2. \/ Conclude(r) /\ (latest # NoFrame \/ exc)
          \/ latest = NoFrame /\ latest' = latest /\ grab' = [grab EXCEPT ![r] = Waiting]
      BY <1>4, SMT DEF GrabJoins, Waiting
    <2>3. CASE latest = NoFrame /\ latest' = latest /\ grab' = [grab EXCEPT ![r] = Waiting]
      <3>1. UNCHANGED <<url, task, latest>>
        BY <1>1, <2>1, <2>3
      <3>2. QED
        BY <2>3, <3>1, Zenon DEF Reads
    <2>4. QED
      BY <1>3, <2>1, <2>2, <2>3, Zenon
  <1>5. ASSUME UNCHANGED <<task, latest>>, grab' = [grab EXCEPT ![r] = Idle]
        PROVE  Reads
    <2>1. UNCHANGED <<url, task, latest>>
      BY <1>1, <1>5
    <2>2. QED
      BY <1>5, <2>1, Zenon DEF Reads
  <1>6. CASE Poll(r)
    <2>1. grab[r].at = "waiting" /\ task' = task
      BY <1>6, Zenon DEF Poll
    <2>2. \/ Conclude(r) /\ (latest # NoFrame \/ exc)
          \/ latest' = latest /\ grab' = [grab EXCEPT ![r] = Idle]
      BY <1>6, SMT DEF Poll, Error
    <2>3. QED
      BY <1>3, <1>5, <2>1, <2>2
  <1>7. CASE GrabTimeout(r) \/ Use(r)
    <2>1. UNCHANGED <<task, latest>> /\ grab' = [grab EXCEPT ![r] = Idle]
      BY <1>7, SMT DEF GrabTimeout, Use, Error, taskVars
    <2>2. QED
      BY <1>5, <2>1
  <1>8. QED
    BY <1>2, <1>4, <1>6, <1>7, Zenon DEF ReaderStep

LEMMA Moves ==
  ASSUME ReaderInv, [Next]_vars
  PROVE  Reads \/ Starts \/ Streams \/ Forgets \/ Renews
  <1>1. CASE TaskStep
    BY <1>1, TaskMoves
  <1>2. CASE \E r \in Readers : ReaderStep(r)
    BY <1>2, ReaderMoves, Zenon
  <1>3. CASE Unwind \/ Closed \/ CameraChanges \/ (\E v \in Viewers : ViewerTakes(v)) \/ UNCHANGED vars
    <2>1. ASSUME NEW v \in Viewers, ViewerTakes(v) PROVE UNCHANGED <<url, task, grab, latest>>
      BY <2>1, SMT DEF ViewerTakes, ViewerLeaves, taskVars, clientVars
    <2>2. CASE Unwind \/ Closed \/ CameraChanges \/ UNCHANGED vars
      BY <2>2, SMT DEF Unwind, Closed, CameraChanges, vars, taskVars, viewerVars, clientVars, Forgets
    <2>3. QED
      BY <1>3, <2>1, <2>2, SMT DEF Forgets
  <1>4. CASE Reconfigure
    BY <1>4, SMT DEF Reconfigure, Renews
  <1>5. ASSUME NEW v \in Viewers, ViewerStarts(v) PROVE Starts \/ Forgets
    <2>1. url' = url /\ grab' = grab /\ (Start \/ (task' = task /\ latest' = latest))
      BY <1>5, SMT DEF ViewerStarts, clientVars
    <2>2. QED
      BY <2>1, SMT DEF Starts, Forgets
  <1>6. QED
    BY <1>1, <1>2, <1>3, <1>4, <1>5, Zenon DEF Next

-----------------------------------------------------------------------------
(***************************************************************************)
(* The invariant of the readers.                                           *)
(***************************************************************************)

LEMMA ReaderInit == Init => ReaderInv
  <1> SUFFICES ASSUME Init PROVE ReaderInv
    OBVIOUS
  <1>1. /\ url = 1 /\ task = NoTask /\ latest = NoFrame /\ grab = [r \in Readers |-> Idle]
    BY Zenon DEF Init
  <1>2. NoTask \in Tasks /\ NoTask.at = "none"
    BY CameraRange, SMT DEF NoTask, Tasks, Ended
  <1>3. grab \in [Readers -> Grabs] /\ \A r \in Readers : grab[r].at = "idle"
    BY <1>1, IdleFields, Zenon
  <1>4. ReaderTyped
    BY <1>1, <1>2, <1>3, CameraRange, SMT DEF ReaderTyped
  <1>5. ~Running
    BY <1>1, <1>2, SMT DEF Running, Ended
  <1>6. WaitersAsked
    BY <1>3, SMT DEF WaitersAsked
  <1>7. QED
    BY <1>1, <1>4, <1>5, <1>6, Zenon DEF ReaderInv, ReadsCurrent, LatestIsLive

\* A fresh task reads from the current camera and has no frame yet.
LEMMA StartFields ==
  ASSUME url \in Cameras, Start
  PROVE  task' \in Tasks /\ task'.at = "new" /\ task'.cam = url /\ latest' = NoFrame
  <1>1. "new" \in Ended \cup {"new", "connecting", "streaming", "yielded", "backoff", "sleep"}
    OBVIOUS
  <1>2. QED
    BY <1>1, SMT DEF Start, Tasks

LEMMA ReaderStepKeeps ==
  ASSUME ReaderInv, [Next]_vars
  PROVE  ReaderInv'
  <1>1. Reads \/ Starts \/ Streams \/ Forgets \/ Renews
    BY Moves
  <1>2. /\ url \in Cameras /\ task \in Tasks /\ latest \in Cameras \cup {NoFrame}
        /\ grab \in [Readers -> Grabs]
    BY Zenon DEF ReaderInv, ReaderTyped
  <1>3. /\ Running => task.cam = url
        /\ latest # NoFrame => /\ latest <= url
                               /\ Running => latest = url
                               /\ latest = url => task.at \in {"streaming", "yielded"}
    BY Zenon DEF ReaderInv, ReadsCurrent, LatestIsLive
  <1>4. \A r \in Readers : grab[r].at = "waiting" =>
          grab[r].asked <= url /\ (latest # NoFrame => grab[r].asked <= latest)
    BY Zenon DEF ReaderInv, WaitersAsked
  <1>5. url \in Nat /\ url <= url
    BY <1>2, CameraRange, SMT
  <1>6. CASE Reads
    <2>1. /\ url' = url /\ task' = task /\ latest' = latest
      BY <1>6, SMT DEF Reads
    <2>2. PICK r \in Readers :
            \/ grab' = [grab EXCEPT ![r] = Idle]
            \/ latest = NoFrame /\ grab' = [grab EXCEPT ![r] = Waiting]
            \/ grab' = [grab EXCEPT ![r] = Given]
      BY <1>6, Zenon DEF Reads
    <2>3. \/ grab'[r].at \in {"idle", "frame"}
          \/ latest = NoFrame /\ grab'[r].asked = url
      <3>1. CASE grab' = [grab EXCEPT ![r] = Idle]
        BY <1>2, <3>1, GrabUpdate, IdleFields, SMT
      <3>2. CASE latest = NoFrame /\ grab' = [grab EXCEPT ![r] = Waiting]
        BY <1>2, <3>2, GrabUpdate, WaitingFields, Zenon
      <3>3. CASE grab' = [grab EXCEPT ![r] = Given]
        BY <1>2, <3>3, GrabUpdate, GivenFields, SMT
      <3>4. QED
        BY <2>2, <3>1, <3>2, <3>3
    <2>4. grab' \in [Readers -> Grabs] /\ \A s \in Readers : s # r => grab'[s] = grab[s]
      BY <1>2, <2>2, GrabUpdate, IdleFields, WaitingFields, GivenFields, Zenon
    <2>5. WaitersAsked'
      <3> SUFFICES ASSUME NEW s \in Readers, grab'[s].at = "waiting"
                   PROVE  grab'[s].asked <= url /\ (latest # NoFrame => grab'[s].asked <= latest)
        BY <2>1, Zenon DEF WaitersAsked
      <3>1. CASE s # r
        BY <1>4, <2>4, <3>1, Zenon
      <3>2. CASE s = r
        <4>1. latest = NoFrame /\ grab'[r].asked = url
          BY <2>3, <3>2, SMT
        <4>2. QED
          BY <1>5, <3>2, <4>1, Zenon
      <3>3. QED
        BY <3>1, <3>2
    <2>6. ReaderTyped'
      BY <1>2, <2>1, <2>4, Zenon DEF ReaderTyped
    <2>7. ReadsCurrent' /\ LatestIsLive'
      BY <1>3, <2>1, Zenon DEF ReadsCurrent, LatestIsLive, Running
    <2>8. QED
      BY <2>5, <2>6, <2>7, Zenon DEF ReaderInv
  <1>7. CASE Starts
    <2>1. url' = url /\ task' \in Tasks /\ task'.at = "new" /\ task'.cam = url /\ latest' = NoFrame
      BY <1>2, <1>7, StartFields, Zenon DEF Starts
    <2>2. /\ grab' \in [Readers -> Grabs]
          /\ \A s \in Readers : grab'[s].at = "waiting" =>
               grab'[s].asked = url \/ (grab[s].at = "waiting" /\ grab'[s].asked = grab[s].asked)
      <3>1. CASE grab' = grab
        BY <1>2, <3>1, Zenon
      <3>2. ASSUME NEW r \in Readers, grab' = [grab EXCEPT ![r] = Waiting]
            PROVE  /\ grab' \in [Readers -> Grabs]
                   /\ grab'[r].asked = url /\ \A s \in Readers : s # r => grab'[s] = grab[s]
        BY <1>2, <3>2, GrabUpdate, WaitingFields, Zenon
      <3>3. QED
        BY <1>7, <3>1, <3>2, Zenon DEF Starts
    <2>3. WaitersAsked'
      BY <1>4, <1>5, <2>1, <2>2, Zenon DEF WaitersAsked
    <2>4. ReaderTyped' /\ ReadsCurrent' /\ LatestIsLive'
      BY <1>2, <2>1, <2>2, SMT DEF ReaderTyped, ReadsCurrent, LatestIsLive
    <2>5. QED
      BY <2>3, <2>4, Zenon DEF ReaderInv
  <1>8. CASE Streams
    <2>1. /\ url' = url /\ grab' = grab /\ task' \in Tasks
          /\ Running /\ (task'.at \notin Ended => task'.cam = url)
          /\ \/ latest' = NoFrame
             \/ latest' = latest /\ task'.at \in {"streaming", "yielded"}
             \/ latest' = url /\ task'.at = "yielded"
      BY <1>8, Zenon DEF Streams
    <2>2. /\ latest' \in Cameras \cup {NoFrame}
          /\ latest' # NoFrame => latest' = url /\ task'.at \in {"streaming", "yielded"}
      BY <1>2, <1>3, <2>1, SMT
    <2>3. WaitersAsked'
      BY <1>4, <2>1, <2>2, Zenon DEF WaitersAsked
    <2>4. ReaderTyped' /\ ReadsCurrent' /\ LatestIsLive'
      BY <1>2, <1>5, <2>1, <2>2, Zenon DEF ReaderTyped, ReadsCurrent, LatestIsLive, Running
    <2>5. QED
      BY <2>3, <2>4, Zenon DEF ReaderInv
  <1>9. CASE Forgets
    <2>1. url' = url /\ task' = task /\ grab' = grab /\ (latest' = latest \/ latest' = NoFrame)
      BY <1>9, SMT DEF Forgets
    <2>2. WaitersAsked'
      BY <1>4, <2>1, Zenon DEF WaitersAsked
    <2>3. LatestIsLive'
      BY <1>3, <2>1, Zenon DEF LatestIsLive, Running
    <2>4. ReaderTyped' /\ ReadsCurrent'
      BY <1>2, <1>3, <2>1, SMT DEF ReaderTyped, ReadsCurrent, Running
    <2>5. QED
      BY <2>2, <2>3, <2>4, Zenon DEF ReaderInv
  <1>10. CASE Renews
    <2>1. url' = url + 1 /\ url' \in Cameras /\ task' = NoTask /\ latest' = latest /\ grab' = grab
      BY <1>2, <1>10, CameraRange, SMT DEF Renews
    <2>2. NoTask \in Tasks /\ NoTask.at \in Ended
      BY CameraRange, SMT DEF NoTask, Tasks, Ended
    <2>3. latest # NoFrame => latest <= url' /\ latest # url'
      BY <1>2, <1>3, <2>1, CameraRange, SMT
    <2>4. ASSUME NEW r \in Readers, grab[r].at = "waiting" PROVE grab[r].asked <= url'
      <3>1. grab[r].asked \in Nat
        <4>1. grab[r] \in Grabs
          BY <1>2, Zenon
        <4>2. grab[r].asked \in Cameras
          BY <4>1, Zenon DEF Grabs
        <4>3. QED
          BY <4>2, CameraRange, Zenon
      <3>2. grab[r].asked <= url
        BY <1>4, <2>4, Zenon
      <3>3. QED
        BY <1>5, <2>1, <3>1, <3>2, SMT
    <2>5. WaitersAsked'
      BY <1>4, <2>1, <2>4, Zenon DEF WaitersAsked
    <2>6. ReaderTyped' /\ ReadsCurrent' /\ LatestIsLive'
      BY <1>2, <2>1, <2>2, <2>3, Zenon DEF ReaderTyped, ReadsCurrent, LatestIsLive, Running
    <2>7. QED
      BY <2>5, <2>6, Zenon DEF ReaderInv
  <1>11. QED
    BY <1>1, <1>6, <1>7, <1>8, <1>9, <1>10

THEOREM ReadersInvariant == Spec => []ReaderInv
  <1>1. ReaderInv /\ [Next]_vars => ReaderInv'
    BY ReaderStepKeeps
  <1>2. QED
    BY <1>1, ReaderInit, PTL DEF Spec

LEMMA FrameGiven ==
  ASSUME ReaderInv, [Next]_vars, NEW r \in Readers,
         grab[r].at # "frame", grab'[r].at = "frame"
  PROVE  LET asked == IF grab[r].at = "waiting" THEN grab[r].asked ELSE url
             frame == grab'[r].frame
         IN  /\ frame # NoFrame
             /\ frame >= asked
             /\ frame = url => task.at \in {"streaming", "yielded"}
  <1>1. Reads \/ Starts \/ Streams \/ Forgets \/ Renews
    BY Moves
  <1>2. /\ url \in Cameras /\ latest \in Cameras \cup {NoFrame} /\ grab \in [Readers -> Grabs]
    BY Zenon DEF ReaderInv, ReaderTyped
  <1>3. Reads
    <2>1. CASE grab' = grab
      BY <2>1
    <2>2. ASSUME NEW s \in Readers, grab' = [grab EXCEPT ![s] = Waiting] PROVE FALSE
      <3>1. grab'[s].at = "waiting" /\ (r # s => grab'[r] = grab[r])
        BY <1>2, <2>2, GrabUpdate, WaitingFields, Zenon
      <3>2. QED
        BY <3>1
    <2>3. CASE Starts
      BY <2>1, <2>2, <2>3, Zenon DEF Starts
    <2>4. CASE Streams \/ Forgets \/ Renews
      <3>1. grab' = grab
        BY <2>4, SMT DEF Streams, Forgets, Renews
      <3>2. QED
        BY <2>1, <3>1
    <2>5. QED
      BY <1>1, <2>3, <2>4
  <1>4. PICK s \in Readers :
          \/ grab' = [grab EXCEPT ![s] = Idle]
          \/ latest = NoFrame /\ grab' = [grab EXCEPT ![s] = Waiting]
          \/ /\ grab[s].at = "waiting" \/ Running
             /\ latest # NoFrame
             /\ grab' = [grab EXCEPT ![s] = Given]
    BY <1>3, Zenon DEF Reads
  <1>5. /\ s = r
        /\ grab[r].at = "waiting" \/ Running
        /\ latest # NoFrame
        /\ grab'[r].frame = latest
    <2>1. s = r
      <3>1. PICK g \in Grabs : grab' = [grab EXCEPT ![s] = g]
        BY <1>2, <1>4, IdleFields, WaitingFields, GivenFields, Zenon
      <3>2. s # r => grab'[r] = grab[r]
        BY <1>2, <3>1, GrabUpdate, Zenon
      <3>3. QED
        BY <3>2
    <2>2. ~(grab' = [grab EXCEPT ![s] = Idle])
      <3>1. grab' = [grab EXCEPT ![s] = Idle] => grab'[s].at = "idle"
        BY <1>2, GrabUpdate, IdleFields, Zenon
      <3>2. QED
        BY <2>1, <3>1
    <2>3. ~(grab' = [grab EXCEPT ![s] = Waiting])
      <3>1. grab' = [grab EXCEPT ![s] = Waiting] => grab'[s].at = "waiting"
        BY <1>2, GrabUpdate, WaitingFields, Zenon
      <3>2. QED
        BY <2>1, <3>1
    <2>4. grab' = [grab EXCEPT ![s] = Given] => grab'[s].frame = latest
      BY <1>2, GrabUpdate, GivenFields, Zenon
    <2>5. QED
      BY <1>4, <2>1, <2>2, <2>3, <2>4, Zenon
  <1>6. /\ latest <= url /\ (Running => latest = url)
        /\ latest = url => task.at \in {"streaming", "yielded"}
        /\ grab[r].at = "waiting" => grab[r].asked <= latest
    BY <1>5, Zenon DEF ReaderInv, LatestIsLive, WaitersAsked
  <1>7. latest >= IF grab[r].at = "waiting" THEN grab[r].asked ELSE url
    <2>1. latest \in Nat /\ url \in Nat
      BY <1>2, <1>5, CameraRange, SMT
    <2>2. grab[r].asked \in Nat
      <3>1. grab[r] \in Grabs
        BY <1>2, Zenon
      <3>2. grab[r].asked \in Cameras
        BY <3>1, Zenon DEF Grabs
      <3>3. QED
        BY <3>2, CameraRange, Zenon
    <2>3. QED
      BY <1>5, <1>6, <2>1, <2>2, SMT
  <1>8. QED
    BY <1>5, <1>6, <1>7, Zenon

\* A frame that grab() returns comes from the camera that was configured when it was
\* called, or a later one, and its connection has not failed since: a cancelled task, a
\* restarted one and a failed one leave none behind.
THEOREM FramesAreFresh == Spec => FreshFrame
  <1>1. ReaderInv /\ [Next]_vars =>
          [\A r \in Readers :
             grab[r].at # "frame" /\ grab'[r].at = "frame" =>
               LET asked == IF grab[r].at = "waiting" THEN grab[r].asked ELSE url
                   frame == grab'[r].frame
               IN  /\ frame # NoFrame
                   /\ frame >= asked
                   /\ frame = url => task.at \in {"streaming", "yielded"}]_vars
    BY FrameGiven, Zenon
  <1>2. QED
    BY <1>1, ReadersInvariant, PTL DEF Spec, FreshFrame

-----------------------------------------------------------------------------
(***************************************************************************)
(* The viewers.                                                            *)
(***************************************************************************)

Items == {"frame", "end"}
HasEnd(q) == "end" \in {q[i] : i \in DOMAIN q}

ViewersTyped ==
  /\ listeners \subseteq viewing /\ viewing \subseteq Viewers
  /\ queue \in [Viewers -> Seq(Items)]

ViewerInv == ViewersTyped /\ NoDeafViewer

LEMMA PutFields ==
  ASSUME NEW q \in Seq(Items), NEW item \in Items
  PROVE  Put(q, item) \in Seq(Items) /\ (item = "end" => HasEnd(Put(q, item)))
  <1> DEFINE rest == IF Len(q) = 2 THEN Tail(q) ELSE q
  <1>1. rest \in Seq(Items)
    <2>1. CASE Len(q) = 2
      <3>1. q # <<>>
        BY <2>1, SMT
      <3>2. QED
        BY <2>1, <3>1, SMT
    <2>2. QED
      BY <2>1
  <1>2. Put(q, item) = Append(rest, item)
    BY Zenon DEF Put
  <1> HIDE DEF rest
  <1>3. /\ Append(rest, item) \in Seq(Items)
        /\ Len(rest) + 1 \in DOMAIN Append(rest, item)
        /\ Append(rest, item)[Len(rest) + 1] = item
    BY <1>1, SMT
  <1>4. QED
    BY <1>2, <1>3, Zenon DEF HasEnd

\* A frame taken from the queue leaves the end where it is.
LEMMA TakeFields ==
  ASSUME NEW q \in Seq(Items), q # <<>>, Head(q) = "frame"
  PROVE  Tail(q) \in Seq(Items) /\ (HasEnd(q) => HasEnd(Tail(q)))
  <1>1. Tail(q) \in Seq(Items)
    BY SMT
  <1>2. ASSUME NEW i \in DOMAIN q, q[i] = "end"
        PROVE  \E j \in DOMAIN Tail(q) : Tail(q)[j] = "end"
    <2>1. i \in 1..Len(q) /\ Len(q) \in Nat /\ q[1] = "frame"
      BY SMT
    <2>2. i # 1
      BY <1>2, <2>1, SMT
    <2>3. i - 1 \in DOMAIN Tail(q) /\ Tail(q)[i - 1] = q[i]
      BY <2>1, <2>2, SMT
    <2>4. QED
      BY <1>2, <2>3, Zenon
  <1>3. QED
    BY <1>1, <1>2, Zenon DEF HasEnd

LEMMA TellFields ==
  ASSUME ViewersTyped, NEW item \in Items, Tell(item)
  PROVE  /\ queue' \in [Viewers -> Seq(Items)]
         /\ item = "end" => \A v \in listeners : HasEnd(queue'[v])
         /\ \A v \in Viewers \ listeners : queue'[v] = queue[v]
  <1>1. queue \in [Viewers -> Seq(Items)] /\ listeners \subseteq Viewers
    BY SMT DEF ViewersTyped
  <1>2. queue' = [v \in Viewers |-> IF v \in listeners THEN Put(queue[v], item) ELSE queue[v]]
    BY Zenon DEF Tell
  <1>3. \A v \in Viewers : queue[v] \in Seq(Items)
    BY <1>1, Zenon
  <1>4. \A v \in Viewers :
          Put(queue[v], item) \in Seq(Items) /\ (item = "end" => HasEnd(Put(queue[v], item)))
    BY <1>3, PutFields, Zenon
  <1>5. \A v \in Viewers : (IF v \in listeners THEN Put(queue[v], item) ELSE queue[v]) \in Seq(Items)
    BY <1>3, <1>4, Zenon
  <1>6. queue' \in [Viewers -> Seq(Items)]
    BY <1>2, <1>5, Zenon
  <1>7. \A v \in listeners : v \in Viewers /\ queue'[v] = Put(queue[v], item)
    BY <1>1, <1>2, Zenon
  <1>8. \A v \in Viewers \ listeners : queue'[v] = queue[v]
    BY <1>2, Zenon
  <1>9. QED
    BY <1>4, <1>6, <1>7, <1>8, Zenon

\* A task that stops has told the viewers so, or has none.
Quiet ==
  /\ UNCHANGED <<listeners, viewing, queue>>
  /\ Running => Running' \/ listeners = {}
Shows == UNCHANGED <<listeners, viewing>> /\ Tell("frame") /\ Running'
Ends == viewing' = viewing /\ listeners' \subseteq listeners /\ Tell("end")

LEMMA Runs ==
  \A at \in {"new", "connecting", "streaming", "yielded", "backoff", "sleep"} : at \notin Ended
  BY SMT DEF Ended

LEMMA ViewerMoves ==
  ASSUME ReaderInv, [Next]_vars
  PROVE  Quiet \/ Shows \/ Ends \/ \E v \in Viewers : ViewerStarts(v) \/ ViewerTakes(v)
  <1>1. url \in Cameras /\ task \in Tasks
    BY DEF ReaderInv, ReaderTyped
  <1>2. CASE Reconfigure
    <2>1. viewing' = viewing /\ listeners' = {} /\ Tell("end")
      BY <1>2, SMT DEF Reconfigure
    <2>2. QED
      BY <2>1, Zenon DEF Ends
  <1>3. CASE Refused \/ Fail \/ Overflow
    <2>1. CASE Tell("end") /\ UNCHANGED <<listeners, viewing>>
      BY <2>1, SMT DEF Ends
    <2>2. CASE Fail /\ task' = [task EXCEPT !.at = "backoff"] /\ UNCHANGED queue
      <3>1. task'.at = "backoff"
        BY <1>1, <2>2, Zenon DEF Tasks
      <3>2. Running'
        BY <3>1, Runs, SMT DEF Running
      <3>3. QED
        BY <2>2, <3>2, SMT DEF Fail, Quiet
    <2>3. UNCHANGED <<listeners, viewing>>
      BY <1>3, SMT DEF Refused, Fail, Overflow
    <2>4. QED
      BY <1>3, <2>1, <2>2, <2>3, Zenon DEF Refused, Fail, Overflow
  <1>4. CASE Frame
    <2>1. task'.at = "yielded" /\ Tell("frame") /\ UNCHANGED <<listeners, viewing>>
      <3>1. task' = [task EXCEPT !.at = "yielded"]
        BY <1>4, Zenon DEF Frame
      <3>2. task'.at = "yielded"
        BY <1>1, <3>1, Zenon DEF Tasks
      <3>3. QED
        BY <1>4, <3>2, SMT DEF Frame
    <2>2. Running'
      BY <2>1, Runs, SMT DEF Running
    <2>3. QED
      BY <2>1, <2>2, SMT DEF Shows
  <1>5. CASE Attempt \/ Connected \/ Resume
    <2>1. UNCHANGED <<listeners, viewing, queue>>
      BY <1>5, SMT DEF Attempt, Connected, Resume, viewerVars
    <2>2. listeners = {} \/ task'.at \in {"connecting", "streaming"}
      <3>1. CASE task' = [at |-> "connecting", cam |-> url]
        BY <3>1, SMT
      <3>2. CASE task' = [task EXCEPT !.at = "streaming"]
        <4>1. task'.at = "streaming"
          BY <1>1, <3>2, Zenon DEF Tasks
        <4>2. QED
          BY <4>1
      <3>3. QED
        BY <1>5, <3>1, <3>2, Zenon DEF Attempt, Connected, Resume
    <2>3. task'.at \in {"connecting", "streaming"} => Running'
      BY Runs, SMT DEF Running
    <2>4. QED
      BY <2>1, <2>2, <2>3, SMT DEF Quiet
  <1>6. ASSUME task' = task, UNCHANGED viewerVars PROVE Quiet
    <2>1. UNCHANGED <<listeners, viewing, queue>>
      BY <1>6, SMT DEF viewerVars
    <2>2. Running' <=> Running
      BY <1>6, Zenon DEF Running
    <2>3. QED
      BY <2>1, <2>2, Zenon DEF Quiet
  <1>7. ASSUME NEW r \in Readers, ReaderStep(r) PROVE Quiet
    <2>1. CASE GrabStarts(r)
      <3>1. task'.at = "new"
        BY <1>1, <2>1, StartFields, Zenon DEF GrabStarts
      <3>2. Running' /\ UNCHANGED <<listeners, viewing, queue>>
        BY <2>1, <3>1, Runs, SMT DEF Running, GrabStarts, viewerVars
      <3>3. QED
        BY <3>2, Zenon DEF Quiet
    <2>2. CASE GrabJoins(r) \/ Poll(r) \/ GrabTimeout(r) \/ Use(r)
      <3>1. task' = task /\ UNCHANGED viewerVars
        BY <2>2, SMT DEF GrabJoins, Poll, GrabTimeout, Use, taskVars
      <3>2. QED
        BY <1>6, <3>1
    <2>3. QED
      BY <1>7, <2>1, <2>2, Zenon DEF ReaderStep
  <1>8. CASE Unwind \/ Closed \/ CameraChanges \/ UNCHANGED vars
    <2>1. task' = task /\ UNCHANGED viewerVars
      BY <1>8, SMT DEF Unwind, Closed, CameraChanges, vars, taskVars, viewerVars
    <2>2. QED
      BY <1>6, <2>1
  <1>9. QED
    BY <1>2, <1>3, <1>4, <1>5, <1>7, <1>8, Zenon DEF Next, TaskStep

LEMMA ViewerInit == Init => ViewerInv
  <1> SUFFICES ASSUME Init PROVE ViewerInv
    OBVIOUS
  <1>1. listeners = {} /\ viewing = {} /\ queue = [v \in Viewers |-> <<>>]
    BY Zenon DEF Init
  <1>2. queue \in [Viewers -> Seq(Items)]
    BY <1>1, SMT
  <1>3. QED
    BY <1>1, <1>2, SMT DEF ViewerInv, ViewersTyped, NoDeafViewer

LEMMA ViewerStepKeeps ==
  ASSUME ReaderInv, ViewerInv, [Next]_vars
  PROVE  ViewerInv'
  <1>1. Quiet \/ Shows \/ Ends \/ \E v \in Viewers : ViewerStarts(v) \/ ViewerTakes(v)
    BY ViewerMoves
  <1>2. /\ ViewersTyped
        /\ listeners \subseteq viewing /\ viewing \subseteq Viewers
        /\ queue \in [Viewers -> Seq(Items)]
        /\ \A v \in viewing : (v \in listeners /\ Running) \/ HasEnd(queue[v])
    BY Zenon DEF ViewerInv, ViewersTyped, NoDeafViewer, HasEnd
  <1>3. SUFFICES /\ listeners' \subseteq viewing' /\ viewing' \subseteq Viewers
                 /\ queue' \in [Viewers -> Seq(Items)]
                 /\ \A v \in viewing' : (v \in listeners' /\ Running') \/ HasEnd(queue'[v])
    BY Zenon DEF ViewerInv, ViewersTyped, NoDeafViewer, HasEnd
  <1>4. CASE Quiet
    <2>1. listeners' = listeners /\ viewing' = viewing /\ queue' = queue
      BY <1>4, SMT DEF Quiet
    <2>2. \A v \in viewing : (v \in listeners /\ Running') \/ HasEnd(queue[v])
      BY <1>2, <1>4, SMT DEF Quiet
    <2>3. QED
      BY <1>2, <2>1, <2>2, Zenon
  <1>5. CASE Shows
    <2>1. listeners' = listeners /\ viewing' = viewing /\ Tell("frame") /\ Running'
      BY <1>5, SMT DEF Shows
    <2>2. "frame" \in Items
      BY DEF Items
    <2>3. queue' \in [Viewers -> Seq(Items)] /\ \A v \in Viewers \ listeners : queue'[v] = queue[v]
      BY <1>2, <2>1, <2>2, TellFields, Zenon
    <2>4. QED
      BY <1>2, <2>1, <2>3, Zenon
  <1>6. CASE Ends
    <2>1. viewing' = viewing /\ listeners' \subseteq listeners /\ Tell("end") /\ "end" \in Items
      BY <1>6, SMT DEF Ends, Items
    <2>2. /\ queue' \in [Viewers -> Seq(Items)] /\ \A v \in Viewers \ listeners : queue'[v] = queue[v]
          /\ \A v \in listeners : HasEnd(queue'[v])
      BY <1>2, <2>1, TellFields, Zenon
    <2>3. QED
      BY <1>2, <2>1, <2>2, Zenon
  <1>7. ASSUME NEW v \in Viewers, ViewerStarts(v) PROVE ViewerInv'
    <2>1. listeners' = listeners \cup {v} /\ viewing' = viewing \cup {v} /\ queue' = queue
      BY <1>7, SMT DEF ViewerStarts
    <2>2. Running'
      <3>1. CASE Running
        <4>1. task' = task
          BY <1>7, <3>1, SMT DEF ViewerStarts
        <4>2. QED
          BY <3>1, <4>1, Zenon DEF Running
      <3>2. CASE ~Running
        <4>1. url \in Cameras /\ Start
          BY <1>7, <3>2, Zenon DEF ViewerStarts, ReaderInv, ReaderTyped
        <4>2. task'.at = "new"
          BY <4>1, StartFields, Zenon
        <4>3. QED
          BY <4>2, Runs, SMT DEF Running
      <3>3. QED
        BY <3>1, <3>2
    <2>3. \A w \in viewing' : (w \in listeners' /\ Running') \/ HasEnd(queue'[w])
      BY <1>2, <2>1, <2>2, SMT
    <2>4. QED
      BY <1>2, <2>1, <2>3, SMT DEF ViewerInv, ViewersTyped, NoDeafViewer, HasEnd
  <1>8. ASSUME NEW v \in Viewers, ViewerTakes(v) PROVE ViewerInv'
    <2>1. task' = task /\ (Running' <=> Running)
      <3>1. task' = task
        BY <1>8, SMT DEF ViewerTakes, ViewerLeaves, taskVars
      <3>2. QED
        BY <3>1, Zenon DEF Running
    <2>2. CASE ViewerLeaves(v)
      <3>1. /\ listeners' = listeners \ {v} /\ viewing' = viewing \ {v}
            /\ queue' = [queue EXCEPT ![v] = <<>>]
        BY <2>2, Zenon DEF ViewerLeaves
      <3>2. <<>> \in Seq(Items)
        BY SMT
      <3>3. queue' \in [Viewers -> Seq(Items)] /\ \A w \in Viewers : w # v => queue'[w] = queue[w]
        BY <1>2, <3>1, <3>2, Zenon
      <3>4. /\ listeners' \subseteq viewing' /\ viewing' \subseteq Viewers
            /\ \A w \in viewing' : w \in viewing /\ w \in Viewers /\ w # v
            /\ \A w \in listeners : w # v => w \in listeners'
        BY <1>2, <3>1, SMT
      <3>5. \A w \in viewing' : (w \in listeners' /\ Running') \/ HasEnd(queue'[w])
        BY <1>2, <2>1, <3>3, <3>4, Zenon
      <3>6. QED
        BY <3>3, <3>4, <3>5, Zenon DEF ViewerInv, ViewersTyped, NoDeafViewer, HasEnd
    <2>3. CASE ~ViewerLeaves(v)
      <3>1. /\ queue[v] # <<>> /\ Head(queue[v]) = "frame"
            /\ queue' = [queue EXCEPT ![v] = Tail(queue[v])]
            /\ listeners' = listeners /\ viewing' = viewing
        BY <1>8, <2>3, SMT DEF ViewerTakes
      <3>2. queue[v] \in Seq(Items)
        BY <1>2, Zenon
      <3>3. Tail(queue[v]) \in Seq(Items) /\ (HasEnd(queue[v]) => HasEnd(Tail(queue[v])))
        BY <3>1, <3>2, TakeFields, Zenon
      <3>4. /\ queue' \in [Viewers -> Seq(Items)] /\ queue'[v] = Tail(queue[v])
            /\ \A w \in Viewers : w # v => queue'[w] = queue[w]
        BY <1>2, <3>1, <3>3, Zenon
      <3>5. \A w \in viewing : HasEnd(queue[w]) => HasEnd(queue'[w])
        BY <1>2, <3>3, <3>4, Zenon
      <3>6. \A w \in viewing' : (w \in listeners' /\ Running') \/ HasEnd(queue'[w])
        BY <1>2, <2>1, <3>1, <3>5, Zenon
      <3>7. QED
        BY <1>2, <3>1, <3>4, <3>6, Zenon DEF ViewerInv, ViewersTyped, NoDeafViewer, HasEnd
    <2>4. QED
      BY <2>2, <2>3
  <1>9. QED
    BY <1>1, <1>4, <1>5, <1>6, <1>7, <1>8,
       Zenon DEF ViewerInv, ViewersTyped, NoDeafViewer, HasEnd

\* While a viewer is registered a task is at work, or the end of its stream waits in its
\* queue: also when a full queue loses its oldest item, the task gives up for want of
\* listeners, or reconfigure() cuts everybody off.
THEOREM NobodyWaitsForNothing == Spec => []NoDeafViewer
  <1>1. ReaderInv /\ ViewerInv /\ [Next]_vars => ViewerInv'
    BY ViewerStepKeeps
  <1>2. Spec => []ViewerInv
    BY <1>1, ViewerInit, ReadersInvariant, PTL DEF Spec
  <1>3. ViewerInv => NoDeafViewer
    BY DEF ViewerInv
  <1>4. QED
    BY <1>2, <1>3, PTL
=============================================================================
