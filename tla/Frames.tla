-------------------------------- MODULE Frames --------------------------------
(***************************************************************************)
(* The camera side (sentinel/camera/mjpeg.py): one background task keeps    *)
(* the stream of the printer open; grab() serves the watcher and the        *)
(* snapshot requests from its latest frame, stream_proxy() hands its frames *)
(* to viewers, and reconfigure() points it at another camera.               *)
(*                                                                         *)
(* A frame is known by the camera it came from.  Cameras are numbered: a    *)
(* change of the printer's address makes the next one current.              *)
(***************************************************************************)
EXTENDS FiniteSets, Integers, Sequences

CONSTANTS
  Readers,             \* callers of grab()
  Watcher,             \* the one that keeps calling
  Viewers,             \* clients of /stream
  NoFrame,
  OFFLINE_THRESHOLD,   \* _OFFLINE_THRESHOLD
  CAMERA_MAX_STREAMS,  \* settings.camera_max_streams
  MAX_URL              \* bound: cameras there will ever be

ASSUME FramesAssumption ==
  /\ Watcher \in Readers
  /\ OFFLINE_THRESHOLD \in Nat \ {0}
  /\ MAX_URL \in Nat \ {0}
  /\ NoFrame \notin 1..MAX_URL

VARIABLES
  url,        \* _url
  task,       \* _broadcaster_task: where it is, and the camera it reads from
  unwinding,  \* number of cancelled tasks that have not ended yet
  latest,     \* _latest_frame
  exc,        \* _latest_exception is set
  failures,   \* _consecutive_failures, capped at the threshold
  client,     \* _client is open
  closing,    \* reconfigure() calls that wait for the old client to close
  listeners,  \* viewers whose queue is in _listeners
  queue,      \* queue of each viewer
  viewing,    \* viewers whose stream_proxy() has not ended
  grab,       \* what each reader is doing
  up          \* the current camera answers and sends frames

taskVars == <<task, latest, exc, failures>>
viewerVars == <<listeners, queue, viewing>>
clientVars == <<url, unwinding, client, closing>>
vars == <<taskVars, viewerVars, clientVars, grab, up>>

Cameras == 1..MAX_URL
Ended == {"none", "done", "failed"}
NoTask == [at |-> "none", cam |-> 1]
Idle == [at |-> "idle", asked |-> 1, frame |-> NoFrame]

TypeOK ==
  /\ url \in Cameras
  /\ task \in [at : Ended \cup {"new", "connecting", "streaming", "yielded", "backoff", "sleep"},
               cam : Cameras]
  /\ unwinding \in 0..MAX_URL /\ closing \in 0..MAX_URL
  /\ latest \in Cameras \cup {NoFrame}
  /\ exc \in BOOLEAN /\ client \in BOOLEAN /\ up \in BOOLEAN
  /\ failures \in 0..OFFLINE_THRESHOLD
  /\ listeners \subseteq viewing /\ viewing \subseteq Viewers
  /\ queue \in [Viewers -> UNION {[1..n -> {"frame", "end"}] : n \in 0..2}]
  /\ grab \in [Readers -> [at : {"idle", "waiting", "frame"}, asked : Cameras,
                           frame : Cameras \cup {NoFrame}]]

Init ==
  /\ url = 1 /\ task = NoTask /\ unwinding = 0
  /\ latest = NoFrame /\ exc = FALSE /\ failures = 0
  /\ client = TRUE /\ closing = 0
  /\ listeners = {} /\ viewing = {} /\ queue = [v \in Viewers |-> <<>>]
  /\ grab = [r \in Readers |-> Idle]
  /\ up \in BOOLEAN

Running == task.at \notin Ended

\* A dead task is replaced, and what it left is cleared.
Start ==
  /\ task' = [at |-> "new", cam |-> url]
  /\ latest' = NoFrame
  /\ exc' = FALSE

OneMore == IF failures < OFFLINE_THRESHOLD THEN failures + 1 ELSE failures
-----------------------------------------------------------------------------
(* grab()                                                                   *)

\* Both errors, a bad read and an offline camera, mean "no frame" to callers.
Error(r) == grab' = [grab EXCEPT ![r] = Idle]

\* The wait is over: an end of the task first, then its last error, which is
\* consumed, then the frame.
Conclude(r) ==
  \/ /\ task.at = "failed"
     /\ failures' = OneMore
     /\ Error(r)
     /\ UNCHANGED <<latest, exc>>
  \/ /\ task.at # "failed" /\ exc
     /\ exc' = FALSE
     /\ Error(r)
     /\ UNCHANGED <<latest, failures>>
  \/ /\ task.at # "failed" /\ ~exc
     /\ failures' = 0
     /\ grab' = [grab EXCEPT ![r] = [Idle EXCEPT !.at = "frame", !.frame = latest]]
     /\ UNCHANGED <<latest, exc>>

\* Fault: only the very first call starts the task.
GrabStartsOnce(r) ==
  /\ grab[r].at = "idle" /\ task.at = "none"
  /\ Start
  /\ grab' = [grab EXCEPT ![r] = [Idle EXCEPT !.at = "waiting", !.asked = url]]
  /\ UNCHANGED <<failures, viewerVars, clientVars, up>>

GrabStarts(r) ==
  /\ grab[r].at = "idle" /\ ~Running
  /\ Start
  /\ grab' = [grab EXCEPT ![r] = [Idle EXCEPT !.at = "waiting", !.asked = url]]
  /\ UNCHANGED <<failures, viewerVars, clientVars, up>>

GrabJoins(r) ==
  /\ grab[r].at = "idle" /\ Running
  /\ \/ /\ latest # NoFrame \/ exc
        /\ Conclude(r)
     \/ /\ latest = NoFrame /\ ~exc
        /\ grab' = [grab EXCEPT ![r] = [Idle EXCEPT !.at = "waiting", !.asked = url]]
        /\ UNCHANGED <<latest, exc, failures>>
  /\ UNCHANGED <<task, viewerVars, clientVars, up>>

\* Every 50 ms.  A task that ended without leaving an error is one too.
Poll(r) ==
  /\ grab[r].at = "waiting"
  /\ \/ /\ latest # NoFrame \/ exc
        /\ Conclude(r)
     \/ /\ latest = NoFrame /\ ~exc /\ ~Running
        /\ Error(r)
        /\ UNCHANGED <<latest, exc, failures>>
  /\ UNCHANGED <<task, viewerVars, clientVars, up>>

\* After 10 s, whatever the camera and the task are doing.
GrabTimeout(r) ==
  /\ grab[r].at = "waiting"
  /\ latest = NoFrame /\ ~exc
  /\ failures' = OneMore
  /\ Error(r)
  /\ UNCHANGED <<task, latest, exc, viewerVars, clientVars, up>>

\* The caller goes on with the frame it was given.
Use(r) ==
  /\ grab[r].at = "frame"
  /\ grab' = [grab EXCEPT ![r] = Idle]
  /\ UNCHANGED <<taskVars, viewerVars, clientVars, up>>
-----------------------------------------------------------------------------
(* The task: _stream_proxy_internal() under _broadcast_loop().              *)

\* Into a queue of two, which loses its oldest when it is full.
Put(q, item) == Append(IF Len(q) = 2 THEN Tail(q) ELSE q, item)

Tell(item) ==
  queue' = [v \in Viewers |-> IF v \in listeners THEN Put(queue[v], item) ELSE queue[v]]

Attempt ==
  /\ task.at \in {"new", "backoff", "sleep"}
  /\ task' = [at |-> "connecting", cam |-> url]
  /\ UNCHANGED <<latest, exc, failures, viewerVars, clientVars, grab, up>>

Connected ==
  /\ task.at = "connecting" /\ client /\ up
  /\ task' = [task EXCEPT !.at = "streaming"]
  /\ UNCHANGED <<latest, exc, failures, viewerVars, clientVars, grab, up>>

\* A closed client raises what the stream does not retry itself.
Refused ==
  /\ task.at = "connecting" /\ ~client
  /\ task' = [task EXCEPT !.at = "sleep"]
  /\ latest' = NoFrame /\ exc' = TRUE
  /\ Tell("end")
  /\ UNCHANGED <<failures, listeners, viewing, clientVars, grab, up>>

Frame ==
  /\ task.at = "streaming" /\ up
  /\ task' = [task EXCEPT !.at = "yielded"]
  /\ latest' = task.cam /\ exc' = FALSE /\ failures' = 0
  /\ Tell("frame")
  /\ UNCHANGED <<listeners, viewing, clientVars, grab, up>>

\* No call of grab() waits 30 s.
Resume ==
  /\ task.at = "yielded"
  /\ \/ /\ task' = [task EXCEPT !.at = "streaming"]
        /\ UNCHANGED latest
     \/ /\ listeners = {} /\ \A r \in Readers : grab[r].at # "waiting"
        /\ task' = [task EXCEPT !.at = "done"]
        /\ latest' = NoFrame
  /\ UNCHANGED <<exc, failures, viewerVars, clientVars, grab, up>>

\* Fault: the last frame outlives the connection it came over.
FailKeepsFrame ==
  /\ ~up
  /\ \/ task.at = "connecting" /\ client
     \/ task.at = "streaming"
  /\ failures' = OneMore /\ exc' = TRUE
  /\ task' = [task EXCEPT !.at = IF failures' = OFFLINE_THRESHOLD THEN "failed" ELSE "backoff"]
  /\ IF failures' = OFFLINE_THRESHOLD THEN Tell("end") ELSE UNCHANGED queue
  /\ UNCHANGED <<latest, listeners, viewing, clientVars, grab, up>>

\* Refused, cut off or too slow: again after a pause, until the threshold ends
\* the task.
Fail ==
  /\ ~up
  /\ \/ task.at = "connecting" /\ client
     \/ task.at = "streaming"
  /\ failures' = OneMore
  /\ latest' = NoFrame /\ exc' = TRUE
  /\ \/ /\ failures' = OFFLINE_THRESHOLD
        /\ task' = [task EXCEPT !.at = "failed"]
        /\ Tell("end")
     \/ /\ failures' < OFFLINE_THRESHOLD
        /\ task' = [task EXCEPT !.at = "backoff"]
        /\ UNCHANGED queue
  /\ UNCHANGED <<listeners, viewing, clientVars, grab, up>>

\* No frame within 10 MB: the viewers are told at once.
Overflow ==
  /\ ~up
  /\ task.at = "streaming"
  /\ failures' = OneMore
  /\ latest' = NoFrame /\ exc' = TRUE
  /\ task' = [task EXCEPT !.at = IF failures' = OFFLINE_THRESHOLD THEN "failed" ELSE "sleep"]
  /\ Tell("end")
  /\ UNCHANGED <<listeners, viewing, clientVars, grab, up>>

\* A cancelled task forgets the frame of whoever runs now.
Unwind ==
  /\ unwinding > 0
  /\ unwinding' = unwinding - 1
  /\ latest' = NoFrame
  /\ UNCHANGED <<url, client, closing, task, exc, failures, viewerVars, grab, up>>
-----------------------------------------------------------------------------
(* POST /api/settings with another address, and the viewers of /stream      *)

\* Only a task inside the stream has something to unwind.  A second call finds
\* the client closed already and does not wait.
Reconfigure ==
  /\ url < MAX_URL
  /\ url' = url + 1
  /\ unwinding' = IF task.at \in Ended \cup {"new", "sleep"} THEN unwinding ELSE unwinding + 1
  /\ task' = NoTask
  /\ Tell("end")
  /\ listeners' = {}
  /\ client' = ~client
  /\ closing' = IF client THEN closing + 1 ELSE closing
  /\ up' \in BOOLEAN
  /\ UNCHANGED <<latest, exc, failures, viewing, grab>>

\* reconfigure() goes on with a new client.
Closed ==
  /\ closing > 0
  /\ closing' = closing - 1
  /\ client' = TRUE
  /\ UNCHANGED <<url, unwinding, taskVars, viewerVars, grab, up>>

\* Fault: a viewer counts on the task that ended when nobody watched.
ViewerStartsNone(v) ==
  /\ v \notin viewing
  /\ Cardinality(listeners) < CAMERA_MAX_STREAMS
  /\ listeners' = listeners \cup {v} /\ viewing' = viewing \cup {v}
  /\ IF task.at = "none" THEN Start ELSE UNCHANGED <<task, latest, exc>>
  /\ UNCHANGED <<failures, queue, clientVars, grab, up>>

ViewerStarts(v) ==
  /\ v \notin viewing
  /\ Cardinality(listeners) < CAMERA_MAX_STREAMS
  /\ listeners' = listeners \cup {v} /\ viewing' = viewing \cup {v}
  /\ IF Running THEN UNCHANGED <<task, latest, exc>> ELSE Start
  /\ UNCHANGED <<failures, queue, clientVars, grab, up>>

ViewerLeaves(v) ==
  /\ v \in viewing
  /\ listeners' = listeners \ {v} /\ viewing' = viewing \ {v}
  /\ queue' = [queue EXCEPT ![v] = <<>>]
  /\ UNCHANGED <<taskVars, clientVars, grab, up>>

\* An error ends the viewer's response; so does the browser, at any time.
ViewerTakes(v) ==
  \/ /\ v \in viewing /\ queue[v] # <<>> /\ Head(queue[v]) = "frame"
     /\ queue' = [queue EXCEPT ![v] = Tail(@)]
     /\ UNCHANGED <<listeners, viewing, taskVars, clientVars, grab, up>>
  \/ ViewerLeaves(v)
-----------------------------------------------------------------------------
CameraChanges ==
  /\ up' = ~up
  /\ UNCHANGED <<taskVars, viewerVars, clientVars, grab>>

TaskStep == Attempt \/ Connected \/ Refused \/ Frame \/ Resume \/ Fail \/ Overflow

ReaderStep(r) == GrabStarts(r) \/ GrabJoins(r) \/ Poll(r) \/ GrabTimeout(r) \/ Use(r)

Next ==
  \/ TaskStep \/ Unwind
  \/ Reconfigure \/ Closed \/ CameraChanges
  \/ \E r \in Readers : ReaderStep(r)
  \/ \E v \in Viewers : ViewerStarts(v) \/ ViewerTakes(v)

\* The event loop runs what is ready, timers expire, and the watcher's tick
\* comes again.  Requests and viewers come when they like.
Fairness ==
  /\ WF_vars(TaskStep) /\ WF_vars(Unwind) /\ WF_vars(Closed)
  /\ WF_vars(ReaderStep(Watcher))

Spec == Init /\ [][Next]_vars /\ Fairness
-----------------------------------------------------------------------------
\* A frame that grab() returns comes from the camera that was configured when
\* it was called, or a later one, and its connection has not failed since.
FreshFrame ==
  [][\A r \in Readers :
       grab[r].at # "frame" /\ grab'[r].at = "frame" =>
         LET asked == IF grab[r].at = "waiting" THEN grab[r].asked ELSE url
             frame == grab'[r].frame
         IN  /\ frame # NoFrame
             /\ frame >= asked
             /\ frame = url => task.at \in {"streaming", "yielded"}]_vars

\* No viewer waits for frames that nobody will send: while it is registered
\* a task is at work or its end is in the queue, and the end is in the queue
\* of every viewer that reconfigure() has cut off.
NoDeafViewer ==
  \A v \in viewing :
    \/ v \in listeners /\ Running
    \/ "end" \in {queue[v][i] : i \in DOMAIN queue[v]}

\* A camera that answers is faster than the 10 s of a grab, unless the task paused.
Prompt ==
  \A r \in Readers : GrabTimeout(r) /\ Running => ~up \/ task.at \in {"backoff", "sleep"}

\* Once the camera answers for good, and in time, the watcher gets frames again and
\* again: no failure, restart or change of the address leaves it without a task.
CameraRecovers ==
  <>[]up /\ <>[][Prompt]_vars => []<>(grab[Watcher].at = "frame")
===============================================================================
