------------------------------ MODULE Dispatcher ------------------------------
(***************************************************************************)
(* NotificationDispatcher (sentinel/notify/dispatcher.py): alerts and texts *)
(* are sent in the background, at most MAX_CONCURRENT_TASKS at a time, and  *)
(* a channel that fails is remembered for the dashboard.                    *)
(*                                                                         *)
(* A task is its place in the order of dispatch, its channel and whether    *)
(* it is critical.  The retries within a task and the content are left out. *)
(* One critical alert is followed from its dispatch to its end.             *)
(***************************************************************************)
EXTENDS FiniteSets, FiniteSetsExt, Integers, Sequences, SequencesExt

CONSTANTS
  Channels,             \* one for each notifier
  MAX_CONCURRENT_TASKS

ASSUME DispatcherAssumption ==
  /\ IsFiniteSet(Channels) /\ Channels # {}
  /\ MAX_CONCURRENT_TASKS \in Nat /\ Cardinality(Channels) <= MAX_CONCURRENT_TASKS

VARIABLES
  tasks,   \* _tasks, without those that are done
  failed,  \* failed_channels
  reach,   \* channels whose service answers
  alert,   \* ghost: what became of the alert that is followed
  newer    \* ghost: critical tasks fired after it, up to the cap

dispatching == <<tasks, failed, reach, alert, newer>>

Tasks == [channel : Channels, critical : BOOLEAN, followed : BOOLEAN]

DispatcherTypeOK ==
  /\ tasks \in Seq(Tasks) /\ Len(tasks) <= MAX_CONCURRENT_TASKS
  /\ failed \subseteq Channels /\ reach \subseteq Channels
  /\ alert \in {"none", "pending", "ended", "displaced"}
  /\ newer \in 0..MAX_CONCURRENT_TASKS
  /\ alert = "pending" <=> \E i \in DOMAIN tasks : tasks[i].followed

DispatcherInit ==
  /\ tasks = <<>> /\ failed = {}
  /\ reach = Channels
  /\ alert = "none" /\ newer = 0

\* Fault: the oldest task goes, whatever it is.
OldestGoes(q) == 1

\* The place of the task that has to go: the oldest that is not critical, or
\* else the oldest.
Victim(q) ==
  LET texts == {i \in DOMAIN q : ~q[i].critical}
  IN  IF texts # {} THEN Min(texts) ELSE 1

\* s has the tasks and the two history variables, t is the new task.
FireAndForget(s, t) ==
  LET full == Len(s.tasks) = MAX_CONCURRENT_TASKS
      victim == Victim(s.tasks)
  IN  [tasks |-> Append(IF full THEN RemoveAt(s.tasks, victim) ELSE s.tasks, t),
       alert |-> IF t.followed THEN "pending"
                 ELSE IF full /\ s.tasks[victim].followed THEN "displaced" ELSE s.alert,
       newer |-> IF t.critical /\ s.alert = "pending" /\ s.newer < MAX_CONCURRENT_TASKS
                 THEN s.newer + 1 ELSE s.newer]

\* The configured order of the channels.
Notifiers == SetToSeq(Channels)

\* One task for every channel, of which one may be followed.
FannedOut(critical, followed) ==
  LET fired[n \in 0..Cardinality(Channels)] ==
        IF n = 0 THEN [tasks |-> tasks, alert |-> alert, newer |-> newer]
        ELSE FireAndForget(fired[n - 1], [channel |-> Notifiers[n], critical |-> critical,
                                          followed |-> n = followed])
  IN  fired[Cardinality(Channels)]

Dispatch(critical, followed) ==
  /\ LET s == FannedOut(critical, followed)
     IN  tasks' = s.tasks /\ alert' = s.alert /\ newer' = s.newer
  /\ UNCHANGED <<failed, reach>>

\* A detection, a stall or a lost camera.
DispatchAlert ==
  \/ alert = "none" /\ \E n \in 1..Cardinality(Channels) : Dispatch(TRUE, n)
  \/ Dispatch(TRUE, 0)

\* A text, the start or end of a print, or somebody else's pause.
DispatchText == Dispatch(FALSE, 0)

\* Fault: a task that runs into its time limit leaves no trace.
TaskFailsSilently(i) ==
  /\ tasks' = RemoveAt(tasks, i)
  /\ alert' = IF tasks[i].followed THEN "ended" ELSE alert
  /\ UNCHANGED <<failed, reach, newer>>

\* A permanent error, five attempts or 90 seconds.
TaskFails(i) ==
  /\ tasks' = RemoveAt(tasks, i)
  /\ failed' = failed \cup {tasks[i].channel}
  /\ alert' = IF tasks[i].followed THEN "ended" ELSE alert
  /\ UNCHANGED <<reach, newer>>

TaskSucceeds(i) ==
  /\ tasks[i].channel \in reach
  /\ tasks' = RemoveAt(tasks, i)
  /\ failed' = failed \ {tasks[i].channel}
  /\ alert' = IF tasks[i].followed THEN "ended" ELSE alert
  /\ UNCHANGED <<reach, newer>>

\* Tasks end in any order.
TaskEnds == \E i \in DOMAIN tasks : TaskFails(i) \/ TaskSucceeds(i)

ServiceChanges ==
  /\ \E c \in Channels : reach' = IF c \in reach THEN reach \ {c} ELSE reach \cup {c}
  /\ UNCHANGED <<tasks, failed, alert, newer>>

\* The process ends: tasks that are pending are lost.
Forget ==
  /\ tasks' = <<>> /\ failed' = {}
  /\ alert' = "none" /\ newer' = 0
  /\ UNCHANGED reach
-----------------------------------------------------------------------------
\* A critical alert gives way only to newer critical ones that fill the cap:
\* texts, however many, do not push it out of the queue.
AlertKept == alert = "displaced" => newer >= MAX_CONCURRENT_TASKS - 1
===============================================================================
