---------------------------- MODULE PrinterCommand ----------------------------
(***************************************************************************)
(* Commands of PrinterClient (sentinel/printer/client.py): pause(),         *)
(* resume() and stop() with their debounce, the control lock, the session   *)
(* of each attempt (connect, register, publish, ack) and its retries, the   *)
(* printer that executes, refuses, loses or answers late, cancellation, and *)
(* reconfigure(), which points the client at another printer.               *)
(*                                                                         *)
(* Calls are identified by who makes them and end once.  A command id is    *)
(* the call and its attempt: _request_counter never gives one twice.  The   *)
(* registered ids of a session are left out, as are _stop_pending (module   *)
(* Watcher) and the status purpose with its lock of its own.                *)
(***************************************************************************)
EXTENDS Integers, Sequences

CONSTANTS
  Calls,       \* invocations of pause(), resume() and stop()
  Methods,     \* which of "pause", "resume", "stop" are called
  ATTEMPTS,    \* _RETRY_ATTEMPTS
  DEBOUNCE,    \* _PAUSE_DEBOUNCE_S, in units of Tick
  Printers,    \* hosts the client may be pointed at
  NoSerial,    \* _serial_number is None
  CANCELS      \* TRUE: callers may be cancelled

ASSUME CommandAssumption ==
  /\ Methods \subseteq {"pause", "resume", "stop"}
  /\ ATTEMPTS \in Nat \ {0}
  /\ DEBOUNCE \in Nat \ {0}
  /\ NoSerial \notin Printers
  /\ CANCELS \in BOOLEAN

VARIABLES
  phase,     \* the await each call is suspended in, or its outcome
  method,    \* what it sends
  attempt,   \* tenacity's attempt number
  session,   \* the printer its session reaches
  queue,     \* _reg_locks["control"]: holder first, then the waiting calls
  anchor,    \* time since _last_pause_at, up to DEBOUNCE
  host,      \* _host
  serial,    \* _serial_number, as the printer it names
  requests,  \* published commands the printer has not looked at
  acks,      \* answers on their way
  executed,  \* ghost: executions of each call
  aim        \* ghost: the printer of each call when it was made

vars == <<phase, method, attempt, session, queue, anchor, host, serial, requests, acks,
          executed, aim>>

\* The variables of one session.
sessionVars == <<method, session, aim, host, serial>>
wire == <<requests, acks, executed>>

InSession == {"connect", "register", "ack"}
Outcomes == {"ok", "failed", "rejected", "unknown", "cancelled", "debounced"}
CmdIds == [call : Calls, attempt : 1..ATTEMPTS]

TypeOK ==
  /\ phase \in [Calls -> {"none", "lock", "backoff"} \cup InSession \cup Outcomes]
  /\ method \in [Calls -> {"pause", "resume", "stop"}]
  /\ attempt \in [Calls -> 1..ATTEMPTS]
  /\ session \in [Calls -> Printers \cup {NoSerial}]
  /\ queue \in Seq(Calls)
  /\ \A c \in Calls : phase[c] \in InSession => queue # <<>> /\ Head(queue) = c
  /\ anchor \in 0..DEBOUNCE
  /\ host \in Printers /\ serial \in Printers \cup {NoSerial}
  /\ requests \subseteq [id : CmdIds, at : Printers]
  /\ acks \subseteq [id : CmdIds, at : Printers, ok : BOOLEAN]
  /\ executed \in [Calls -> Nat] /\ aim \in [Calls -> Printers]

Init ==
  /\ phase = [c \in Calls |-> "none"]
  /\ method \in [Calls -> Methods]
  /\ attempt = [c \in Calls |-> 1]
  /\ host \in Printers
  /\ session = [c \in Calls |-> host] /\ aim = session
  /\ serial \in {host, NoSerial}
  /\ queue = <<>>
  /\ anchor = DEBOUNCE
  /\ requests = {} /\ acks = {}
  /\ executed = [c \in Calls |-> 0]

IdOf(c) == [call |-> c, attempt |-> attempt[c]]
Goto(c, where) == phase' = [phase EXCEPT ![c] = where]

\* A call is in the queue at most once: holding the lock or waiting for it.
Queued(c) == \E i \in DOMAIN queue : queue[i] = c
Without(c) ==
  IF Queued(c)
  THEN LET i == CHOOSE i \in DOMAIN queue : queue[i] = c
       IN  SubSeq(queue, 1, i - 1) \o SubSeq(queue, i + 1, Len(queue))
  ELSE queue

-----------------------------------------------------------------------------
(***************************************************************************)
(* Calls and their ends.                                                   *)
(***************************************************************************)

\* pause() within the debounce window raises; otherwise it takes the anchor.
Begin(c) ==
  /\ phase[c] = "none"
  /\ IF method[c] = "pause" /\ anchor < DEBOUNCE
     THEN Goto(c, "debounced") /\ UNCHANGED <<queue, anchor>>
     ELSE /\ Goto(c, "lock")
          /\ queue' = Append(queue, c)
          /\ anchor' = IF method[c] = "pause" THEN 0 ELSE anchor
  /\ aim' = [aim EXCEPT ![c] = host]
  /\ UNCHANGED <<method, attempt, session, host, serial, wire>>

\* Fault: a failed pause keeps the anchor.
AnchorAfterKept(what, outcome) ==
  IF what = "pause" /\ outcome \in {"unknown", "cancelled"} THEN 0
  ELSE IF what = "resume" /\ outcome = "ok" THEN DEBOUNCE ELSE anchor

\* _last_pause_at after a call: an unknown pause starts the window again, a failed
\* one and a confirmed resume end it.
AnchorAfter(what, outcome) ==
  IF what = "pause" /\ outcome \in {"unknown", "cancelled"} THEN 0
  ELSE IF (what = "pause" /\ outcome # "ok") \/ (what = "resume" /\ outcome = "ok")
       THEN DEBOUNCE ELSE anchor

\* Fault: a cancelled or failed call keeps the lock.
EndKeepsLock(c, outcome) ==
  /\ Goto(c, outcome)
  /\ queue' = IF outcome = "ok" THEN Without(c) ELSE queue
  /\ anchor' = AnchorAfter(method[c], outcome)
  /\ UNCHANGED <<attempt, sessionVars>>

End(c, outcome) ==
  /\ Goto(c, outcome)
  /\ queue' = Without(c)
  /\ anchor' = AnchorAfter(method[c], outcome)
  /\ UNCHANGED <<attempt, sessionVars>>

\* Errors that _with_retry retries: the lock is released for the backoff.
FailAttempt(c) ==
  IF attempt[c] < ATTEMPTS
  THEN /\ Goto(c, "backoff")
       /\ queue' = Without(c)
       /\ UNCHANGED <<attempt, anchor, sessionVars>>
  ELSE End(c, "failed")

Retry(c) ==
  /\ phase[c] = "backoff"
  /\ Goto(c, "lock")
  /\ attempt' = [attempt EXCEPT ![c] = @ + 1]
  /\ queue' = Append(queue, c)
  /\ UNCHANGED <<anchor, sessionVars, wire>>

-----------------------------------------------------------------------------
(***************************************************************************)
(* One session: _send_command and _send_on.                                *)
(***************************************************************************)

\* Fault: the session is opened without the lock.
StartSessionUnlocked(c) ==
  /\ phase[c] = "lock"
  /\ UNCHANGED wire
  /\ \/ serial = NoSerial /\ FailAttempt(c)
     \/ /\ serial # NoSerial
        /\ Goto(c, "connect")
        /\ session' = [session EXCEPT ![c] = host]
        /\ UNCHANGED <<method, attempt, queue, anchor, aim, host, serial>>

\* The lock is acquired and the host is read.
StartSession(c) ==
  /\ phase[c] = "lock"
  /\ Head(queue) = c
  /\ UNCHANGED wire
  /\ \/ serial = NoSerial /\ FailAttempt(c)
     \/ /\ serial # NoSerial
        /\ Goto(c, "connect")
        /\ session' = [session EXCEPT ![c] = host]
        /\ UNCHANGED <<method, attempt, queue, anchor, aim, host, serial>>

\* The host does not resolve or connect; its address is refused, which is not
\* retried; or the session is open.  Its topics carry the serial of this moment: if it
\* is another printer's, nothing there will answer.
Connect(c) ==
  /\ phase[c] = "connect"
  /\ UNCHANGED wire
  /\ \/ FailAttempt(c)
     \/ End(c, "failed")
     \/ /\ serial # NoSerial
        /\ Goto(c, "register")
        /\ session' = [session EXCEPT ![c] = IF serial = @ THEN @ ELSE NoSerial]
        /\ UNCHANGED <<method, attempt, queue, anchor, aim, host, serial>>

\* The command is handed to the MQTT library, which may refuse it at once.
Publish(c) ==
  /\ phase[c] = "register"
  /\ session[c] # NoSerial
  /\ Goto(c, "ack")
  /\ requests' = requests \cup {[id |-> IdOf(c), at |-> session[c]]}
  /\ UNCHANGED <<attempt, queue, anchor, sessionVars, acks, executed>>

\* No or a negative answer to the registration, or a publish that is refused.
RegisterFails(c) ==
  /\ phase[c] = "register"
  /\ FailAttempt(c)
  /\ UNCHANGED wire

\* Fault: a lost ack is retried like any other timeout.
NoAckRetried(c) ==
  /\ phase[c] = "ack"
  /\ FailAttempt(c)
  /\ UNCHANGED wire

\* Timeout, closed connection or malformed answer after the publish.
NoAck(c) ==
  /\ phase[c] = "ack"
  /\ End(c, "unknown")
  /\ UNCHANGED wire

\* _await_command_ack: answers with another id are skipped.
Ack(c) ==
  /\ phase[c] = "ack"
  /\ \E a \in acks :
       /\ a.at = session[c]
       /\ acks' = acks \ {a}
       /\ IF a.id = IdOf(c)
          THEN End(c, IF a.ok THEN "ok" ELSE "rejected")
          ELSE UNCHANGED <<phase, attempt, queue, anchor, sessionVars>>
  /\ UNCHANGED <<requests, executed>>

Cancel(c) ==
  /\ CANCELS
  /\ phase[c] \in {"lock", "backoff"} \cup InSession
  /\ End(c, "cancelled")
  /\ UNCHANGED wire

-----------------------------------------------------------------------------
(***************************************************************************)
(* The printer, and changing it.                                           *)
(***************************************************************************)

\* The printer executes a command, refuses it, or never sees it; its answer travels
\* or is lost.
Printer ==
  \E r \in requests :
    /\ requests' = requests \ {r}
    /\ \/ /\ executed' = [executed EXCEPT ![r.id.call] = @ + 1]
          /\ \/ acks' = acks \cup {[id |-> r.id, at |-> r.at, ok |-> TRUE]}
             \/ UNCHANGED acks
       \/ /\ acks' = acks \cup {[id |-> r.id, at |-> r.at, ok |-> FALSE]}
          /\ UNCHANGED executed
       \/ UNCHANGED <<acks, executed>>
    /\ UNCHANGED <<phase, attempt, queue, anchor, sessionVars>>

\* An answer that arrives while no session listens.
LoseAck ==
  \E a \in acks :
    /\ acks' = acks \ {a}
    /\ UNCHANGED <<phase, attempt, queue, anchor, sessionVars, requests, executed>>

\* reconfigure(): the host changes at once, the serial is dropped once the listener
\* has been stopped.
Reconfigure ==
  \/ /\ \E p \in Printers : p # host /\ host' = p
     /\ serial = host
     /\ UNCHANGED <<serial, phase, method, attempt, session, queue, anchor, aim, wire>>
  \/ /\ serial # NoSerial /\ serial # host
     /\ serial' = NoSerial
     /\ UNCHANGED <<host, phase, method, attempt, session, queue, anchor, aim, wire>>

\* A status push of the new listener.
LearnSerial ==
  /\ serial = NoSerial
  /\ serial' = host
  /\ UNCHANGED <<host, phase, method, attempt, session, queue, anchor, aim, wire>>

Tick ==
  /\ anchor < DEBOUNCE
  /\ anchor' = anchor + 1
  /\ UNCHANGED <<phase, attempt, queue, sessionVars, requests, acks, executed>>

Proceed(c) ==
  \/ Retry(c) \/ StartSession(c) \/ Connect(c) \/ Publish(c) \/ RegisterFails(c)
  \/ NoAck(c) \/ Ack(c)

Next ==
  \/ \E c \in Calls : Begin(c) \/ Proceed(c) \/ Cancel(c)
  \/ Printer \/ LoseAck \/ Reconfigure \/ LearnSerial \/ Tick

Spec == Init /\ [][Next]_vars

\* Every await of a call ends by an answer, an error or its timeout.
FairSpec == Spec /\ \A c \in Calls : WF_vars(Proceed(c))

-----------------------------------------------------------------------------
(***************************************************************************)
(* Properties.                                                             *)
(***************************************************************************)

StateOf ==
  [c \in Calls |->
     IF phase[c] \in {"none", "ok", "unknown"} THEN phase[c]
     ELSE IF phase[c] = "cancelled" THEN "unknown"
     ELSE IF phase[c] \in {"failed", "rejected", "debounced"} THEN "failed"
     ELSE "open"]

Promise == INSTANCE Command WITH state <- StateOf, executions <- executed

\* Retries, lost and late answers, cancellations and other callers notwithstanding, a
\* call is executed at most once, "ok" is reported only of an executed call and an
\* error that may be retried only of one that is never executed.
KeepsPromise == Promise!Spec

\* A pause is refused by the debounce only while another one may have reached the
\* printer: a pause that failed, under whatever other calls, does not block the next.
DebounceHasCause ==
  anchor < DEBOUNCE =>
    \E c \in Calls : method[c] = "pause" /\ phase[c] \notin {"none", "failed", "rejected", "debounced"}

\* Every call ends: no attempt waits for ever and the lock reaches every caller.
CallsEnd ==
  \A c \in Calls : phase[c] \in {"lock", "backoff"} \cup InSession ~> phase[c] \in Outcomes

\* close(): a stop intent "must not carry over" to a printer it was not made for.
StaysOnPrinter ==
  \A r \in requests : r.at = aim[r.id.call]
=============================================================================
