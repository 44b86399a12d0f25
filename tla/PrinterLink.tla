------------------------------ MODULE PrinterLink ------------------------------
(***************************************************************************)
(* The status link of PrinterClient (sentinel/printer/client.py): the       *)
(* listener with its connection generations, the deltas it merges, the      *)
(* GET_STATUS snapshot of each connection, the provisional view that        *)
(* bridges a reconnect, and what status() serves of all that.               *)
(*                                                                         *)
(* Of a status only the print state is kept.  The printer pushes it when it *)
(* changes; other pushes carry no state.  A connection delivers in order    *)
(* and without loss until it is silently dead or ends; a snapshot travels   *)
(* on a session of its own and may overtake pushes or be overtaken.         *)
(* Generations are compared for equality only, so the model keeps whether   *)
(* the baseline and the snapshot in flight belong to the current one.       *)
(***************************************************************************)
EXTENDS Integers, Sequences

CONSTANTS
  SILENCE,    \* _STATUS_SILENCE_S
  PROV_MAX,   \* _PROVISIONAL_MAX_S
  MAX_WIRE    \* bound: pushes in flight

ASSUME LinkAssumption ==
  /\ SILENCE \in Nat /\ PROV_MAX \in Nat /\ SILENCE <= PROV_MAX
  /\ MAX_WIRE \in Nat \ {0}

States == {"idle", "printing"}
Far == PROV_MAX + 1
Ages == 0..Far

VARIABLES
  truth,       \* what the printer does
  since,       \* ghost: for each state, the time since the printer was last in it
  conn,        \* the listener: "off", "down" (connecting), "up", "dead" (silently), "ended"
  wire,        \* pushes on their way
  serial,      \* _serial_number is known
  acc,         \* _accumulated_data: "empty", "delta" (no print state) or a state
  baseline,    \* _baseline_gen = _conn_gen
  provisional, \* _provisional: "none" or a state
  provAge,     \* age of _provisional_at
  updateAge,   \* age of _last_update_time
  snap,        \* the snapshot task
  word         \* ghost: the last state the client was told

vars == <<truth, since, conn, wire, serial, acc, baseline, provisional, provAge, updateAge,
          snap, word>>
printerVars == <<truth, since>>
dataVars == <<acc, baseline, provisional, provAge, updateAge>>

\* step: "none", "loop" (waiting to ask), "asked", "answered" (the answer travels) or
\* "closing" (cancelled, its session not closed yet); current: asked in this generation.
SnapTasks == [step : {"none", "loop", "asked", "answered", "closing"}, current : BOOLEAN,
              value : States \cup {"none"}]
NoSnap == [step |-> "none", current |-> FALSE, value |-> "none"]

TypeOK ==
  /\ truth \in States /\ since \in [States -> Ages]
  /\ conn \in {"off", "down", "up", "dead", "ended"}
  /\ wire \in Seq(States \cup {"delta"}) /\ Len(wire) <= MAX_WIRE
  /\ serial \in BOOLEAN /\ baseline \in BOOLEAN
  /\ acc \in States \cup {"empty", "delta"}
  /\ provisional \in States \cup {"none"}
  /\ baseline => provisional = "none"
  /\ provAge \in Ages /\ updateAge \in Ages
  /\ snap \in SnapTasks
  /\ word \in States \cup {"none"}

SinceNow(state) == [s \in States |-> IF s = state THEN 0 ELSE Far]

Init ==
  /\ truth \in States /\ since = SinceNow(truth)
  /\ conn = "off" /\ wire = <<>> /\ serial = FALSE
  /\ acc = "empty" /\ baseline = FALSE
  /\ provisional = "none" /\ provAge = Far /\ updateAge = Far
  /\ snap = NoSnap /\ word = "none"

-----------------------------------------------------------------------------
(***************************************************************************)
(* What is known.                                                          *)
(***************************************************************************)

\* _current_view.
View ==
  IF baseline THEN IF acc \in States THEN acc ELSE "unknown"
  ELSE IF /\ provisional # "none" /\ provAge <= PROV_MAX
          /\ "printing" = IF acc \in States THEN acc ELSE provisional
       THEN "printing" ELSE "unknown"

\* status() raises after SILENCE unless a provisional view bridges a reconnect; with no
\* listener it starts one and waits.
Silent == (baseline \/ provisional = "none") /\ updateAge > SILENCE
Served == IF conn = "off" \/ Silent THEN "unknown" ELSE View

\* Fault: an older printing view outlives a push that contradicts it.
RetireKeeps ==
  /\ acc' = "empty"
  /\ IF acc = "empty" \/ View = "unknown"
     THEN UNCHANGED <<provisional, provAge>>
     ELSE /\ provisional' = View
          /\ provAge' = IF baseline THEN updateAge ELSE provAge

\* _retire_connection.
Retire ==
  /\ acc' = "empty"
  /\ IF acc = "empty" THEN UNCHANGED <<provisional, provAge>>
     ELSE IF View = "unknown" THEN provisional' = "none" /\ UNCHANGED provAge
     ELSE /\ provisional' = View
          /\ provAge' = IF baseline THEN updateAge ELSE provAge

\* _conn_gen += 1, and what becomes of the snapshot task meanwhile.
NewGeneration(task) ==
  /\ baseline' = FALSE
  /\ snap' = [task EXCEPT !.current = FALSE]

\* _ensure_snapshot.
Ensured(task) == IF task.step = "none" THEN [NoSnap EXCEPT !.step = "loop"] ELSE task

\* task.cancel(): a session in flight takes time to close.
Cancelled(task) ==
  IF task.step \in {"asked", "answered"} THEN [task EXCEPT !.step = "closing"]
  ELSE IF task.step = "loop" THEN NoSnap ELSE task

-----------------------------------------------------------------------------
(***************************************************************************)
(* The listener.                                                           *)
(***************************************************************************)

\* _fetch_status with no listener: everything is cleared and one is started.  The
\* baseline still belongs to the generation that has ended.
StartListener ==
  /\ conn = "off"
  /\ conn' = "down"
  /\ acc' = "empty" /\ provisional' = "none" /\ updateAge' = Far
  /\ snap' = NoSnap
  /\ UNCHANGED <<printerVars, wire, serial, baseline, provAge, word>>

\* _fetch_status after silence: the listener is stopped, then the snapshot.
StopSilent ==
  /\ conn # "off"
  /\ View # "unknown" /\ Silent
  /\ conn' = "off" /\ wire' = <<>>
  /\ snap' = NoSnap
  /\ UNCHANGED <<printerVars, serial, dataVars, word>>

Connect ==
  /\ conn \in {"down", "ended"}
  /\ conn' = "up" /\ wire' = <<>>
  /\ Retire
  /\ NewGeneration(IF serial THEN Ensured(snap) ELSE snap)
  /\ UNCHANGED <<printerVars, serial, updateAge, word>>

\* A connection that fails, is cut, or stays silent for the read timeout.
LoseConnection ==
  /\ conn \in {"down", "ended", "up", "dead"}
  /\ conn' = "down" /\ wire' = <<>>
  /\ Retire
  /\ updateAge' = Far
  /\ NewGeneration(Cancelled(snap))
  /\ UNCHANGED <<printerVars, serial, word>>

\* The printer refuses the password: the listener ends, its data stay till the next.
RefuseLogin ==
  /\ conn \in {"down", "ended"}
  /\ conn' = "off"
  /\ UNCHANGED <<printerVars, wire, serial, dataVars, snap, word>>

\* The broker closes the stream after a push (acc stands for has_received): no new
\* generation until the next connection.
EndConnection ==
  /\ conn = "up" /\ acc # "empty"
  /\ conn' = "ended" /\ wire' = <<>>
  /\ UNCHANGED <<printerVars, serial, dataVars, snap, word>>

\* The peer is gone without a word: pushes are lost from now on.
GoDead ==
  /\ conn = "up"
  /\ conn' = "dead" /\ wire' = <<>>
  /\ UNCHANGED <<printerVars, serial, dataVars, snap, word>>

\* Fault: a snapshot is asked for only when a connection is made.
ReceivePlain ==
  /\ conn = "up" /\ wire # <<>>
  /\ wire' = Tail(wire)
  /\ acc' = IF Head(wire) \in States THEN Head(wire) ELSE IF acc = "empty" THEN "delta" ELSE acc
  /\ word' = IF Head(wire) \in States THEN Head(wire) ELSE word
  /\ updateAge' = 0 /\ serial' = TRUE
  /\ UNCHANGED <<printerVars, conn, baseline, provisional, provAge, snap>>

Receive ==
  /\ conn = "up" /\ wire # <<>>
  /\ wire' = Tail(wire)
  /\ acc' = IF Head(wire) \in States THEN Head(wire) ELSE IF acc = "empty" THEN "delta" ELSE acc
  /\ word' = IF Head(wire) \in States THEN Head(wire) ELSE word
  /\ updateAge' = 0 /\ serial' = TRUE
  /\ UNCHANGED <<printerVars, conn, baseline, provisional, provAge>>
  /\ snap' = IF ~baseline /\ View' = "unknown" THEN Ensured(snap) ELSE snap

-----------------------------------------------------------------------------
(***************************************************************************)
(* The snapshot task.                                                      *)
(***************************************************************************)

\* The rate limit and a command in flight may hold this up.
Ask ==
  /\ snap.step = "loop"
  /\ snap' = IF baseline THEN NoSnap ELSE [step |-> "asked", current |-> TRUE, value |-> "none"]
  /\ UNCHANGED <<printerVars, conn, wire, serial, dataVars, word>>

\* The printer looks at its state and answers.
Answer ==
  /\ snap.step = "asked"
  /\ snap' = [snap EXCEPT !.step = "answered", !.value = truth]
  /\ UNCHANGED <<printerVars, conn, wire, serial, dataVars, word>>

\* No or no usable answer: another attempt after a while.
AskFails ==
  /\ snap.step \in {"asked", "answered"}
  /\ snap' = [NoSnap EXCEPT !.step = "loop"]
  /\ UNCHANGED <<printerVars, conn, wire, serial, dataVars, word>>

\* Fault: the generation is not compared.
MergeAny ==
  /\ snap.step = "answered"
  /\ acc' = IF acc \in States THEN acc ELSE snap.value
  /\ word' = acc'
  /\ baseline' = TRUE /\ provisional' = "none"
  /\ snap' = NoSnap
  /\ UNCHANGED <<printerVars, conn, wire, serial, provAge, updateAge>>

\* Fault: the snapshot overwrites what pushes have told, and the provisional view stays.
MergeOver ==
  /\ snap.step = "answered"
  /\ IF snap.current
     THEN acc' = snap.value /\ word' = acc' /\ baseline' = TRUE /\ snap' = NoSnap
     ELSE snap' = [NoSnap EXCEPT !.step = "loop"] /\ UNCHANGED <<acc, word, baseline>>
  /\ UNCHANGED <<printerVars, conn, wire, serial, provisional, provAge, updateAge>>

\* The answer of this generation fills what no push has told; another is dropped.
Merge ==
  /\ snap.step = "answered"
  /\ IF snap.current
     THEN /\ acc' = IF acc \in States THEN acc ELSE snap.value
          /\ word' = acc'
          /\ baseline' = TRUE /\ provisional' = "none"
          /\ snap' = NoSnap
     ELSE /\ snap' = [NoSnap EXCEPT !.step = "loop"]
          /\ UNCHANGED <<acc, word, baseline, provisional>>
  /\ UNCHANGED <<printerVars, conn, wire, serial, provAge, updateAge>>

SnapCloses ==
  /\ snap.step = "closing"
  /\ snap' = NoSnap
  /\ UNCHANGED <<printerVars, conn, wire, serial, dataVars, word>>

-----------------------------------------------------------------------------
(***************************************************************************)
(* The printer, its replacement, and time.                                 *)
(***************************************************************************)

Send(push) == wire' = IF conn = "up" THEN Append(wire, push) ELSE wire

Change ==
  /\ Len(wire) < MAX_WIRE
  /\ \E s \in States \ {truth} : truth' = s /\ since' = [since EXCEPT ![s] = 0] /\ Send(s)
  /\ UNCHANGED <<conn, serial, dataVars, snap, word>>

Push ==
  /\ conn = "up" /\ Len(wire) < MAX_WIRE
  /\ Send("delta")
  /\ UNCHANGED <<printerVars, conn, serial, dataVars, snap, word>>

\* reconfigure(): another printer at another address.
Reconfigure ==
  /\ \E s \in States : truth' = s /\ since' = SinceNow(s)
  /\ conn' = "off" /\ wire' = <<>> /\ serial' = FALSE
  /\ acc' = "empty" /\ provisional' = "none" /\ updateAge' = Far
  /\ snap' = NoSnap
  /\ UNCHANGED <<baseline, provAge, word>>

Older(age) == IF age < Far THEN age + 1 ELSE age

\* A unit is longer than a push or an answer travels.
Tick ==
  /\ wire = <<>> /\ snap.step # "answered"
  /\ since' = [s \in States |-> IF s = truth THEN 0 ELSE Older(since[s])]
  /\ provAge' = Older(provAge) /\ updateAge' = Older(updateAge)
  /\ UNCHANGED <<truth, conn, wire, serial, acc, baseline, provisional, snap, word>>

Listener == StartListener \/ StopSilent \/ Connect \/ Receive
Snapshot == Ask \/ Answer \/ Merge \/ SnapCloses

Next ==
  \/ Listener \/ LoseConnection \/ RefuseLogin \/ EndConnection \/ GoDead
  \/ Snapshot \/ AskFails
  \/ Change \/ Push \/ Reconfigure \/ Tick

Spec == Init /\ [][Next]_vars

\* The loops run, status() is called, the printer pushes, time passes, and a request
\* that is repeated for ever is answered at last.
FairSpec ==
  /\ Spec
  /\ WF_vars(StartListener) /\ WF_vars(Connect) /\ WF_vars(Receive) /\ WF_vars(Push)
  /\ WF_vars(Ask) /\ WF_vars(SnapCloses) /\ SF_vars(Tick)
  /\ SF_vars(Answer) /\ SF_vars(Merge)

-----------------------------------------------------------------------------
(***************************************************************************)
(* Properties.                                                             *)
(***************************************************************************)

\* What status() serves is never older than the limits documented: an idle printer was
\* idle within the silence limit, a printing one printed within the provisional limit.
\* This takes the generations, the fill-only merge and the age of a chained view.
ServedIsRecent ==
  /\ Served = "idle" => since["idle"] <= SILENCE
  /\ Served = "printing" => since["printing"] <= PROV_MAX

\* A view never falls back behind what the printer has told since: a push that
\* contradicts "printing" ends a provisional view for good, however many connections
\* come after it.
NoOldWord == View # "unknown" => View = word

\* Once the link stays up with pushes in time, the print state gets known and stays so, also when the
\* snapshot's task was cancelled or still closing as the connection came up.
BecomesKnown ==
  <>[](conn = "up" /\ updateAge <= SILENCE) => <>[](Served # "unknown")
=============================================================================
