---------------------------- MODULE Lifecycle_proofs ----------------------------
(***************************************************************************)
(* Proofs about Lifecycle: the print history has one open row at most, and  *)
(* a stop keeps its order, for any number of files and rows and any limits  *)
(* that fit into the grace period.                                         *)
(***************************************************************************)
EXTENDS Lifecycle, TLAPS

LEMMA Limits ==
  /\ DRAIN \in Nat /\ WAIT \in Nat /\ BOT \in Nat /\ GRACE \in Nat
  /\ DRAIN + WAIT + BOT < GRACE
  BY LifecycleAssumption, GraceAssumption

\* Before the loop runs nothing is in memory and no time is counted.
NothingYet ==
  proc \in {"down", "booting"} =>
    pc = "none" /\ ~pause /\ clock = 0 /\ timer = 0 /\ ~waited

\* The loop waits for a pause in the tick that published it.
PauseIsAwaited ==
  proc \in {"running", "draining"} =>
    /\ pc \notin {"none", "wait"}
    /\ pause <=> pc = "publish"
    /\ ~waited

\* A cancelled watcher is unwound, or waits for its pause within the limit.
Unwinding ==
  /\ proc = "unwinding" => pc \in {"none", "wait"} /\ (pc = "none" /\ pause => waited)
  /\ proc \in {"stopping", "closing"} => pc = "none" /\ (pause => waited)

\* What the parts of the shutdown before this one have used up.
Spent(stage) ==
  IF stage = "draining" THEN 0 ELSE IF stage = "unwinding" THEN DRAIN ELSE DRAIN + WAIT

\* The clock never runs ahead of the limits of the parts it went through.
InBudget ==
  /\ proc = "running" => clock = 0 /\ timer = 0
  /\ proc \in {"draining", "unwinding", "stopping"} =>
       clock <= Spent(proc) + timer /\ timer <= Limit(proc)

\* The row of a job that is over is closed before the job is forgotten, and a
\* job is recorded only when there is none.
RowFollowsJob ==
  proc \in {"running", "draining"} =>
    /\ pc = "start" => job = NoJob
    /\ pc = "alert" => open \subseteq orphans

IInv ==
  /\ TypeOK
  /\ NothingYet /\ PauseIsAwaited /\ Unwinding /\ InBudget
  /\ RowFollowsJob /\ OneOpenRow

-----------------------------------------------------------------------------
(***************************************************************************)
(* Types.                                                                  *)
(***************************************************************************)

LEMMA CountOrGoOnTypes ==
  ASSUME NEW p \in {"none", "printing", "paused"}, pause \in BOOLEAN, CountOrGoOn(p)
  PROVE  /\ pc' \in {"count", "idle", "publish"}
         /\ prev' \in {"none", "printing", "paused"}
         /\ pause' \in BOOLEAN
  BY DEF CountOrGoOn

LEMMA SameJob ==
  ASSUME NEW report \in Reports, NEW state \in {"idle", "printing", "paused", "complete"}
  PROVE  [report EXCEPT !.state = state] \in Reports
  BY Zenon DEF Reports

LEMMA SameState ==
  ASSUME NEW report \in Reports, NEW f \in Files \cup {NoFile}
  PROVE  [report EXCEPT !.file = f] \in Reports
  BY Zenon DEF Reports

LEMMA ReportFile ==
  ASSUME NEW report \in Reports
  PROVE  report.file \in Files \cup {NoFile}
  BY DEF Reports

LEMMA OffReport == Off \in Reports
  BY DEF Off, Reports

LEMMA GoneTypes ==
  ASSUME TypeOK, Gone
  PROVE  TypeOK'
  <1>1. printer' \in Reports
    <2>1. printer' \in {printer, [printer EXCEPT !.state = "paused"]}
      BY Zenon DEF Gone
    <2>2. printer \in Reports
      BY DEF TypeOK
    <2> QED BY <2>1, <2>2, SameJob
  <1>2. /\ pc' = "none" /\ obs' = Off /\ job' = NoJob /\ file' = NoFile /\ prev' = "none"
        /\ timer' = 0 /\ clock' = 0 /\ waited' = FALSE /\ pause' = FALSE /\ proc' = "down"
        /\ open' = open /\ orphans' = orphans /\ link' = link
    BY Zenon DEF Gone, Fresh
  <1>3. 0 \in 0..GRACE
    BY Limits
  <1>4. obs' \in Reports
    BY <1>2, OffReport
  <1> QED BY <1>1, <1>2, <1>3, <1>4 DEF TypeOK

LEMMA TickTypes ==
  ASSUME TypeOK, TickStep
  PROVE  TypeOK'
  <1>1. CASE TickIdle
    BY <1>1 DEF Observe, TickIdle, TypeOK, shutdown
  <1>2. CASE TickPrinting
    BY <1>2, CountOrGoOnTypes, ReportFile DEF Observe, TickPrinting, TypeOK, shutdown
  <1>3. CASE RecordEnd
    BY <1>3, ReportFile DEF RecordEnd, CloseRow, JobOver, TypeOK, shutdown
  <1>4. CASE Announced
    BY <1>4, ReportFile DEF Announced, JobOver, TypeOK, shutdown
  <1>5. CASE RecordStart
    BY <1>5, CountOrGoOnTypes DEF RecordStart, OpenRow, TypeOK, shutdown
  <1>6. CASE CountPause
    BY <1>6 DEF CountPause, TypeOK, shutdown
  <1> QED BY <1>1, <1>2, <1>3, <1>4, <1>5, <1>6 DEF TickStep

LEMMA ProcessTypes ==
  ASSUME TypeOK, Start \/ Boot \/ BootFails \/ Crash \/ StopSignal \/ ShutdownStep \/ Kill
  PROVE  TypeOK'
  <1>1. CASE Start \/ BootFails \/ StopSignal \/ Unwound \/ BotStopped
    BY <1>1, Limits
       DEF Start, BootFails, StopSignal, Unwound, BotStopped, Stages, TypeOK, watcher, shutdown
  <1>2. CASE Boot
    BY <1>2 DEF Boot, Reconcile, TypeOK, shutdown
  <1>3. CASE Drained
    BY <1>3, Limits DEF Drained, CancelledWrite, CloseRow, OpenRow, Stages, TypeOK
  <1>4. CASE WaitIsOver
    BY <1>4 DEF WaitIsOver, TypeOK
  <1> QED BY <1>1, <1>2, <1>3, <1>4, GoneTypes DEF Crash, Kill, Exit, ShutdownStep

LEMMA OtherTypes ==
  ASSUME TypeOK, PauseEnds \/ PrinterChanges \/ LinkChanges \/ TimePasses \/ ClearData \/ Prune, InBudget
  PROVE  TypeOK'
  <1>1. CASE PauseEnds
    <2>1. printer' \in {printer, [printer EXCEPT !.state = "paused"]}
      BY <1>1 DEF PauseEnds
    <2>2. printer' \in Reports
      BY <2>1, SameJob DEF TypeOK
    <2> QED BY <1>1, <2>2 DEF PauseEnds, TypeOK, shutdown
  <1>2. CASE PrinterChanges
    <2>1. \/ \E f \in Files \cup {NoFile} : printer' = [state |-> "printing", file |-> f]
          \/ \E f \in Files : printer' = [printer EXCEPT !.file = f]
          \/ \E state \in {"printing", "paused", "complete"} :
               printer' = [printer EXCEPT !.state = state]
          \/ printer' = Off
      BY <1>2 DEF PrinterChanges
    <2>2. printer \in Reports
      BY DEF TypeOK
    <2>3. printer' \in Reports
      <3>1. CASE \E f \in Files \cup {NoFile} : printer' = [state |-> "printing", file |-> f]
        BY <3>1 DEF Reports
      <3>2. CASE \E f \in Files : printer' = [printer EXCEPT !.file = f]
        BY <2>2, <3>2, SameState
      <3>3. CASE printer' = Off
        BY <3>3, OffReport
      <3>4. CASE \E state \in {"printing", "paused", "complete"} :
                   printer' = [printer EXCEPT !.state = state]
        BY <2>2, <3>4, SameJob
      <3> QED BY <2>1, <3>1, <3>2, <3>3, <3>4
    <2> QED BY <1>2, <2>3 DEF PrinterChanges, TypeOK, watcher, shutdown
  <1>3. CASE ClearData \/ Prune
    BY <1>3 DEF ClearData, Prune, DeleteRows, TypeOK, watcher, shutdown
  <1>4. CASE TimePasses
    <2>1. timer + 1 \in 0..GRACE
      BY <1>4, Limits DEF TimePasses, Limit, Stages, TypeOK
    <2>2. clock + 1 \in 0..GRACE
      BY <1>4, Limits DEF TimePasses, TypeOK
    <2> QED BY <1>4, <2>1, <2>2 DEF TimePasses, TypeOK, watcher
  <1>5. CASE LinkChanges
    BY <1>5 DEF LinkChanges, TypeOK, watcher, shutdown
  <1> QED BY <1>1, <1>2, <1>3, <1>4, <1>5

LEMMA NextTypes ==
  ASSUME TypeOK, InBudget, [Next]_vars
  PROVE  TypeOK'
  <1>1. CASE UNCHANGED vars
    BY <1>1 DEF vars, watcher, shutdown, TypeOK
  <1> QED BY <1>1, TickTypes, ProcessTypes, OtherTypes DEF Next

-----------------------------------------------------------------------------
(***************************************************************************)
(* The history.                                                            *)
(***************************************************************************)

History == RowFollowsJob /\ OneOpenRow

\* Whoever opens no row, keeps the job and does not go to "start" or "alert".
LEMMA SameHistory ==
  ASSUME TypeOK, History, open' = open, orphans' = orphans, job' = job,
         pc' \in {pc, "none", "wait", "idle", "count", "publish", "end"},
         proc' \in {"running", "draining"} => proc \in {"running", "draining"}
  PROVE  History'
  BY DEF TypeOK, History, RowFollowsJob, OneOpenRow

LEMMA JobOverHistory ==
  ASSUME open' \subseteq orphans', JobOver
  PROVE  History'
  BY DEF JobOver, History, RowFollowsJob, OneOpenRow

LEMMA TickHistory ==
  ASSUME TypeOK, History, proc \in {"running", "draining"}, TickStep
  PROVE  History'
  <1>1. CASE TickIdle
    BY <1>1, SameHistory DEF Observe, TickIdle
  <1>2. CASE TickPrinting
    <2>1. open' = open /\ orphans' = orphans /\ job' = job /\ proc' = proc
      BY <1>2 DEF TickPrinting
    <2>2. CASE job = NoJob /\ pc' = "start"
      BY <2>1, <2>2, LifecycleAssumption DEF TypeOK, History, RowFollowsJob, OneOpenRow
    <2>3. CASE pc' # "start"
      BY <1>2, <2>1, <2>3, SameHistory DEF Observe, TickPrinting, CountOrGoOn
    <2> QED BY <1>2, <2>2, <2>3 DEF Observe, TickPrinting, CountOrGoOn
  <1>3. CASE RecordEnd
    <2>1. CloseRow => open' \subseteq orphans'
      BY DEF CloseRow, History, OneOpenRow
    <2>2. CASE CloseRow /\ JobOver
      BY <2>1, <2>2, JobOverHistory
    <2>3. CASE CloseRow /\ pc' = "alert" /\ UNCHANGED <<job, file, prev>>
      BY <2>1, <2>3 DEF History, RowFollowsJob, OneOpenRow
    <2>4. CASE pc' = "idle" /\ UNCHANGED <<job, file, prev, open, orphans>>
      BY <1>3, <2>4, SameHistory DEF RecordEnd
    <2> QED BY <1>3, <2>2, <2>3, <2>4 DEF RecordEnd
  <1>4. CASE Announced
    BY <1>4, JobOverHistory DEF Announced, History, RowFollowsJob
  <1>5. CASE RecordStart
    <2>1. ASSUME NEW id \in Ids, OpenRow(id), job' = id, CountOrGoOn(prev)
          PROVE  History'
      <3>1. open \subseteq orphans
        BY <1>5, LifecycleAssumption DEF RecordStart, TypeOK, History, RowFollowsJob, OneOpenRow
      <3> QED BY <2>1, <3>1 DEF OpenRow, CountOrGoOn, History, RowFollowsJob, OneOpenRow
    <2>2. CASE pc' = "idle" /\ UNCHANGED <<open, job, prev, pause, orphans>>
      BY <1>5, <2>2, SameHistory DEF RecordStart
    <2> QED BY <1>5, <2>1, <2>2 DEF RecordStart
  <1>6. CASE CountPause
    BY <1>6, SameHistory DEF CountPause
  <1> QED BY <1>1, <1>2, <1>3, <1>4, <1>5, <1>6 DEF TickStep

LEMMA GoneHistory ==
  ASSUME Gone
  PROVE  History'
  BY DEF Gone, History, RowFollowsJob, OneOpenRow

LEMMA ProcessHistory ==
  ASSUME TypeOK, History, NothingYet,
         Start \/ Boot \/ BootFails \/ Crash \/ StopSignal \/ ShutdownStep \/ Kill
  PROVE  History'
  <1>1. CASE Start \/ BootFails \/ Unwound \/ BotStopped \/ WaitIsOver
    BY <1>1, SameHistory DEF Start, BootFails, Unwound, BotStopped, WaitIsOver, watcher
  <1>2. CASE StopSignal
    BY <1>2, SameHistory DEF StopSignal, watcher
  <1>3. CASE Boot
    BY <1>3 DEF Boot, Reconcile, History, RowFollowsJob, OneOpenRow
  <1>4. CASE Drained
    BY <1>4 DEF Drained, History, RowFollowsJob, OneOpenRow
  <1> QED BY <1>1, <1>2, <1>3, <1>4, GoneHistory DEF Crash, Kill, Exit, ShutdownStep

LEMMA OtherHistory ==
  ASSUME TypeOK, History, PauseEnds \/ PrinterChanges \/ LinkChanges \/ TimePasses \/ ClearData \/ Prune
  PROVE  History'
  <1>1. CASE PauseEnds \/ PrinterChanges \/ LinkChanges \/ TimePasses
    BY <1>1, SameHistory DEF PauseEnds, PrinterChanges, LinkChanges, TimePasses, watcher
  <1>2. CASE ClearData \/ Prune
    BY <1>2 DEF ClearData, Prune, DeleteRows, watcher, History, RowFollowsJob, OneOpenRow
  <1> QED BY <1>1, <1>2

-----------------------------------------------------------------------------
(***************************************************************************)
(* The shutdown.                                                           *)
(***************************************************************************)

Shutdown == NothingYet /\ PauseIsAwaited /\ Unwinding /\ InBudget

\* A tick is taken by a watcher that runs, and keeps it running.
LEMMA TickRuns ==
  ASSUME TypeOK, Shutdown, TickStep
  PROVE  proc \in {"running", "draining"}
  BY DEF TickStep, Observe, TickIdle, TickPrinting, RecordEnd, Announced, RecordStart, CountPause,
         TypeOK, Stages, Shutdown, NothingYet, Unwinding

LEMMA TickShutdown ==
  ASSUME TypeOK, Shutdown, TickStep
  PROVE  Shutdown'
  <1>1. proc \in {"running", "draining"} /\ UNCHANGED <<proc, shutdown>>
    BY TickRuns DEF TickStep, Observe, TickIdle, TickPrinting, RecordEnd, Announced, RecordStart, CountPause
  <1>2. ~pause /\ pc \notin {"none", "wait", "publish"}
    BY <1>1 DEF TickStep, Observe, TickIdle, TickPrinting, RecordEnd, Announced, RecordStart, CountPause,
               Shutdown, PauseIsAwaited
  <1>3. PauseIsAwaited'
    <2>1. (pause' <=> pc' = "publish") /\ pc' \notin {"none", "wait"}
      BY <1>2 DEF TickStep, Observe, TickIdle, TickPrinting, RecordEnd, Announced, RecordStart, CountPause,
                  CountOrGoOn, JobOver
    <2> QED BY <1>1, <2>1 DEF shutdown, Shutdown, PauseIsAwaited
  <1> QED BY <1>1, <1>3 DEF shutdown, Shutdown, NothingYet, Unwinding, InBudget, Limit, Spent

LEMMA GoneShutdown ==
  ASSUME Gone
  PROVE  Shutdown'
  BY DEF Gone, Fresh, Shutdown, NothingYet, PauseIsAwaited, Unwinding, InBudget

LEMMA ProcessShutdown ==
  ASSUME TypeOK, Shutdown,
         Start \/ Boot \/ BootFails \/ Crash \/ StopSignal \/ ShutdownStep \/ Kill
  PROVE  Shutdown'
  <1> USE DEF Shutdown, NothingYet, PauseIsAwaited, Unwinding, InBudget
  <1>1. CASE Start
    BY <1>1 DEF Start, watcher, shutdown
  <1>2. CASE Boot
    BY <1>2 DEF Boot, shutdown
  <1>3. CASE BootFails
    BY <1>3, Limits DEF BootFails, watcher, shutdown, Spent, Limit
  <1>4. CASE StopSignal
    BY <1>4, Limits DEF StopSignal, watcher, shutdown, Spent, Limit
  <1>5. CASE Drained
    BY <1>5, Limits DEF Drained, TypeOK, Spent, Limit
  <1>6. CASE WaitIsOver
    BY <1>6 DEF WaitIsOver, TypeOK, Spent, Limit
  <1>7. CASE Unwound
    BY <1>7, Limits DEF Unwound, watcher, TypeOK, Spent, Limit
  <1>8. CASE BotStopped
    BY <1>8 DEF BotStopped, watcher
  <1> HIDE DEF Shutdown
  <1> QED BY <1>1, <1>2, <1>3, <1>4, <1>5, <1>6, <1>7, <1>8, GoneShutdown
          DEF Crash, Kill, Exit, ShutdownStep

LEMMA OtherShutdown ==
  ASSUME TypeOK, Shutdown, PauseEnds \/ PrinterChanges \/ LinkChanges \/ TimePasses \/ ClearData \/ Prune
  PROVE  Shutdown'
  <1> USE DEF Shutdown, NothingYet, PauseIsAwaited, Unwinding, InBudget
  <1>1. CASE PauseEnds
    BY <1>1 DEF PauseEnds, shutdown, TypeOK, Spent, Limit
  <1>2. CASE PrinterChanges \/ LinkChanges \/ ClearData \/ Prune
    BY <1>2 DEF PrinterChanges, LinkChanges, ClearData, Prune, watcher, shutdown, TypeOK, Spent, Limit
  <1>3. CASE TimePasses
    BY <1>3, Limits DEF TimePasses, watcher, TypeOK, Stages, Spent, Limit
  <1> QED BY <1>1, <1>2, <1>3

-----------------------------------------------------------------------------
(***************************************************************************)
(* The theorems.                                                           *)
(***************************************************************************)

LEMMA InitEstablishes == Init => IInv
  <1> SUFFICES ASSUME Init PROVE IInv
    OBVIOUS
  <1>1. TypeOK
    <2>1. 0 \in 0..GRACE
      BY Limits
    <2>2. printer \in Reports /\ obs \in Reports
      BY OffReport DEF Init
    <2> QED BY <2>1, <2>2 DEF Init, TypeOK
  <1>2. NothingYet /\ PauseIsAwaited /\ Unwinding /\ InBudget
    BY DEF Init, NothingYet, PauseIsAwaited, Unwinding, InBudget
  <1>3. RowFollowsJob /\ OneOpenRow
    BY DEF Init, RowFollowsJob, OneOpenRow
  <1> QED BY <1>1, <1>2, <1>3 DEF IInv

LEMMA NextPreserves ==
  ASSUME IInv, [Next]_vars
  PROVE  IInv'
  <1>1. TypeOK'
    BY NextTypes DEF IInv
  <1>2. History'
    <2>1. CASE UNCHANGED vars
      BY <2>1 DEF vars, watcher, IInv, History, RowFollowsJob, OneOpenRow
    <2> QED BY <2>1, TickRuns, TickHistory, ProcessHistory, OtherHistory
            DEF Next, IInv, History, Shutdown
  <1>3. Shutdown'
    <2>1. CASE UNCHANGED vars
      BY <2>1 DEF vars, watcher, shutdown, IInv, Shutdown, NothingYet, PauseIsAwaited, Unwinding,
                  InBudget, Limit, Spent
    <2> QED BY <2>1, TickShutdown, ProcessShutdown, OtherShutdown DEF Next, IInv, Shutdown
  <1> QED BY <1>1, <1>2, <1>3 DEF IInv, History, Shutdown

\* The invariant the other theorems are read from.
THEOREM LifecycleInvariant == Spec => []IInv
  <1> QED BY InitEstablishes, NextPreserves, PTL DEF Spec

\* At most one print is shown as running, whatever write fails, however often the
\* process is killed or stopped inside a tick, and whoever clears the data meanwhile.
THEOREM HistoryHasOneOpenRow == Spec => []OneOpenRow
  <1>1. IInv => OneOpenRow
    BY DEF IInv
  <1> QED BY <1>1, LifecycleInvariant, PTL

\* The stop keeps its order: the clients are closed after the pause in flight is
\* unwound or has had its fifteen seconds, and before the container is killed.  It
\* takes limits that fit into the grace period (GraceAssumption).
THEOREM StopKeepsItsOrder == Spec => []ShutdownInOrder
  <1>1. IInv => ShutdownInOrder
    <2> SUFFICES ASSUME IInv PROVE ShutdownInOrder
      OBVIOUS
    <2>1. clock = GRACE => proc = "closing"
      BY Limits DEF IInv, TypeOK, Stages, NothingYet, InBudget, Spent, Limit
    <2> QED BY <2>1 DEF IInv, Unwinding, ShutdownInOrder
  <1> QED BY <1>1, LifecycleInvariant, PTL
=============================================================================
