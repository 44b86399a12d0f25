---------------------------- MODULE PrinterLink_proofs ----------------------------
(***************************************************************************)
(* Proofs about PrinterLink, for any limits and any number of pushes in     *)
(* flight: what status() serves is as recent as documented and never older  *)
(* than what the printer has told since.                                   *)
(***************************************************************************)
EXTENDS PrinterLink, TLAPS

NoStateSent == \A i \in DOMAIN wire : wire[i] \notin States

AnswerHasValue == snap.step = "answered" => snap.value \in States

\* What travels was true in this unit of time.
InFlightIsNow ==
  /\ since[truth] = 0
  /\ \A i \in DOMAIN wire : wire[i] \in States => since[wire[i]] = 0
  /\ snap.step = "answered" => since[snap.value] = 0

\* The last state on the wire is what the printer does.
WireEndsInTruth ==
  /\ conn # "up" => wire = <<>>
  /\ \A i \in DOMAIN wire :
       wire[i] \in States /\ (\A j \in DOMAIN wire : j > i => wire[j] \notin States)
         => wire[i] = truth

\* With no state on its way over a connection that works, the client knows the truth
\* if it knows a state; and the answer that would be merged tells it.
UpToDate ==
  conn = "up" /\ NoStateSent =>
    /\ acc \in States => acc = truth
    /\ acc \notin States /\ snap.step = "answered" /\ snap.current => snap.value = truth

\* The two ages cover what they stand for.
Aged ==
  /\ conn = "up" /\ acc \in States => since[acc] = 0
  /\ acc \in States => since[acc] <= updateAge
  /\ acc \in States /\ provisional # "none" => since[acc] <= provAge
  /\ provisional # "none" => since[provisional] <= provAge

\* Of the two places where a state is kept, the one that counts has the last word.
LastWord ==
  /\ acc \in States => acc = word
  /\ acc \notin States /\ provisional = "printing" /\ provAge <= PROV_MAX => word = "printing"

IInv ==
  /\ TypeOK /\ AnswerHasValue
  /\ InFlightIsNow /\ WireEndsInTruth /\ UpToDate
  /\ Aged /\ LastWord

-----------------------------------------------------------------------------
(***************************************************************************)
(* The helpers.                                                            *)
(***************************************************************************)

LEMMA AgeRange ==
  /\ Far \in Nat /\ SILENCE \in Nat /\ PROV_MAX \in Nat /\ SILENCE <= PROV_MAX
  /\ PROV_MAX < Far
  /\ \A a \in Ages : a \in Nat /\ a <= Far
  /\ 0 \in Ages /\ Far \in Ages
  BY LinkAssumption DEF Ages, Far

LEMMA OlderKeepsOrder ==
  /\ \A a \in Ages : Older(a) \in Ages /\ a <= Older(a)
  /\ \A a, b \in Ages : a <= b => Older(a) <= Older(b)
  BY AgeRange, SMT DEF Older, Ages

LEMMA SinceNowTyped ==
  ASSUME NEW s \in States
  PROVE  SinceNow(s) \in [States -> Ages] /\ SinceNow(s)[s] = 0
  BY AgeRange, SMT DEF SinceNow

\* A task whose answer travels is asked for by the connection it was asked over.
LEMMA SnapFields ==
  ASSUME NEW task \in SnapTasks
  PROVE  /\ NoSnap \in SnapTasks /\ NoSnap.step = "none"
         /\ [NoSnap EXCEPT !.step = "loop"] \in SnapTasks
         /\ [NoSnap EXCEPT !.step = "loop"].step = "loop"
         /\ Ensured(task) \in SnapTasks
         /\ Ensured(task).step = "answered" => Ensured(task) = task
         /\ Cancelled(task) \in SnapTasks /\ Cancelled(task).step # "answered"
         /\ LET t == [task EXCEPT !.current = FALSE]
            IN  t \in SnapTasks /\ ~t.current /\ t.step = task.step /\ t.value = task.value
  <1> DEFINE l == [NoSnap EXCEPT !.step = "loop"]
             c == [task EXCEPT !.step = "closing"]
             t == [task EXCEPT !.current = FALSE]
  <1>1. NoSnap \in SnapTasks /\ NoSnap.step = "none"
    BY SMT DEF SnapTasks, NoSnap
  <1>2. l \in SnapTasks /\ l.step = "loop"
    <2>1. "loop" \in {"none", "loop", "asked", "answered", "closing"}
      OBVIOUS
    <2>2. QED
      BY <1>1, <2>1, Zenon DEF SnapTasks
  <1>3. c \in SnapTasks /\ c.step = "closing"
    BY SMT DEF SnapTasks
  <1>4. t \in SnapTasks /\ ~t.current /\ t.step = task.step /\ t.value = task.value
    <2>1. t \in SnapTasks
      <3>1. FALSE \in BOOLEAN
        OBVIOUS
      <3>2. QED
        BY <3>1, Zenon DEF SnapTasks
    <2>2. t.current = FALSE /\ t.step = task.step /\ t.value = task.value
      BY Zenon DEF SnapTasks
    <2>3. QED
      BY <2>1, <2>2
  <1> HIDE DEF l, c, t
  <1>5. Ensured(task) = l \/ Ensured(task) = task
    BY Zenon DEF Ensured, l
  <1>6. Cancelled(task) = c \/ Cancelled(task) = NoSnap
          \/ (Cancelled(task) = task /\ task.step # "answered")
    BY SMT DEF Cancelled, c
  <1>7. Ensured(task) \in SnapTasks /\ (Ensured(task).step = "answered" => Ensured(task) = task)
    BY <1>2, <1>5, SMT
  <1>8. Cancelled(task) \in SnapTasks /\ Cancelled(task).step # "answered"
    BY <1>1, <1>3, <1>6, SMT
  <1>9. QED
    BY <1>1, <1>2, <1>4, <1>7, <1>8, Zenon DEF l, t

LEMMA RetireFields ==
  ASSUME TypeOK, Retire
  PROVE  /\ acc' = "empty"
         /\ \/ provisional' = provisional /\ provAge' = provAge /\ acc \notin States
            \/ provisional' = "none" /\ provAge' = provAge
            \/ /\ baseline /\ acc \in States /\ provisional' = acc /\ provAge' = updateAge
            \/ /\ ~baseline /\ provAge' = provAge /\ provAge <= PROV_MAX
               /\ provisional # "none" /\ provisional' = "printing"
               /\ acc = "printing" \/ (acc \notin States /\ provisional = "printing")
  <1>1. acc' = "empty" /\ "empty" \notin States /\ "unknown" \notin States
    BY SMT DEF Retire, States
  <1>2. CASE acc = "empty"
    BY <1>1, <1>2, Zenon DEF Retire
  <1>3. CASE acc # "empty" /\ View = "unknown"
    BY <1>1, <1>3, Zenon DEF Retire
  <1>4. CASE acc # "empty" /\ View # "unknown" /\ baseline
    <2>1. acc \in States /\ View = acc
      BY <1>4, Zenon DEF View
    <2>2. QED
      BY <1>1, <1>4, <2>1, Zenon DEF Retire
  <1>5. CASE acc # "empty" /\ View # "unknown" /\ ~baseline
    <2>1. /\ View = "printing" /\ provisional # "none" /\ provAge <= PROV_MAX
          /\ "printing" = IF acc \in States THEN acc ELSE provisional
      BY <1>5, Zenon DEF View
    <2>2. provisional' = "printing" /\ provAge' = provAge
      BY <1>5, <2>1, Zenon DEF Retire
    <2>3. acc = "printing" \/ (acc \notin States /\ provisional = "printing")
      BY <2>1, Zenon
    <2>4. QED
      BY <1>1, <1>5, <2>1, <2>2, <2>3, Zenon
  <1>6. baseline \in BOOLEAN
    BY DEF TypeOK
  <1>7. QED
    BY <1>2, <1>3, <1>4, <1>5, <1>6, Zenon

-----------------------------------------------------------------------------
LEMMA InitIInv == Init => IInv
  <1> SUFFICES ASSUME Init PROVE IInv
    OBVIOUS
  <1>1. since \in [States -> Ages] /\ since[truth] = 0
    BY SinceNowTyped, Zenon DEF Init
  <1>2. NoSnap \in SnapTasks /\ NoSnap.step = "none"
    BY SMT DEF NoSnap, SnapTasks
  <1>3. TypeOK
    <2>1. /\ truth \in States /\ conn = "off" /\ wire = <<>> /\ serial = FALSE /\ acc = "empty"
          /\ baseline = FALSE /\ provisional = "none" /\ provAge = Far /\ updateAge = Far
          /\ snap = NoSnap /\ word = "none"
      BY Zenon DEF Init
    <2>2. wire \in Seq(States \cup {"delta"}) /\ Len(wire) <= MAX_WIRE
      BY <2>1, LinkAssumption, SMT
    <2>3. QED
      BY <1>1, <1>2, <2>1, <2>2, AgeRange, Zenon DEF TypeOK
  <1>4. snap.step = "none" /\ wire = <<>> /\ conn = "off" /\ acc = "empty" /\ provisional = "none"
    BY <1>2, Zenon DEF Init
  <1>5. AnswerHasValue /\ InFlightIsNow /\ WireEndsInTruth /\ UpToDate /\ Aged /\ LastWord
    BY <1>1, <1>4, SMT DEF AnswerHasValue, InFlightIsNow, WireEndsInTruth, UpToDate, Aged, LastWord, States
  <1>6. QED
    BY <1>3, <1>5, Zenon DEF IInv

-----------------------------------------------------------------------------
(***************************************************************************)
(* Types, and the answer that travels.                                     *)
(***************************************************************************)

\* An answer of an earlier connection is not merged.
LEMMA NewConnection ==
  ASSUME TypeOK, Connect \/ LoseConnection
  PROVE  /\ snap' \in SnapTasks /\ ~snap'.current
         /\ snap'.step = "answered" => snap.step = "answered" /\ snap'.value = snap.value
  <1>1. snap \in SnapTasks
    BY DEF TypeOK
  <1>2. CASE Connect
    <2> DEFINE task == IF serial THEN Ensured(snap) ELSE snap
    <2>1. task \in SnapTasks /\ (task.step = "answered" => task = snap)
      BY <1>1, SnapFields, Zenon
    <2>2. snap' = [task EXCEPT !.current = FALSE]
      BY <1>2, Zenon DEF Connect, NewGeneration
    <2> HIDE DEF task
    <2>3. snap' \in SnapTasks /\ ~snap'.current /\ snap'.step = task.step /\ snap'.value = task.value
      BY <2>1, <2>2, SnapFields, Zenon
    <2>4. QED
      BY <2>1, <2>3, Zenon
  <1>3. CASE LoseConnection
    <2>1. Cancelled(snap) \in SnapTasks /\ Cancelled(snap).step # "answered"
      BY <1>1, SnapFields, Zenon
    <2>2. snap' = [Cancelled(snap) EXCEPT !.current = FALSE]
      BY <1>3, Zenon DEF LoseConnection, NewGeneration
    <2>3. snap' \in SnapTasks /\ ~snap'.current /\ snap'.step = Cancelled(snap).step
      BY <2>1, <2>2, SnapFields, Zenon
    <2>4. QED
      BY <2>1, <2>3, Zenon
  <1>4. QED
    BY <1>2, <1>3

\* An answer is on its way because it was, or because the printer has just given it.
LEMMA SnapStep ==
  ASSUME TypeOK, [Next]_vars
  PROVE  /\ snap' \in SnapTasks
         /\ snap'.step = "answered" =>
              \/ snap.step = "answered" /\ snap'.value = snap.value /\ (snap'.current => snap.current)
              \/ Answer /\ snap'.value = truth
  <1> DEFINE l == [NoSnap EXCEPT !.step = "loop"]
             a == [step |-> "asked", current |-> TRUE, value |-> "none"]
             Goal == /\ snap' \in SnapTasks
                     /\ snap'.step = "answered" =>
                          \/ /\ snap.step = "answered" /\ snap'.value = snap.value
                             /\ snap'.current => snap.current
                          \/ Answer /\ snap'.value = truth
  <1>1. snap \in SnapTasks
    BY DEF TypeOK
  <1>2. CASE snap' = snap
    BY <1>1, <1>2, Zenon
  <1>3. CASE snap' \in {NoSnap, l, a}
    <2>1. NoSnap \in SnapTasks /\ l \in SnapTasks /\ NoSnap.step = "none" /\ l.step = "loop"
      BY <1>1, SnapFields, Zenon
    <2>2. a \in SnapTasks /\ a.step = "asked"
      BY SMT DEF SnapTasks
    <2> HIDE DEF l, a
    <2>3. snap' \in SnapTasks /\ snap'.step # "answered"
      BY <1>3, <2>1, <2>2, SMT
    <2>4. QED
      BY <2>3
  <1>4. CASE Connect \/ LoseConnection
    BY <1>4, NewConnection, Zenon
  <1>5. CASE Answer
    <2>1. snap' = [snap EXCEPT !.step = "answered", !.value = truth]
      BY <1>5, Zenon DEF Answer
    <2>2. truth \in States \cup {"none"} /\ "answered" \in {"none", "loop", "asked", "answered", "closing"}
      BY SMT DEF TypeOK
    <2>3. snap' \in SnapTasks /\ snap'.value = truth
      BY <1>1, <2>1, <2>2, Zenon DEF SnapTasks
    <2>4. QED
      BY <1>5, <2>3, Zenon
  <1>6. CASE Receive
    <2>1. snap' = snap \/ snap' = Ensured(snap)
      BY <1>6, Zenon DEF Receive
    <2>2. QED
      BY <1>1, <2>1, SnapFields, Zenon
  <1>7. CASE StartListener \/ StopSilent \/ RefuseLogin \/ EndConnection \/ GoDead \/ Ask \/ AskFails
             \/ Merge \/ SnapCloses \/ Change \/ Push \/ Reconfigure \/ Tick \/ UNCHANGED vars
    <2>1. snap' = snap \/ snap' \in {NoSnap, l, a}
      BY <1>7, Zenon DEF StartListener, StopSilent, RefuseLogin, EndConnection, GoDead, Ask, AskFails,
                         Merge, SnapCloses, Change, Push, Reconfigure, Tick, vars
    <2>2. QED
      BY <1>2, <1>3, <2>1, Zenon
  <1>8. QED
    BY <1>4, <1>5, <1>6, <1>7, Zenon DEF Next, Listener, Snapshot

-----------------------------------------------------------------------------
(***************************************************************************)
(* What a step is to the data.                                             *)
(***************************************************************************)

\* Nothing is learnt, lost or older.
Rest ==
  /\ UNCHANGED <<truth, since, acc, baseline, provisional, provAge, updateAge, word>>
  /\ serial' = serial
  /\ conn' \in {"off", "down", "up", "dead", "ended"}
  /\ \/ conn' = conn /\ wire' = wire
     \/ conn' # "up" /\ wire' = <<>>
     \/ conn' = conn /\ conn = "up" /\ Len(wire) < MAX_WIRE /\ wire' = Append(wire, "delta")

Clear ==
  /\ truth' \in States /\ since' \in [States -> Ages] /\ since'[truth'] = 0
  /\ conn' \in {"off", "down"} /\ wire' = <<>>
  /\ acc' = "empty" /\ provisional' = "none" /\ updateAge' = Far
  /\ snap' = NoSnap /\ serial' \in BOOLEAN
  /\ UNCHANGED <<baseline, provAge, word>>

Reopen == Connect \/ LoseConnection

LEMMA WireOf == WireEndsInTruth /\ conn # "up" => wire = <<>>
  BY DEF WireEndsInTruth

LEMMA Moves ==
  ASSUME IInv, [Next]_vars
  PROVE  Rest \/ Clear \/ Reopen \/ Receive \/ Merge \/ Change \/ Tick
  <1>1. conn \in {"off", "down", "up", "dead", "ended"} /\ (conn # "up" => wire = <<>>)
    BY WireOf, Zenon DEF IInv, TypeOK
  <1>2. CASE StopSilent \/ EndConnection \/ GoDead \/ RefuseLogin
    BY <1>1, <1>2, SMT DEF StopSilent, EndConnection, GoDead, RefuseLogin, Rest, dataVars, printerVars
  <1>3. CASE Ask \/ Answer \/ AskFails \/ SnapCloses \/ UNCHANGED vars
    BY <1>1, <1>3, SMT DEF Ask, Answer, AskFails, SnapCloses, vars, Rest, dataVars, printerVars
  <1>4. CASE Push
    BY <1>1, <1>4, SMT DEF Push, Send, Rest, dataVars, printerVars
  <1>5. CASE StartListener
    <2>1. /\ truth \in States /\ since \in [States -> Ages] /\ since[truth] = 0 /\ serial \in BOOLEAN
      BY Zenon DEF IInv, TypeOK, InFlightIsNow
    <2>2. wire = <<>>
      BY <1>1, <1>5, SMT DEF StartListener
    <2>3. QED
      BY <1>5, <2>1, <2>2, SMT DEF StartListener, Clear, printerVars
  <1>6. CASE Reconfigure
    <2>1. PICK s \in States : truth' = s /\ since' = SinceNow(s)
      BY <1>6, Zenon DEF Reconfigure
    <2>2. since' \in [States -> Ages] /\ since'[s] = 0
      BY <2>1, SinceNowTyped, Zenon
    <2>3. /\ conn' = "off" /\ wire' = <<>> /\ serial' = FALSE
          /\ acc' = "empty" /\ provisional' = "none" /\ updateAge' = Far /\ snap' = NoSnap
          /\ UNCHANGED <<baseline, provAge, word>>
      BY <1>6, Zenon DEF Reconfigure
    <2>4. conn' \in {"off", "down"} /\ serial' \in BOOLEAN
      BY <2>3
    <2>5. truth' \in States /\ since' \in [States -> Ages] /\ since'[truth'] = 0
      BY <2>1, <2>2, Zenon
    <2>6. Clear
      BY <2>3, <2>4, <2>5, Zenon DEF Clear
    <2>7. QED
      BY <2>6
  <1>7. QED
    BY <1>2, <1>3, <1>4, <1>5, <1>6, Zenon DEF Next, Listener, Snapshot, Reopen

LEMMA ReopenFields ==
  ASSUME IInv, Reopen
  PROVE  /\ conn' \in {"up", "down"} /\ wire' = <<>> /\ Retire
         /\ baseline' = FALSE /\ serial' = serial
         /\ updateAge' \in {updateAge, Far}
         /\ UNCHANGED <<truth, since, word>>
  BY SMT DEF Reopen, Connect, LoseConnection, NewGeneration, printerVars

LEMMA TickFields ==
  ASSUME IInv, Tick
  PROVE  /\ wire = <<>> /\ snap.step # "answered"
         /\ since' \in [States -> Ages] /\ since'[truth] = 0
         /\ \A s \in States : s # truth => since'[s] = Older(since[s])
         /\ provAge' = Older(provAge) /\ updateAge' = Older(updateAge)
         /\ UNCHANGED <<truth, conn, wire, serial, acc, baseline, provisional, snap, word>>
  <1>1. truth \in States /\ since \in [States -> Ages]
    BY DEF IInv, TypeOK
  <1>2. since' = [s \in States |-> IF s = truth THEN 0 ELSE Older(since[s])]
    BY DEF Tick
  <1>3. \A s \in States : (IF s = truth THEN 0 ELSE Older(since[s])) \in Ages
    BY <1>1, AgeRange, OlderKeepsOrder, Zenon
  <1>4. since' \in [States -> Ages]
    BY <1>2, <1>3, Zenon
  <1>5. since'[truth] = 0 /\ \A s \in States : s # truth => since'[s] = Older(since[s])
    BY <1>1, <1>2, Zenon
  <1>6. QED
    BY <1>4, <1>5, Zenon DEF Tick

LEMMA ChangeFields ==
  ASSUME IInv, Change
  PROVE  /\ truth' \in States /\ Len(wire) < MAX_WIRE
         /\ since' \in [States -> Ages] /\ since'[truth'] = 0
         /\ \A s \in States : since'[s] \in {since[s], 0}
         /\ wire' = IF conn = "up" THEN Append(wire, truth') ELSE wire
         /\ UNCHANGED <<conn, serial, acc, baseline, provisional, provAge, updateAge, snap, word>>
  <1>1. truth \in States /\ since \in [States -> Ages]
    BY DEF IInv, TypeOK
  <1>2. PICK s \in States \ {truth} : truth' = s /\ since' = [since EXCEPT ![s] = 0] /\ Send(s)
    BY Zenon DEF Change
  <1>3. since' \in [States -> Ages] /\ since'[s] = 0 /\ \A t \in States : since'[t] \in {since[t], 0}
    BY <1>1, <1>2, AgeRange, SMT
  <1>4. UNCHANGED <<conn, serial, acc, baseline, provisional, provAge, updateAge, snap, word>>
    BY SMT DEF Change, dataVars
  <1>5. Len(wire) < MAX_WIRE
    BY DEF Change
  <1>6. QED
    BY <1>2, <1>3, <1>4, <1>5, Zenon DEF Send

\* What a push or a snapshot leaves.
LEMMA ReceiveFields ==
  ASSUME IInv, Receive
  PROVE  /\ conn = "up" /\ conn' = "up" /\ serial' = TRUE
         /\ Head(wire) \in States \cup {"delta"} /\ wire # <<>> /\ wire' = Tail(wire)
         /\ Head(wire) \in States => acc' = Head(wire) /\ word' = Head(wire)
         /\ Head(wire) \notin States => word' = word /\ (acc' = acc \/ (acc = "empty" /\ acc' = "delta"))
         /\ updateAge' = 0
         /\ UNCHANGED <<truth, since, baseline, provisional, provAge>>
  <1>1. wire \in Seq(States \cup {"delta"}) /\ wire # <<>>
    BY Zenon DEF IInv, TypeOK, Receive
  <1>2. Head(wire) \in States \cup {"delta"}
    BY <1>1, SMT
  <1>3. UNCHANGED <<truth, since, conn, baseline, provisional, provAge>>
    BY SMT DEF Receive, printerVars
  <1>4. QED
    BY <1>1, <1>2, <1>3, Zenon DEF Receive

LEMMA MergeFields ==
  ASSUME IInv, Merge
  PROVE  /\ snap.step = "answered" /\ snap.value \in States
         /\ \/ /\ snap.current /\ baseline' = TRUE /\ provisional' = "none"
               /\ acc' = (IF acc \in States THEN acc ELSE snap.value) /\ word' = acc'
            \/ UNCHANGED <<acc, word, baseline, provisional>>
         /\ snap' = NoSnap \/ snap' = [NoSnap EXCEPT !.step = "loop"]
         /\ UNCHANGED <<truth, since, conn, wire, serial, provAge, updateAge>>
  <1>1. snap.step = "answered" /\ snap.value \in States
    BY Zenon DEF Merge, IInv, AnswerHasValue
  <1>2. UNCHANGED <<truth, since, conn, wire, serial, provAge, updateAge>>
    BY SMT DEF Merge, printerVars
  <1>3. QED
    BY <1>1, <1>2, Zenon DEF Merge

LEMMA NamesApart ==
  /\ States = {"idle", "printing"}
  /\ "empty" \notin States /\ "delta" \notin States /\ "none" \notin States
  BY DEF States

LEMMA WireTyped ==
  ASSUME IInv, Rest \/ Clear \/ Reopen \/ Receive \/ Merge \/ Change \/ Tick
  PROVE  wire' \in Seq(States \cup {"delta"}) /\ Len(wire') <= MAX_WIRE
  <1>0. wire \in Seq(States \cup {"delta"}) /\ Len(wire) <= MAX_WIRE
    BY Zenon DEF IInv, TypeOK
  <1>1. wire \in Seq(States \cup {"delta"}) /\ Len(wire) \in Nat /\ Len(wire) <= MAX_WIRE /\ MAX_WIRE \in Nat
    BY <1>0, LinkAssumption
  <1>2. CASE wire' = wire
    BY <1>1, <1>2
  <1>3. CASE wire' = <<>>
    BY <1>1, <1>3, SMT
  <1>4. CASE Len(wire) < MAX_WIRE /\ \E push \in States \cup {"delta"} : wire' = Append(wire, push)
    BY <1>1, <1>4, SMT
  <1>5. CASE wire # <<>> /\ wire' = Tail(wire)
    BY <1>1, <1>5, SMT
  <1>6. CASE Change
    <2>1. truth' \in States \cup {"delta"} /\ Len(wire) < MAX_WIRE
          /\ (wire' = Append(wire, truth') \/ wire' = wire)
      BY <1>6, ChangeFields, Zenon
    <2>2. QED
      BY <1>2, <1>4, <2>1, Zenon
  <1>7. CASE Rest
    BY <1>2, <1>3, <1>4, <1>7, SMT DEF Rest
  <1>8. QED
    BY <1>2, <1>3, <1>5, <1>6, <1>7, ReopenFields, ReceiveFields, MergeFields, TickFields,
       Zenon DEF Clear

LEMMA TypeStep ==
  ASSUME IInv, [Next]_vars
  PROVE  TypeOK'
  <1>1. /\ truth \in States /\ since \in [States -> Ages]
        /\ conn \in {"off", "down", "up", "dead", "ended"}
        /\ serial \in BOOLEAN /\ baseline \in BOOLEAN
        /\ acc \in States \cup {"empty", "delta"}
        /\ provisional \in States \cup {"none"}
        /\ baseline => provisional = "none"
        /\ provAge \in Ages /\ updateAge \in Ages
        /\ word \in States \cup {"none"}
    BY Zenon DEF IInv, TypeOK
  <1>2. snap' \in SnapTasks
    BY SnapStep, Zenon DEF IInv
  <1>3. Rest \/ Clear \/ Reopen \/ Receive \/ Merge \/ Change \/ Tick
    BY Moves
  <1>4. wire' \in Seq(States \cup {"delta"}) /\ Len(wire') <= MAX_WIRE
    BY <1>3, WireTyped
  <1>5. SUFFICES /\ truth' \in States /\ since' \in [States -> Ages]
                 /\ conn' \in {"off", "down", "up", "dead", "ended"}
                 /\ serial' \in BOOLEAN /\ baseline' \in BOOLEAN
                 /\ acc' \in States \cup {"empty", "delta"}
                 /\ provisional' \in States \cup {"none"}
                 /\ baseline' => provisional' = "none"
                 /\ provAge' \in Ages /\ updateAge' \in Ages
                 /\ word' \in States \cup {"none"}
    BY <1>2, <1>4, Zenon DEF TypeOK
  <1>6. CASE Rest
    BY <1>1, <1>6, Zenon DEF Rest
  <1>7. CASE Clear
    BY <1>1, <1>7, AgeRange, SMT DEF Clear
  <1>8. CASE Reopen
    <2>1. Retire /\ TypeOK
      BY <1>8, ReopenFields, Zenon DEF IInv
    <2>2. /\ acc' = "empty" /\ provAge' \in {provAge, updateAge}
          /\ provisional' \in {provisional, "none", "printing"} \/ (acc \in States /\ provisional' = acc)
      BY <2>1, RetireFields, SMT
    <2>3. provisional' \in States \cup {"none"}
      BY <1>1, <2>2, SMT DEF States
    <2>4. QED
      BY <1>1, <1>8, <2>2, <2>3, ReopenFields, AgeRange, SMT
  <1>9. CASE Receive
    <2>1. /\ conn' = "up" /\ serial' = TRUE /\ updateAge' = 0
          /\ UNCHANGED <<truth, since, baseline, provisional, provAge>>
          /\ Head(wire) \in States => acc' = Head(wire) /\ word' = Head(wire)
          /\ Head(wire) \notin States => word' = word /\ (acc' = acc \/ acc' = "delta")
      BY <1>9, ReceiveFields, Zenon
    <2>2. acc' \in States \cup {"empty", "delta"} /\ word' \in States \cup {"none"}
      BY <1>1, <2>1, SMT
    <2>3. QED
      BY <1>1, <2>1, <2>2, AgeRange, SMT
  <1>10. CASE Merge
    <2>1. /\ snap.value \in States
          /\ UNCHANGED <<truth, since, conn, serial, provAge, updateAge>>
          /\ \/ /\ baseline' = TRUE /\ provisional' = "none" /\ word' = acc'
                /\ acc' = IF acc \in States THEN acc ELSE snap.value
             \/ UNCHANGED <<acc, word, baseline, provisional>>
      BY <1>10, MergeFields, Zenon
    <2>2. /\ acc' \in States \cup {"empty", "delta"} /\ word' \in States \cup {"none"}
          /\ baseline' \in BOOLEAN /\ provisional' \in States \cup {"none"}
          /\ baseline' => provisional' = "none"
      <3>1. CASE UNCHANGED <<acc, word, baseline, provisional>>
        BY <1>1, <3>1
      <3>2. CASE baseline' = TRUE /\ provisional' = "none" /\ word' = acc' /\ acc' \in States
        BY <3>2
      <3>3. QED
        BY <2>1, <3>1, <3>2, Zenon
    <2>3. QED
      BY <1>1, <2>1, <2>2, Zenon
  <1>11. CASE Change
    <2>1. /\ truth' \in States /\ since' \in [States -> Ages]
          /\ UNCHANGED <<conn, serial, acc, baseline, provisional, provAge, updateAge, word>>
      BY <1>11, ChangeFields, Zenon
    <2>2. QED
      BY <1>1, <2>1, SMT
  <1>12. CASE Tick
    <2>1. /\ since' \in [States -> Ages] /\ provAge' = Older(provAge) /\ updateAge' = Older(updateAge)
          /\ UNCHANGED <<truth, conn, wire, serial, acc, baseline, provisional, snap, word>>
      BY <1>12, TickFields, Zenon
    <2>2. provAge' \in Ages /\ updateAge' \in Ages
      BY <1>1, <2>1, OlderKeepsOrder, Zenon
    <2>3. QED
      BY <1>1, <2>1, <2>2, SMT
  <1>13. QED
    BY <1>3, <1>6, <1>7, <1>8, <1>9, <1>10, <1>11, <1>12

-----------------------------------------------------------------------------
(***************************************************************************)
(* The invariants about the wire.                                          *)
(***************************************************************************)

LEMMA AnswerStep ==
  ASSUME IInv, [Next]_vars
  PROVE  AnswerHasValue'
  <1>1. snap'.step = "answered" =>
          (snap.step = "answered" /\ snap'.value = snap.value) \/ snap'.value = truth
    BY SnapStep, Zenon DEF IInv
  <1>2. truth \in States
    BY DEF IInv, TypeOK
  <1>3. QED
    BY <1>1, <1>2, Zenon DEF IInv, AnswerHasValue

\* A wire that grows keeps what it carried; one that shrinks moves up.
LEMMA WireGrows ==
  ASSUME wire \in Seq(States \cup {"delta"}), NEW push, wire' = Append(wire, push)
  PROVE  /\ \A i \in DOMAIN wire : i \in DOMAIN wire' /\ wire'[i] = wire[i]
         /\ \A i \in DOMAIN wire' : i \notin DOMAIN wire => wire'[i] = push
         /\ \E last \in DOMAIN wire' : wire'[last] = push /\ \A i \in DOMAIN wire : last > i
  <1>1. /\ Len(wire) \in Nat /\ DOMAIN wire = 1..Len(wire) /\ DOMAIN wire' = 1..(Len(wire) + 1)
        /\ wire'[Len(wire) + 1] = push /\ \A i \in DOMAIN wire : wire'[i] = wire[i]
    BY SMT
  <1>2. \A i \in DOMAIN wire : i \in DOMAIN wire' /\ Len(wire) + 1 > i
    BY <1>1, SMT
  <1>3. \A i \in DOMAIN wire' : i \notin DOMAIN wire => i = Len(wire) + 1
    BY <1>1, SMT
  <1>4. Len(wire) + 1 \in DOMAIN wire'
    BY <1>1, SMT
  <1>5. QED
    BY <1>1, <1>2, <1>3, <1>4, Zenon

LEMMA WireShrinks ==
  ASSUME wire \in Seq(States \cup {"delta"}), wire # <<>>, wire' = Tail(wire)
  PROVE  /\ 1 \in DOMAIN wire /\ Head(wire) = wire[1]
         /\ \A i \in DOMAIN wire' : i \in Int /\ i + 1 \in DOMAIN wire /\ wire'[i] = wire[i + 1]
         /\ \A j \in DOMAIN wire :
              j \in Int /\ (j # 1 => j - 1 \in DOMAIN wire' /\ wire'[j - 1] = wire[j])
  <1>1. /\ Len(wire) \in Nat /\ DOMAIN wire = 1..Len(wire) /\ DOMAIN wire' = 1..(Len(wire) - 1)
        /\ Len(wire) > 0 /\ Head(wire) = wire[1]
        /\ \A i \in DOMAIN wire' : wire'[i] = wire[i + 1]
    BY SMT
  <1>2. \A i \in DOMAIN wire' : i \in Int /\ i + 1 \in DOMAIN wire
    BY <1>1, SMT
  <1>3. ASSUME NEW j \in DOMAIN wire, j # 1 PROVE j - 1 \in DOMAIN wire' /\ wire'[j - 1] = wire[j]
    <2>1. j \in Int /\ j - 1 \in DOMAIN wire' /\ (j - 1) + 1 = j
      BY <1>1, <1>3, SMT
    <2>2. wire'[j - 1] = wire[(j - 1) + 1]
      BY <1>1, <2>1, Zenon
    <2>3. QED
      BY <2>1, <2>2
  <1>4. 1 \in DOMAIN wire /\ \A j \in DOMAIN wire : j \in Int
    BY <1>1, SMT
  <1>5. QED
    BY <1>1, <1>2, <1>3, <1>4, Zenon

LEMMA FlightStep ==
  ASSUME IInv, [Next]_vars
  PROVE  InFlightIsNow'
  <1>1. Rest \/ Clear \/ Reopen \/ Receive \/ Merge \/ Change \/ Tick
    BY Moves
  <1>2. /\ since[truth] = 0 /\ truth \in States
        /\ \A i \in DOMAIN wire : wire[i] \in States => since[wire[i]] = 0
        /\ snap.step = "answered" => since[snap.value] = 0 /\ snap.value \in States
        /\ wire \in Seq(States \cup {"delta"})
    BY Zenon DEF IInv, InFlightIsNow, TypeOK, AnswerHasValue
  <1>3. since'[truth'] = 0
    <2>1. CASE Rest \/ Reopen \/ Receive \/ Merge
      <3>1. since' = since /\ truth' = truth
        BY <2>1, ReopenFields, ReceiveFields, MergeFields, Zenon DEF Rest
      <3>2. QED
        BY <1>2, <3>1
    <2>2. CASE Clear
      BY <2>2 DEF Clear
    <2>3. CASE Change
      BY <2>3, ChangeFields, Zenon
    <2>4. CASE Tick
      BY <2>4, TickFields, Zenon
    <2>5. QED
      BY <1>1, <2>1, <2>2, <2>3, <2>4
  <1>4. ASSUME NEW i \in DOMAIN wire', wire'[i] \in States PROVE since'[wire'[i]] = 0
    <2>1. CASE wire' = <<>>
      BY <1>4, <2>1, SMT
    <2>2. CASE since' = since /\ wire' = wire
      BY <1>2, <1>4, <2>2, Zenon
    <2>3. CASE Rest
      <3>1. CASE wire' = Append(wire, "delta")
        <4>1. i \in DOMAIN wire /\ wire'[i] = wire[i]
          BY <1>2, <1>4, <3>1, WireGrows, NamesApart, Zenon
        <4>2. QED
          BY <1>2, <1>4, <2>3, <4>1, Zenon DEF Rest
      <3>2. QED
        BY <2>1, <2>2, <2>3, <3>1, Zenon DEF Rest
    <2>4. CASE Receive
      <3>1. since' = since /\ wire # <<>> /\ wire' = Tail(wire)
        BY <2>4, ReceiveFields, Zenon
      <3>2. wire'[i] = wire[i + 1] /\ i + 1 \in DOMAIN wire
        BY <1>2, <3>1, WireShrinks, Zenon
      <3>3. QED
        BY <1>2, <1>4, <3>1, <3>2, Zenon
    <2>5. CASE Change
      <3>1. /\ since'[truth'] = 0 /\ \A s \in States : since'[s] \in {since[s], 0}
            /\ wire' = wire \/ wire' = Append(wire, truth')
        BY <2>5, ChangeFields, Zenon
      <3>2. wire'[i] = truth' \/ (i \in DOMAIN wire /\ wire'[i] = wire[i])
        BY <1>2, <3>1, WireGrows, Zenon
      <3>3. QED
        BY <1>2, <1>4, <3>1, <3>2, SMT
    <2>6. CASE Tick
      <3>1. wire = <<>> /\ wire' = wire
        BY <2>6, TickFields, Zenon
      <3>2. QED
        BY <2>1, <3>1
    <2>7. CASE Clear \/ Reopen
      BY <2>1, <2>7, ReopenFields, Zenon DEF Clear
    <2>8. CASE Merge
      BY <2>2, <2>8, MergeFields, Zenon
    <2>9. QED
      BY <1>1, <2>3, <2>4, <2>5, <2>6, <2>7, <2>8
  <1>5. ASSUME snap'.step = "answered" PROVE since'[snap'.value] = 0
    <2>1. \/ snap.step = "answered" /\ snap'.value = snap.value
          \/ Answer /\ snap'.value = truth
      BY <1>5, SnapStep, Zenon DEF IInv
    <2>2. CASE Answer /\ snap'.value = truth
      BY <1>2, <2>2, SMT DEF Answer, printerVars
    <2>3. CASE snap.step = "answered" /\ snap'.value = snap.value
      <3>1. CASE Rest \/ Reopen \/ Receive \/ Merge
        <4>1. since' = since
          BY <3>1, ReopenFields, ReceiveFields, MergeFields, Zenon DEF Rest
        <4>2. QED
          BY <1>2, <2>3, <4>1
      <3>2. CASE Clear
        BY <1>5, <3>2, SMT DEF Clear, NoSnap
      <3>3. CASE Change
        <4>1. since'[snap.value] \in {since[snap.value], 0}
          BY <1>2, <2>3, <3>3, ChangeFields, Zenon
        <4>2. QED
          BY <1>2, <2>3, <4>1, SMT
      <3>4. CASE Tick
        BY <2>3, <3>4, TickFields, Zenon
      <3>5. QED
        BY <1>1, <3>1, <3>2, <3>3, <3>4
    <2>4. QED
      BY <2>1, <2>2, <2>3
  <1>6. QED
    BY <1>3, <1>4, <1>5, Zenon DEF InFlightIsNow

LEMMA TruthStep ==
  ASSUME IInv, [Next]_vars
  PROVE  WireEndsInTruth'
  <1>1. Rest \/ Clear \/ Reopen \/ Receive \/ Merge \/ Change \/ Tick
    BY Moves
  <1>2. /\ conn # "up" => wire = <<>>
        /\ \A i \in DOMAIN wire :
             wire[i] \in States /\ (\A j \in DOMAIN wire : j > i => wire[j] \notin States)
               => wire[i] = truth
        /\ wire \in Seq(States \cup {"delta"})
    BY Zenon DEF IInv, WireEndsInTruth, TypeOK
  <1>3. CASE wire' = <<>>
    BY <1>3, SMT DEF WireEndsInTruth
  <1>4. CASE truth' = truth /\ conn' = conn /\ wire' = wire
    BY <1>2, <1>4, Zenon DEF WireEndsInTruth
  <1>5. CASE truth' = truth /\ conn' = conn /\ conn = "up" /\ wire' = Append(wire, "delta")
    <2>1. ASSUME NEW i \in DOMAIN wire', wire'[i] \in States,
                 \A j \in DOMAIN wire' : j > i => wire'[j] \notin States
          PROVE  wire'[i] = truth
      <3>1. i \in DOMAIN wire /\ wire'[i] = wire[i]
        BY <1>2, <1>5, <2>1, WireGrows, NamesApart, Zenon
      <3>2. \A j \in DOMAIN wire : j > i => wire[j] \notin States
        BY <1>2, <1>5, <2>1, WireGrows, Zenon
      <3>3. QED
        BY <1>2, <2>1, <3>1, <3>2, Zenon
    <2>2. QED
      BY <1>5, <2>1, Zenon DEF WireEndsInTruth
  <1>6. CASE Receive
    <2>1. conn' = "up" /\ truth' = truth /\ wire # <<>> /\ wire' = Tail(wire)
      BY <1>6, ReceiveFields, Zenon
    <2>2. ASSUME NEW i \in DOMAIN wire', wire'[i] \in States,
                 \A j \in DOMAIN wire' : j > i => wire'[j] \notin States
          PROVE  wire'[i] = truth
      <3>1. i \in Int /\ i + 1 \in DOMAIN wire /\ wire'[i] = wire[i + 1]
        BY <1>2, <2>1, <2>2, WireShrinks, Zenon
      <3>2. \A j \in DOMAIN wire : j > i + 1 => wire[j] \notin States
        <4> SUFFICES ASSUME NEW j \in DOMAIN wire, j > i + 1 PROVE wire[j] \notin States
          OBVIOUS
        <4>0. j \in Int
          BY <1>2, <2>1, WireShrinks, Zenon
        <4>1. j - 1 > i /\ (i \in DOMAIN wire' => j # 1)
          <5>1. i \in DOMAIN wire' => i >= 1
            BY <1>2, <2>1, SMT
          <5>2. QED
            BY <3>1, <4>0, <5>1, SMT
        <4>2. j - 1 \in DOMAIN wire' /\ wire'[j - 1] = wire[j]
          BY <1>2, <2>1, <2>2, <4>1, WireShrinks, Zenon
        <4>3. QED
          BY <2>2, <4>1, <4>2, Zenon
      <3>3. QED
        BY <1>2, <2>2, <3>1, <3>2, Zenon
    <2>3. QED
      BY <2>1, <2>2, Zenon DEF WireEndsInTruth
  <1>7. CASE Change
    <2>1. /\ conn' = conn
          /\ wire' = IF conn = "up" THEN Append(wire, truth') ELSE wire
      BY <1>7, ChangeFields, Zenon
    <2>2. truth' \in States
      BY <1>7, ChangeFields, Zenon
    <2>3. CASE conn = "up"
      <3>1. ASSUME NEW i \in DOMAIN wire', \A j \in DOMAIN wire' : j > i => wire'[j] \notin States
            PROVE  wire'[i] = truth'
        <4>1. PICK last \in DOMAIN wire' : wire'[last] = truth' /\ \A k \in DOMAIN wire : last > k
          BY <1>2, <2>1, <2>3, WireGrows, Zenon
        <4>2. i \in DOMAIN wire => wire'[last] \notin States
          BY <3>1, <4>1, Zenon
        <4>3. i \notin DOMAIN wire => wire'[i] = truth'
          BY <1>2, <2>1, <2>3, <3>1, WireGrows, Zenon
        <4>4. QED
          BY <2>2, <4>1, <4>2, <4>3, Zenon
      <3>2. QED
        BY <2>1, <2>3, <3>1, Zenon DEF WireEndsInTruth
    <2>4. CASE conn # "up"
      BY <1>2, <1>3, <2>1, <2>4
    <2>5. QED
      BY <2>3, <2>4
  <1>8. CASE Rest
    BY <1>3, <1>4, <1>5, <1>8, Zenon DEF Rest
  <1>9. CASE Merge
    BY <1>4, <1>9, MergeFields, Zenon
  <1>10. CASE Tick
    BY <1>4, <1>10, TickFields, Zenon
  <1>11. CASE Clear \/ Reopen
    BY <1>3, <1>11, ReopenFields, Zenon DEF Clear
  <1>12. QED
    BY <1>1, <1>6, <1>7, <1>8, <1>9, <1>10, <1>11

-----------------------------------------------------------------------------
(***************************************************************************)
(* The invariants about what the client knows.                             *)
(***************************************************************************)

\* The first push of a wire with no other state on it is what the printer does.
LEMMA LastPush ==
  ASSUME IInv, wire # <<>>, wire' = Tail(wire), NoStateSent'
  PROVE  /\ Head(wire) \in States => Head(wire) = truth
         /\ Head(wire) \notin States => NoStateSent
  <1>1. /\ wire \in Seq(States \cup {"delta"})
        /\ \A i \in DOMAIN wire :
             wire[i] \in States /\ (\A j \in DOMAIN wire : j > i => wire[j] \notin States)
               => wire[i] = truth
    BY Zenon DEF IInv, TypeOK, WireEndsInTruth
  <1>2. /\ 1 \in DOMAIN wire /\ Head(wire) = wire[1]
        /\ \A j \in DOMAIN wire : j # 1 => j - 1 \in DOMAIN wire' /\ wire'[j - 1] = wire[j]
    BY <1>1, WireShrinks, Zenon
  <1>3. \A j \in DOMAIN wire : j # 1 => wire[j] \notin States
    BY <1>2, Zenon DEF NoStateSent
  <1>4. \A j \in DOMAIN wire : j > 1 => j # 1
    BY <1>1, SMT
  <1>5. QED
    BY <1>1, <1>2, <1>3, <1>4, Zenon DEF NoStateSent

LEMMA UpToDateStep ==
  ASSUME IInv, [Next]_vars
  PROVE  UpToDate'
  <1>1. Rest \/ Clear \/ Reopen \/ Receive \/ Merge \/ Change \/ Tick
    BY Moves
  <1> SUFFICES ASSUME conn' = "up", NoStateSent'
               PROVE  /\ acc' \in States => acc' = truth'
                      /\ acc' \notin States /\ snap'.step = "answered" /\ snap'.current
                           => snap'.value = truth'
    BY Zenon DEF UpToDate
  <1>2. wire \in Seq(States \cup {"delta"})
    BY DEF IInv, TypeOK
  <1>3. conn = "up" /\ NoStateSent =>
          /\ acc \in States => acc = truth
          /\ acc \notin States /\ snap.step = "answered" /\ snap.current => snap.value = truth
    BY Zenon DEF IInv, UpToDate
  <1>4. snap'.step = "answered" =>
          \/ snap.step = "answered" /\ snap'.value = snap.value /\ (snap'.current => snap.current)
          \/ snap'.value = truth
    BY SnapStep, Zenon DEF IInv
  <1>5. CASE NoStateSent /\ conn = "up" /\ truth' = truth
             /\ (acc' = acc \/ (acc \notin States /\ acc' \notin States))
    BY <1>3, <1>4, <1>5, Zenon
  <1>6. CASE Rest
    <2>1. truth' = truth /\ acc' = acc /\ conn = "up"
      BY <1>6, Zenon DEF Rest
    <2>2. wire' = wire \/ wire' = Append(wire, "delta")
      BY <1>6, Zenon DEF Rest
    <2>3. \A i \in DOMAIN wire : i \in DOMAIN wire' /\ wire'[i] = wire[i]
      BY <1>2, <2>2, WireGrows, Zenon
    <2>4. NoStateSent
      BY <2>3, Zenon DEF NoStateSent
    <2>5. QED
      BY <1>5, <2>1, <2>4
  <1>7. CASE Clear
    BY <1>7, SMT DEF Clear
  <1>8. CASE Reopen
    <2>1. acc' = "empty" /\ ~snap'.current
      <3>1. Retire /\ TypeOK
        BY <1>8, ReopenFields, Zenon DEF IInv
      <3>2. QED
        BY <1>8, <3>1, RetireFields, NewConnection, Zenon DEF Reopen
    <2>2. QED
      BY <2>1, NamesApart, Zenon
  <1>9. CASE Receive
    <2>1. /\ conn = "up" /\ truth' = truth /\ wire # <<>> /\ wire' = Tail(wire)
          /\ Head(wire) \in States => acc' = Head(wire)
          /\ Head(wire) \notin States => (acc' = acc \/ (acc = "empty" /\ acc' = "delta"))
      BY <1>9, ReceiveFields, Zenon
    <2>2. CASE Head(wire) \in States
      BY <2>1, <2>2, LastPush, Zenon
    <2>3. CASE Head(wire) \notin States
      BY <1>5, <2>1, <2>3, LastPush, NamesApart, Zenon
    <2>4. QED
      BY <2>2, <2>3
  <1>10. CASE Merge
    <2>1. /\ snap.step = "answered" /\ truth' = truth /\ conn = "up" /\ wire' = wire
          /\ \/ snap.current /\ acc' = (IF acc \in States THEN acc ELSE snap.value)
             \/ acc' = acc
      BY <1>10, MergeFields, Zenon
    <2>2. NoStateSent
      BY <2>1, Zenon DEF NoStateSent
    <2>3. QED
      BY <1>3, <1>5, <2>1, <2>2, <1>4, Zenon
  <1>11. CASE Change
    <2>1. truth' \in States /\ conn = "up" /\ wire' = Append(wire, truth')
      BY <1>11, ChangeFields, Zenon
    <2>2. \E last \in DOMAIN wire' : wire'[last] = truth'
      BY <1>2, <2>1, WireGrows, Zenon
    <2>3. QED
      BY <2>1, <2>2, Zenon DEF NoStateSent
  <1>12. CASE Tick
    <2>1. truth' = truth /\ conn = "up" /\ wire' = wire /\ acc' = acc
      BY <1>12, TickFields, Zenon
    <2>2. NoStateSent
      BY <2>1, Zenon DEF NoStateSent
    <2>3. QED
      BY <1>5, <2>1, <2>2
  <1>13. QED
    BY <1>1, <1>6, <1>7, <1>8, <1>9, <1>10, <1>11, <1>12

LEMMA AgedStep ==
  ASSUME IInv, [Next]_vars
  PROVE  Aged'
  <1>1. Rest \/ Clear \/ Reopen \/ Receive \/ Merge \/ Change \/ Tick
    BY Moves
  <1>2. /\ conn = "up" /\ acc \in States => since[acc] = 0
        /\ acc \in States => since[acc] <= updateAge
        /\ acc \in States /\ provisional # "none" => since[acc] <= provAge
        /\ provisional # "none" => since[provisional] <= provAge
    BY Zenon DEF IInv, Aged
  <1>3. /\ truth \in States /\ since \in [States -> Ages] /\ provAge \in Ages /\ updateAge \in Ages
        /\ provisional \in States \cup {"none"} /\ wire \in Seq(States \cup {"delta"})
    BY Zenon DEF IInv, TypeOK
  <1>4. \A s \in States : since[s] \in Ages
    BY <1>3, Zenon
  <1>5. \A a \in Ages : a \in Int /\ 0 <= a
    BY AgeRange, SMT
  <1>6. CASE Rest
    <2>1. /\ UNCHANGED <<since, acc, provisional, provAge, updateAge>>
          /\ conn' = "up" => conn = "up"
      BY <1>6, Zenon DEF Rest
    <2>2. QED
      BY <1>2, <2>1, Zenon DEF Aged
  <1>7. CASE Clear
    BY <1>7, NamesApart, Zenon DEF Clear, Aged
  <1>8. CASE Reopen
    <2>1. Retire /\ TypeOK /\ since' = since
      BY <1>8, ReopenFields, Zenon DEF IInv
    <2>2. acc' = "empty" /\ (provisional' # "none" => since[provisional'] <= provAge')
      <3>1. CASE provisional' = provisional /\ provAge' = provAge
        BY <1>2, <2>1, <3>1, RetireFields, Zenon
      <3>2. CASE acc \in States /\ provisional' = acc /\ provAge' = updateAge
        BY <1>2, <2>1, <3>2, RetireFields, Zenon
      <3>3. CASE /\ provAge' = provAge /\ provisional # "none" /\ provisional' = "printing"
                 /\ acc = "printing" \/ (acc \notin States /\ provisional = "printing")
        BY <1>2, <2>1, <3>3, RetireFields, NamesApart, SMT
      <3>4. QED
        BY <2>1, <3>1, <3>2, <3>3, RetireFields, Zenon
    <2>3. QED
      BY <2>1, <2>2, NamesApart, Zenon DEF Aged
  <1>9. CASE Receive
    <2>1. /\ conn = "up" /\ wire # <<>> /\ wire' = Tail(wire) /\ updateAge' = 0
          /\ Head(wire) \in States => acc' = Head(wire)
          /\ Head(wire) \notin States => (acc' = acc \/ (acc = "empty" /\ acc' = "delta"))
          /\ UNCHANGED <<since, provisional, provAge>>
      BY <1>9, ReceiveFields, Zenon
    <2>2. Head(wire) \in States => since[Head(wire)] = 0
      <3>1. 1 \in DOMAIN wire /\ Head(wire) = wire[1]
        BY <1>3, <2>1, WireShrinks, Zenon
      <3>2. QED
        BY <3>1, Zenon DEF IInv, InFlightIsNow
    <2>3. acc' \in States => since'[acc'] = 0
      BY <1>2, <2>1, <2>2, NamesApart, Zenon
    <2>4. updateAge' = 0 /\ 0 <= provAge' /\ (provisional' # "none" => since'[provisional'] <= provAge')
      BY <1>2, <1>3, <1>5, <2>1, Zenon
    <2>5. QED
      BY <2>3, <2>4, SMT DEF Aged
  <1>10. CASE Merge
    <2>1. /\ snap.step = "answered" /\ snap.value \in States
          /\ UNCHANGED <<since, conn, provAge, updateAge>>
          /\ \/ provisional' = "none" /\ acc' = (IF acc \in States THEN acc ELSE snap.value)
             \/ UNCHANGED <<acc, provisional>>
      BY <1>10, MergeFields, Zenon
    <2>2. since[snap.value] = 0
      BY <2>1, Zenon DEF IInv, InFlightIsNow
    <2>3. CASE provisional' = "none" /\ acc' = acc
      BY <1>2, <2>1, <2>3, Zenon DEF Aged
    <2>4. CASE provisional' = "none" /\ acc' = snap.value
      <3>1. since'[acc'] = 0 /\ 0 <= updateAge'
        BY <1>3, <1>5, <2>1, <2>2, <2>4, Zenon
      <3>2. QED
        BY <2>4, <3>1, SMT DEF Aged
    <2>5. CASE UNCHANGED <<acc, provisional>>
      <3>1. acc' = acc /\ provisional' = provisional
        BY <2>5
      <3>2. QED
        BY <1>2, <2>1, <3>1, Zenon DEF Aged
    <2>6. QED
      BY <2>1, <2>3, <2>4, <2>5, Zenon
  <1>11. CASE Change
    <2>1. /\ UNCHANGED <<conn, acc, provisional, provAge, updateAge>>
          /\ \A s \in States : since'[s] \in {since[s], 0}
      BY <1>11, ChangeFields, Zenon
    <2>2. \A s \in States : since'[s] \in Int /\ since'[s] <= since[s] /\ (since[s] = 0 => since'[s] = 0)
      BY <1>4, <1>5, <2>1, SMT
    <2>3. /\ conn' = "up" /\ acc' \in States => since'[acc'] = 0
          /\ acc' \in States => since'[acc'] <= updateAge'
          /\ acc' \in States /\ provisional' # "none" => since'[acc'] <= provAge'
      BY <1>2, <1>3, <1>4, <1>5, <2>1, <2>2, SMT
    <2>4. provisional' # "none" => since'[provisional'] <= provAge'
      BY <1>2, <1>3, <1>4, <1>5, <2>1, <2>2, SMT
    <2>5. QED
      BY <2>3, <2>4, Zenon DEF Aged
  <1>12. CASE Tick
    <2>1. /\ wire = <<>> /\ since'[truth] = 0
          /\ \A s \in States : s # truth => since'[s] = Older(since[s])
          /\ provAge' = Older(provAge) /\ updateAge' = Older(updateAge)
          /\ UNCHANGED <<conn, acc, provisional>>
      BY <1>12, TickFields, Zenon
    <2>2. conn = "up" /\ acc \in States => acc = truth
      <3>1. NoStateSent
        BY <2>1, SMT DEF NoStateSent
      <3>2. QED
        BY <3>1, Zenon DEF IInv, UpToDate
    <2>3. Older(provAge) \in Ages /\ Older(updateAge) \in Ages
      BY <1>3, OlderKeepsOrder, Zenon
    <2>4. ASSUME NEW s \in States, NEW age \in Ages, since[s] <= age PROVE since'[s] <= Older(age)
      <3>1. CASE s = truth
        <4>1. 0 <= Older(age)
          BY <1>5, OlderKeepsOrder, Zenon
        <4>2. QED
          BY <2>1, <3>1, <4>1, Zenon
      <3>2. CASE s # truth
        BY <1>4, <2>1, <2>4, <3>2, OlderKeepsOrder, Zenon
      <3>3. QED
        BY <3>1, <3>2
    <2>5. /\ conn' = "up" /\ acc' \in States => since'[acc'] = 0
          /\ acc' \in States => since'[acc'] <= updateAge'
          /\ acc' \in States /\ provisional' # "none" => since'[acc'] <= provAge'
          /\ provisional' # "none" => since'[provisional'] <= provAge'
      <3>1. provisional # "none" => provisional \in States
        BY <1>3
      <3>2. QED
        BY <1>2, <1>3, <2>1, <2>2, <2>4, <3>1, Zenon
    <2>6. QED
      BY <2>5, Zenon DEF Aged
  <1>13. QED
    BY <1>1, <1>6, <1>7, <1>8, <1>9, <1>10, <1>11, <1>12

LEMMA LastWordStep ==
  ASSUME IInv, [Next]_vars
  PROVE  LastWord'
  <1>1. Rest \/ Clear \/ Reopen \/ Receive \/ Merge \/ Change \/ Tick
    BY Moves
  <1>2. /\ acc \in States => acc = word
        /\ acc \notin States /\ provisional = "printing" /\ provAge <= PROV_MAX => word = "printing"
        /\ provAge \in Ages
    BY Zenon DEF IInv, LastWord, TypeOK
  <1>3. CASE UNCHANGED <<acc, provisional, provAge, word>>
    BY <1>2, <1>3, SMT DEF LastWord
  <1>4. CASE Reopen
    <2>1. Retire /\ TypeOK /\ word' = word
      BY <1>4, ReopenFields, Zenon DEF IInv
    <2>2. acc' = "empty" /\ acc' \notin States
      BY <2>1, RetireFields, NamesApart, Zenon
    <2>3. CASE provisional' = provisional /\ provAge' = provAge /\ acc \notin States
      BY <1>2, <2>1, <2>2, <2>3, Zenon DEF LastWord
    <2>4. CASE provisional' = "none"
      BY <2>2, <2>4, SMT DEF LastWord
    <2>5. CASE acc \in States /\ provisional' = acc
      BY <1>2, <2>1, <2>2, <2>5, Zenon DEF LastWord
    <2>6. CASE /\ provAge <= PROV_MAX
               /\ acc = "printing" \/ (acc \notin States /\ provisional = "printing")
      <3>1. word = "printing"
        BY <1>2, <2>6, NamesApart, SMT
      <3>2. QED
        BY <2>1, <2>2, <3>1, Zenon DEF LastWord
    <2>7. QED
      BY <2>1, <2>3, <2>4, <2>5, <2>6, RetireFields, Zenon
  <1>5. CASE Receive
    <2>1. /\ Head(wire) \in States => acc' = Head(wire) /\ word' = Head(wire)
          /\ Head(wire) \notin States => word' = word /\ (acc' = acc \/ (acc = "empty" /\ acc' = "delta"))
          /\ provisional' = provisional /\ provAge' = provAge
      BY <1>5, ReceiveFields, Zenon
    <2>2. QED
      BY <1>2, <2>1, NamesApart, Zenon DEF LastWord
  <1>6. CASE Merge
    <2>1. /\ snap.value \in States /\ provAge' = provAge
          /\ \/ acc' = (IF acc \in States THEN acc ELSE snap.value) /\ word' = acc'
             \/ UNCHANGED <<acc, word, baseline, provisional>>
      BY <1>6, MergeFields, Zenon
    <2>2. CASE acc' = (IF acc \in States THEN acc ELSE snap.value) /\ word' = acc'
      <3>1. acc' \in States
        BY <2>1, <2>2, Zenon
      <3>2. QED
        BY <2>2, <3>1, Zenon DEF LastWord
    <2>3. CASE UNCHANGED <<acc, word, baseline, provisional>>
      <3>1. UNCHANGED <<acc, provisional, provAge, word>>
        BY <2>1, <2>3
      <3>2. QED
        BY <1>3, <3>1
    <2>4. QED
      BY <2>1, <2>2, <2>3
  <1>7. CASE Tick
    <2>1. provAge' = Older(provAge) /\ UNCHANGED <<acc, provisional, word>>
      BY <1>7, TickFields, SMT
    <2>2. provAge' <= PROV_MAX => provAge <= PROV_MAX
      BY <1>2, <2>1, AgeRange, SMT DEF Older
    <2>3. QED
      BY <1>2, <2>1, <2>2, SMT DEF LastWord
  <1>8. CASE Clear
    BY <1>8, NamesApart, SMT DEF Clear, LastWord
  <1>9. CASE Rest \/ Change
    <2>1. UNCHANGED <<acc, provisional, provAge, word>>
      BY <1>9, ChangeFields, SMT DEF Rest
    <2>2. QED
      BY <1>3, <2>1
  <1>10. QED
    BY <1>1, <1>4, <1>5, <1>6, <1>7, <1>8, <1>9

-----------------------------------------------------------------------------
LEMMA IInvStep == IInv /\ [Next]_vars => IInv'
  <1> SUFFICES ASSUME IInv, [Next]_vars PROVE IInv'
    OBVIOUS
  <1>1. TypeOK' /\ AnswerHasValue' /\ InFlightIsNow' /\ WireEndsInTruth' /\ UpToDate' /\ Aged' /\ LastWord'
    BY TypeStep, AnswerStep, FlightStep, TruthStep, UpToDateStep, AgedStep, LastWordStep, Zenon
  <1>2. QED
    BY <1>1, Zenon DEF IInv

\* In every state the data of the client are as old as their ages say, and what is on the
\* wire or in the answer leads to the truth.
THEOREM LinkInvariant == Spec => []IInv
  <1>1. QED
    BY InitIInv, IInvStep, PTL DEF Spec

\* Every variable keeps its type, and a baseline never stands beside a provisional view
\* (_apply_snapshot clears it, _retire_connection starts a new generation).
THEOREM TypeCorrect == Spec => []TypeOK
  <1>1. IInv => TypeOK
    BY DEF IInv
  <1>2. QED
    BY <1>1, LinkInvariant, PTL

LEMMA ServedIsAged == IInv => ServedIsRecent
  <1> SUFFICES ASSUME IInv PROVE ServedIsRecent
    OBVIOUS
  <1>1. /\ acc \in States => since[acc] <= updateAge
        /\ acc \in States /\ provisional # "none" => since[acc] <= provAge
        /\ provisional # "none" => since[provisional] <= provAge
        /\ since \in [States -> Ages] /\ provAge \in Ages /\ updateAge \in Ages
        /\ baseline \in BOOLEAN
    BY Zenon DEF IInv, Aged, TypeOK
  <1>2. since["idle"] \in Nat /\ since["printing"] \in Nat /\ provAge \in Nat /\ updateAge \in Nat
    <2>1. \A a \in Ages : a \in Nat
      BY AgeRange, Zenon
    <2>2. "idle" \in States /\ "printing" \in States
      BY NamesApart, SMT
    <2>3. QED
      BY <1>1, <2>1, <2>2, Zenon
  <1>3. Served # "unknown" => Served = View /\ ~Silent
    BY Zenon DEF Served
  <1>4. CASE baseline
    <2>1. View # "unknown" => acc \in States /\ View = acc
      BY <1>4, Zenon DEF View
    <2>2. ~Silent => updateAge <= SILENCE
      BY <1>2, <1>4, AgeRange, SMT DEF Silent
    <2>3. Served # "unknown" => Served \in States /\ since[Served] <= updateAge /\ updateAge <= SILENCE
      BY <1>1, <1>3, <2>1, <2>2, Zenon
    <2>4. QED
      BY <1>2, <2>3, AgeRange, SMT DEF ServedIsRecent
  <1>5. CASE ~baseline
    <2>1. View # "unknown" =>
            /\ View = "printing" /\ provisional # "none" /\ provAge <= PROV_MAX
            /\ "printing" = IF acc \in States THEN acc ELSE provisional
      BY <1>5, Zenon DEF View
    <2>2. View # "unknown" => since["printing"] <= provAge /\ provAge <= PROV_MAX
      BY <1>1, <2>1, NamesApart, SMT
    <2>3. Served # "idle" /\ (Served = "printing" => since["printing"] <= PROV_MAX)
      BY <1>2, <1>3, <2>1, <2>2, AgeRange, SMT
    <2>4. QED
      BY <2>3, Zenon DEF ServedIsRecent
  <1>6. QED
    BY <1>1, <1>4, <1>5

\* An idle printer that status() serves was idle within _STATUS_SILENCE_S, and a printing
\* one printed within _PROVISIONAL_MAX_S, through every reconnect, lost or silent
\* connection, merge and reconfiguration.
THEOREM ServedStaysRecent == Spec => []ServedIsRecent
  <1>1. QED
    BY LinkInvariant, ServedIsAged, PTL

LEMMA ViewIsLastWord == IInv => NoOldWord
  <1> SUFFICES ASSUME IInv, View # "unknown" PROVE View = word
    BY DEF NoOldWord
  <1>1. /\ acc \in States => acc = word
        /\ acc \notin States /\ provisional = "printing" /\ provAge <= PROV_MAX => word = "printing"
        /\ baseline \in BOOLEAN
    BY Zenon DEF IInv, LastWord, TypeOK
  <1>2. CASE baseline
    BY <1>1, <1>2, Zenon DEF View
  <1>3. CASE ~baseline
    <2>1. /\ View = "printing" /\ provAge <= PROV_MAX
          /\ "printing" = IF acc \in States THEN acc ELSE provisional
      BY <1>3, Zenon DEF View
    <2>2. QED
      BY <1>1, <2>1, Zenon
  <1>4. QED
    BY <1>1, <1>2, <1>3

\* _current_view never falls back behind the last state that a push or a merged snapshot
\* told: a contradicted provisional view does not come back with the next connection.
THEOREM WordIsNeverOld == Spec => []NoOldWord
  <1>1. QED
    BY LinkInvariant, ViewIsLastWord, PTL
=============================================================================
