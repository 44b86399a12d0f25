------------------------- MODULE PrinterCommand_proofs -------------------------
(***************************************************************************)
(* Proofs about PrinterCommand, for any number of calls, attempts and       *)
(* printers: it implements Command (IInv), every variable keeps its values  *)
(* and the control lock has one holder (ValueInv, LockInv), and the         *)
(* debounce refuses a pause only for a cause.                              *)
(***************************************************************************)
EXTENDS PrinterCommand, TLAPS

\* What has not been published, or was refused by the library, or is answered.
Unpublished ==
  {"none", "lock", "backoff", "connect", "register", "failed", "debounced"}
Answered == {"ok", "rejected"}
Published == {"ack", "unknown", "cancelled"}

Typed ==
  /\ phase \in [Calls -> Unpublished \cup Answered \cup Published]
  /\ executed \in [Calls -> Nat]
  /\ \A r \in requests : r.id.call \in Calls
  /\ \A a \in acks : a.id.call \in Calls /\ a.ok \in BOOLEAN

OnWire(c) == (\E r \in requests : r.id.call = c) \/ (\E a \in acks : a.id.call = c)

\* A call that was never published, or whose answer was read, has nothing on the wire.
QuietEnds ==
  \A c \in Calls : phase[c] \in Unpublished \cup Answered => ~OnWire(c)

\* Its caller knows whether the printer executed it.
KnownOutcome ==
  \A c \in Calls :
    /\ phase[c] \in Unpublished \cup {"rejected"} => executed[c] = 0
    /\ phase[c] = "ok" => executed[c] = 1

\* A command on its way has not been executed, an answer tells whether it was.
WireTells ==
  /\ \A r \in requests : executed[r.id.call] = 0
  /\ \A a \in acks : executed[a.id.call] = IF a.ok THEN 1 ELSE 0

\* A call is on the wire once: as one command or as one answer.
OnWireOnce ==
  /\ \A r, s \in requests : r.id.call = s.id.call => r = s
  /\ \A a, b \in acks : a.id.call = b.id.call => a = b
  /\ \A r \in requests, a \in acks : r.id.call # a.id.call

IInv == Typed /\ QuietEnds /\ KnownOutcome /\ WireTells /\ OnWireOnce

-----------------------------------------------------------------------------
(***************************************************************************)
(* The invariant.                                                          *)
(***************************************************************************)

LEMMA InitEstablishes == Init => IInv
  BY DEF Init, IInv, Typed, QuietEnds, KnownOutcome, WireTells, OnWireOnce, OnWire, Unpublished,
         Answered

LEMMA NothingMoves ==
  ASSUME IInv, UNCHANGED <<phase, requests, acks, executed>>
  PROVE  IInv'
  BY DEF IInv, Typed, QuietEnds, KnownOutcome, WireTells, OnWireOnce, OnWire

\* A caller that goes on before its publish, or gives up, disturbs nothing.
LEMMA CallerMoves ==
  ASSUME IInv, NEW c \in Calls, NEW where,
         phase' = [phase EXCEPT ![c] = where],
         UNCHANGED <<requests, acks, executed>>,
         \/ phase[c] \in Unpublished /\ where \in Unpublished
         \/ where \in {"unknown", "cancelled"}
  PROVE  IInv'
  <1>1. /\ phase'[c] = where
        /\ \A d \in Calls : d # c => phase'[d] = phase[d]
    BY DEF IInv, Typed
  <1>2. Typed'
    BY <1>1 DEF IInv, Typed, Unpublished, Answered, Published
  <1>3. QuietEnds'
    BY <1>1 DEF IInv, QuietEnds, OnWire, Unpublished, Answered
  <1>4. KnownOutcome'
    BY <1>1 DEF IInv, KnownOutcome, Unpublished
  <1>5. (WireTells /\ OnWireOnce)'
    BY DEF IInv, WireTells, OnWireOnce
  <1> QED BY <1>2, <1>3, <1>4, <1>5 DEF IInv

LEMMA FailMoves ==
  ASSUME IInv, NEW c \in Calls, FailAttempt(c) \/ End(c, "failed"), UNCHANGED wire,
         phase[c] \in Unpublished
  PROVE  IInv'
  <1>1. PICK where \in {"backoff", "failed"} : phase' = [phase EXCEPT ![c] = where]
    BY DEF FailAttempt, End, Goto
  <1> QED BY <1>1, CallerMoves DEF wire, Unpublished

\* The steps of a call other than its publish and the reading of an answer.
LEMMA StepsAlone ==
  ASSUME IInv, NEW c \in Calls,
         \/ Begin(c) \/ Retry(c) \/ StartSession(c) \/ Connect(c) \/ RegisterFails(c)
         \/ NoAck(c) \/ Cancel(c)
  PROVE  IInv'
  <1>1. CASE Begin(c)
    <2>1. PICK where \in {"debounced", "lock"} : phase' = [phase EXCEPT ![c] = where]
      BY <1>1 DEF Begin, Goto
    <2> QED BY <1>1, <2>1, CallerMoves DEF Begin, wire, Unpublished
  <1>2. CASE Retry(c)
    BY <1>2, CallerMoves DEF Retry, Goto, wire, Unpublished
  <1>3. CASE StartSession(c)
    <2>1. CASE FailAttempt(c)
      BY <1>3, <2>1, FailMoves DEF StartSession, Unpublished
    <2>2. CASE Goto(c, "connect")
      BY <1>3, <2>2, CallerMoves DEF StartSession, Goto, wire, Unpublished
    <2> QED BY <1>3, <2>1, <2>2 DEF StartSession
  <1>4. CASE Connect(c)
    <2>1. CASE FailAttempt(c) \/ End(c, "failed")
      BY <1>4, <2>1, FailMoves DEF Connect, Unpublished
    <2>2. CASE Goto(c, "register")
      BY <1>4, <2>2, CallerMoves DEF Connect, Goto, wire, Unpublished
    <2> QED BY <1>4, <2>1, <2>2 DEF Connect
  <1>5. CASE RegisterFails(c)
    BY <1>5, FailMoves DEF RegisterFails, Unpublished
  <1>6. CASE NoAck(c)
    BY <1>6, CallerMoves DEF NoAck, End, Goto, wire
  <1>7. CASE Cancel(c)
    BY <1>7, CallerMoves DEF Cancel, End, Goto, wire
  <1> QED BY <1>1, <1>2, <1>3, <1>4, <1>5, <1>6, <1>7

LEMMA PublishKeeps ==
  ASSUME IInv, NEW c \in Calls, Publish(c)
  PROVE  IInv'
  <1> DEFINE r0 == [id |-> IdOf(c), at |-> session[c]]
  <1>1. /\ r0.id.call = c
        /\ requests' = requests \cup {r0}
        /\ UNCHANGED <<acks, executed>>
        /\ phase[c] \in Unpublished
        /\ phase' = [phase EXCEPT ![c] = "ack"]
    BY DEF Publish, IdOf, Goto, Unpublished
  <1> HIDE DEF r0
  <1>2. /\ phase'[c] = "ack"
        /\ \A d \in Calls : d # c => phase'[d] = phase[d]
    BY <1>1 DEF IInv, Typed
  <1>3. ~OnWire(c) /\ executed[c] = 0
    BY <1>1 DEF IInv, QuietEnds, KnownOutcome
  <1>4. Typed'
    BY <1>1, <1>2 DEF IInv, Typed, Published
  <1>5. QuietEnds'
    BY <1>1, <1>2 DEF IInv, QuietEnds, OnWire, Unpublished, Answered
  <1>6. KnownOutcome'
    BY <1>1, <1>2 DEF IInv, KnownOutcome, Unpublished
  <1>7. WireTells'
    BY <1>1, <1>3 DEF IInv, WireTells
  <1>8. OnWireOnce'
    BY <1>1, <1>3 DEF IInv, OnWireOnce, OnWire
  <1> QED BY <1>4, <1>5, <1>6, <1>7, <1>8 DEF IInv

LEMMA AckKeeps ==
  ASSUME IInv, NEW c \in Calls, Ack(c)
  PROVE  IInv'
  <1>1. PICK a \in acks :
          /\ acks' = acks \ {a}
          /\ IF a.id = IdOf(c)
             THEN End(c, IF a.ok THEN "ok" ELSE "rejected")
             ELSE UNCHANGED phase
    BY DEF Ack
  <1>2. UNCHANGED <<requests, executed>>
    BY DEF Ack
  <1>3. CASE a.id = IdOf(c)
    <2>1. a.id.call = c
      BY <1>3 DEF IdOf
    <2>2. PICK where \in Answered :
            /\ phase' = [phase EXCEPT ![c] = where]
            /\ where = IF a.ok THEN "ok" ELSE "rejected"
      BY <1>1, <1>3 DEF End, Goto, Answered
    <2>3. /\ phase'[c] = where
          /\ \A d \in Calls : d # c => phase'[d] = phase[d]
      BY <2>2 DEF IInv, Typed
    <2>4. executed[c] = IF a.ok THEN 1 ELSE 0
      BY <2>1 DEF IInv, WireTells
    <2>5. ~OnWire(c)'
      BY <1>1, <1>2, <2>1 DEF IInv, OnWireOnce, OnWire
    <2>6. Typed'
      BY <1>1, <1>2, <2>2 DEF IInv, Typed
    <2>7. QuietEnds'
      BY <1>1, <1>2, <2>3, <2>5 DEF IInv, QuietEnds, OnWire
    <2>8. KnownOutcome'
      BY <1>2, <2>2, <2>3, <2>4 DEF IInv, KnownOutcome, Unpublished
    <2>9. (WireTells /\ OnWireOnce)'
      BY <1>1, <1>2 DEF IInv, WireTells, OnWireOnce
    <2> QED BY <2>6, <2>7, <2>8, <2>9 DEF IInv
  <1>4. CASE a.id # IdOf(c)
    BY <1>1, <1>2, <1>4
       DEF IInv, Typed, QuietEnds, KnownOutcome, WireTells, OnWireOnce, OnWire
  <1> QED BY <1>3, <1>4

LEMMA PrinterKeeps ==
  ASSUME IInv, Printer
  PROVE  IInv'
  <1>1. PICK r \in requests :
          /\ requests' = requests \ {r}
          /\ \/ /\ executed' = [executed EXCEPT ![r.id.call] = @ + 1]
                /\ \/ acks' = acks \cup {[id |-> r.id, at |-> r.at, ok |-> TRUE]}
                   \/ UNCHANGED acks
             \/ /\ acks' = acks \cup {[id |-> r.id, at |-> r.at, ok |-> FALSE]}
                /\ UNCHANGED executed
             \/ UNCHANGED <<acks, executed>>
          /\ UNCHANGED phase
    BY DEF Printer
  <1> DEFINE c == r.id.call
  <1>2. /\ c \in Calls /\ executed[c] = 0 /\ phase[c] \in Published
        /\ \A s \in requests' : s.id.call # c
        /\ \A a \in acks : a.id.call # c
    BY <1>1 DEF IInv, Typed, WireTells, OnWireOnce, QuietEnds, OnWire
  <1>3. PICK ok \in BOOLEAN, answered \in BOOLEAN :
          /\ executed' = [executed EXCEPT ![c] = IF ok THEN 1 ELSE 0]
          /\ acks' = IF answered THEN acks \cup {[id |-> r.id, at |-> r.at, ok |-> ok]} ELSE acks
    <2>1. CASE executed' = [executed EXCEPT ![c] = @ + 1]
      <3>1. executed' = [executed EXCEPT ![c] = IF TRUE THEN 1 ELSE 0]
        BY <1>2, <2>1 DEF IInv, Typed
      <3> QED BY <1>1, <1>2, <2>1, <3>1 DEF IInv, Typed
    <2>2. CASE UNCHANGED executed
      <3>1. executed' = [executed EXCEPT ![c] = IF FALSE THEN 1 ELSE 0]
        BY <1>2, <2>2 DEF IInv, Typed
      <3>2. executed[c] # executed[c] + 1
        BY <1>2
      <3> QED BY <1>1, <1>2, <2>2, <3>1, <3>2 DEF IInv, Typed
    <2> QED BY <1>1, <2>1, <2>2
  <1>4. /\ executed'[c] = IF ok THEN 1 ELSE 0
        /\ \A d \in Calls : d # c => executed'[d] = executed[d]
    BY <1>2, <1>3 DEF IInv, Typed
  <1>5. \A a \in acks' : a \in acks \/ (a.id.call = c /\ a.ok = ok)
    BY <1>3
  <1>6. Typed'
    BY <1>1, <1>2, <1>3, <1>5 DEF IInv, Typed
  <1>7. QuietEnds'
    BY <1>1, <1>2, <1>5 DEF IInv, QuietEnds, OnWire, Unpublished, Answered, Published
  <1>8. KnownOutcome'
    BY <1>1, <1>2, <1>4 DEF IInv, KnownOutcome, Unpublished, Published
  <1>9. WireTells'
    BY <1>1, <1>2, <1>4, <1>5 DEF IInv, Typed, WireTells
  <1>10. OnWireOnce'
    BY <1>1, <1>2, <1>3 DEF IInv, OnWireOnce
  <1> QED BY <1>6, <1>7, <1>8, <1>9, <1>10 DEF IInv

LEMMA LoseAckKeeps ==
  ASSUME IInv, LoseAck
  PROVE  IInv'
  BY DEF LoseAck, IInv, Typed, QuietEnds, KnownOutcome, WireTells, OnWireOnce, OnWire

LEMMA NextPreserves ==
  ASSUME IInv, [Next]_vars
  PROVE  IInv'
  <1>1. ASSUME NEW c \in Calls, Begin(c) \/ Proceed(c) \/ Cancel(c)
        PROVE  IInv'
    BY <1>1, StepsAlone, PublishKeeps, AckKeeps DEF Proceed
  <1>2. CASE Reconfigure \/ LearnSerial \/ Tick
    BY <1>2, NothingMoves DEF Reconfigure, LearnSerial, Tick, wire
  <1>3. CASE UNCHANGED vars
    BY <1>3, NothingMoves DEF vars
  <1> QED BY <1>1, <1>2, <1>3, PrinterKeeps, LoseAckKeeps DEF Next

-----------------------------------------------------------------------------
(***************************************************************************)
(* The refinement.                                                         *)
(***************************************************************************)

LEMMA StateOfIs ==
  ASSUME NEW c \in Calls
  PROVE  /\ phase[c] \in {"none", "ok", "unknown"} => StateOf[c] = phase[c]
         /\ phase[c] = "cancelled" => StateOf[c] = "unknown"
         /\ phase[c] \in {"failed", "rejected", "debounced"} => StateOf[c] = "failed"
         /\ phase[c] \in {"lock", "backoff"} \cup InSession => StateOf[c] = "open"
  BY DEF StateOf, InSession

\* The caller of one call moves on; the abstract one does so or learns the outcome.
LEMMA CallerMaps ==
  ASSUME IInv, NEW c \in Calls, NEW where,
         phase' = [phase EXCEPT ![c] = where],
         UNCHANGED executed,
         \/ phase[c] = "none" /\ where \in {"lock", "debounced"}
         \/ /\ phase[c] \in {"lock", "backoff"} \cup InSession
            /\ \/ where \in {"lock", "backoff", "unknown", "cancelled"} \cup InSession
               \/ where = "failed" /\ phase[c] \in Unpublished
               \/ where = "rejected" /\ executed[c] = 0
               \/ where = "ok" /\ executed[c] = 1
  PROVE  [Promise!Next]_Promise!vars
  <1> DEFINE abstract ==
        IF where \in {"ok", "unknown"} THEN where
        ELSE IF where = "cancelled" THEN "unknown"
        ELSE IF where \in {"failed", "rejected", "debounced"} THEN "failed"
        ELSE "open"
  <1>1. StateOf' = [StateOf EXCEPT ![c] = abstract]
    BY DEF StateOf, IInv, Typed, InSession
  <1>2. phase[c] \in Unpublished => executed[c] = 0
    BY DEF IInv, KnownOutcome
  <1>3. CASE where = "lock" /\ phase[c] = "none"
    <2>1. Promise!Begin(c)
      BY <1>1, <1>3, StateOfIs DEF Promise!Begin
    <2> QED BY <2>1 DEF Promise!Next
  <1>4. CASE where = "debounced"
    <2>1. Promise!Finish(c, "failed")
      BY <1>1, <1>2, <1>4, StateOfIs DEF Promise!Finish, InSession, Unpublished
    <2> QED BY <2>1 DEF Promise!Next
  <1>5. CASE where \in {"ok", "unknown", "cancelled", "failed", "rejected"}
    <2>1. Promise!Finish(c, abstract)
      BY <1>1, <1>2, <1>5, StateOfIs DEF Promise!Finish, InSession
    <2>2. abstract \in {"ok", "failed", "unknown"}
      BY <1>5
    <2> QED BY <2>1, <2>2 DEF Promise!Next
  <1>6. CASE where \in {"lock", "backoff"} \cup InSession /\ phase[c] # "none"
    <2>1. StateOf[c] = abstract
      BY <1>6, StateOfIs DEF InSession
    <2>2. UNCHANGED StateOf
      BY <1>1, <2>1 DEF StateOf
    <2> QED BY <2>2 DEF Promise!vars
  <1> QED BY <1>3, <1>4, <1>5, <1>6 DEF InSession

LEMMA FailMaps ==
  ASSUME IInv, NEW c \in Calls, FailAttempt(c) \/ End(c, "failed"), UNCHANGED executed,
         phase[c] \in {"lock", "connect", "register"}
  PROVE  [Promise!Next]_Promise!vars
  <1>1. PICK where \in {"backoff", "failed"} : phase' = [phase EXCEPT ![c] = where]
    BY DEF FailAttempt, End, Goto
  <1> QED BY <1>1, CallerMaps DEF InSession, Unpublished

LEMMA StepMaps ==
  ASSUME IInv, NEW c \in Calls,
         \/ Begin(c) \/ Retry(c) \/ StartSession(c) \/ Connect(c) \/ RegisterFails(c)
         \/ NoAck(c) \/ Cancel(c) \/ Publish(c)
  PROVE  [Promise!Next]_Promise!vars
  <1>1. CASE Begin(c)
    <2>1. PICK where \in {"debounced", "lock"} : phase' = [phase EXCEPT ![c] = where]
      BY <1>1 DEF Begin, Goto
    <2> QED BY <1>1, <2>1, CallerMaps DEF Begin, wire
  <1>2. CASE Retry(c)
    BY <1>2, CallerMaps DEF Retry, Goto, wire
  <1>3. CASE StartSession(c)
    <2>1. CASE FailAttempt(c)
      BY <1>3, <2>1, FailMaps DEF StartSession, wire
    <2>2. CASE Goto(c, "connect")
      BY <1>3, <2>2, CallerMaps DEF StartSession, Goto, wire, InSession
    <2> QED BY <1>3, <2>1, <2>2 DEF StartSession
  <1>4. CASE Connect(c)
    <2>1. CASE FailAttempt(c) \/ End(c, "failed")
      BY <1>4, <2>1, FailMaps DEF Connect, wire
    <2>2. CASE Goto(c, "register")
      BY <1>4, <2>2, CallerMaps DEF Connect, Goto, wire, InSession
    <2> QED BY <1>4, <2>1, <2>2 DEF Connect
  <1>5. CASE RegisterFails(c)
    BY <1>5, FailMaps DEF RegisterFails, wire
  <1>6. CASE NoAck(c)
    BY <1>6, CallerMaps DEF NoAck, End, Goto, wire, InSession
  <1>7. CASE Cancel(c)
    BY <1>7, CallerMaps DEF Cancel, End, Goto, wire
  <1>8. CASE Publish(c)
    BY <1>8, CallerMaps DEF Publish, Goto, InSession
  <1> QED BY <1>1, <1>2, <1>3, <1>4, <1>5, <1>6, <1>7, <1>8

LEMMA AckMaps ==
  ASSUME IInv, NEW c \in Calls, Ack(c)
  PROVE  [Promise!Next]_Promise!vars
  <1>1. PICK a \in acks :
          IF a.id = IdOf(c)
          THEN End(c, IF a.ok THEN "ok" ELSE "rejected")
          ELSE UNCHANGED phase
    BY DEF Ack
  <1>2. UNCHANGED executed /\ phase[c] = "ack"
    BY DEF Ack
  <1>3. CASE a.id = IdOf(c)
    <2>1. executed[c] = IF a.ok THEN 1 ELSE 0
      BY <1>3 DEF IdOf, IInv, WireTells
    <2>2. phase' = [phase EXCEPT ![c] = IF a.ok THEN "ok" ELSE "rejected"]
      BY <1>1, <1>3 DEF End, Goto
    <2> QED BY <1>2, <2>1, <2>2, CallerMaps DEF InSession
  <1>4. CASE UNCHANGED phase
    BY <1>2, <1>4 DEF Promise!vars, StateOf
  <1> QED BY <1>1, <1>3, <1>4

LEMMA PrinterMaps ==
  ASSUME IInv, Printer
  PROVE  [Promise!Next]_Promise!vars
  <1>1. PICK r \in requests :
          \/ executed' = [executed EXCEPT ![r.id.call] = @ + 1]
          \/ UNCHANGED executed
    BY DEF Printer
  <1>2. UNCHANGED StateOf
    BY DEF Printer, StateOf
  <1>3. CASE executed' = [executed EXCEPT ![r.id.call] = @ + 1]
    <2> DEFINE c == r.id.call
    <2>1. c \in Calls /\ executed[c] = 0 /\ phase[c] \in Published
      BY DEF IInv, Typed, WireTells, QuietEnds, OnWire
    <2>2. StateOf[c] \in {"open", "unknown"}
      BY <2>1, StateOfIs DEF Published, InSession
    <2>3. Promise!Execute(c)
      BY <1>2, <1>3, <2>1, <2>2 DEF Promise!Execute, IInv, Typed
    <2> QED BY <2>1, <2>3 DEF Promise!Next
  <1>4. CASE UNCHANGED executed
    BY <1>2, <1>4 DEF Promise!vars
  <1> QED BY <1>1, <1>3, <1>4

LEMMA NextMaps ==
  ASSUME IInv, [Next]_vars
  PROVE  [Promise!Next]_Promise!vars
  <1>1. ASSUME NEW c \in Calls, Begin(c) \/ Proceed(c) \/ Cancel(c)
        PROVE  [Promise!Next]_Promise!vars
    BY <1>1, StepMaps, AckMaps DEF Proceed
  <1>2. CASE LoseAck \/ Reconfigure \/ LearnSerial \/ Tick \/ UNCHANGED vars
    BY <1>2 DEF LoseAck, Reconfigure, LearnSerial, Tick, wire, vars, Promise!vars, StateOf
  <1> QED BY <1>1, <1>2, PrinterMaps DEF Next

\* Retries, late answers, cancellations and a changed printer notwithstanding,
\* PrinterClient keeps the promise of Command: at most one execution per call, "ok"
\* only after it, and a failure that may be retried only without it.
THEOREM CommandsKeepPromise == Spec => KeepsPromise
  <1>1. Init => Promise!Init
    BY DEF Init, Promise!Init, StateOf
  <1> QED BY <1>1, InitEstablishes, NextPreserves, NextMaps, PTL
          DEF Spec, KeepsPromise, Promise!Spec

-----------------------------------------------------------------------------
(***************************************************************************)
(* The control lock: who is in its queue, and in which order.              *)
(***************************************************************************)

\* One element less.
LEMMA RemovedAt ==
  ASSUME NEW S, NEW s \in Seq(S), NEW i \in DOMAIN s
  PROVE  LET t == SubSeq(s, 1, i - 1) \o SubSeq(s, i + 1, Len(s)) IN
         /\ t \in Seq(S) /\ DOMAIN t = 1..(Len(s) - 1)
         /\ \A k \in DOMAIN t : t[k] = IF k < i THEN s[k] ELSE s[k + 1]
  <1> DEFINE a == SubSeq(s, 1, i - 1)
             b == SubSeq(s, i + 1, Len(s))
  <1>1. i \in 1..Len(s) /\ Len(s) \in Nat
    OBVIOUS
  <1>2. /\ a \in Seq(S) /\ Len(a) = i - 1
        /\ \A k \in 1..(i - 1) : a[k] = s[k]
    BY <1>1, SMT
  <1>3. /\ b \in Seq(S) /\ Len(b) = Len(s) - i
        /\ \A k \in 1..(Len(s) - i) : b[k] = s[i + k]
    BY <1>1, SMT
  <1> HIDE DEF a, b
  <1>4. /\ a \o b \in Seq(S) /\ Len(a \o b) = Len(s) - 1
        /\ \A k \in 1..(Len(s) - 1) : (a \o b)[k] = IF k < i THEN s[k] ELSE s[k + 1]
    BY <1>1, <1>2, <1>3, SMT
  <1>5. DOMAIN (a \o b) = 1..(Len(s) - 1)
    BY <1>1, <1>4, SMT
  <1>6. QED
    BY <1>4, <1>5, Zenon DEF a, b

Distinct(s) == \A i, j \in DOMAIN s : s[i] = s[j] => i = j

AtLock == {"lock"} \cup InSession

\* Who is at the lock is in its queue, once; the one with a session is its head.
LockInv ==
  /\ queue \in Seq(Calls)
  /\ Distinct(queue)
  /\ \A c \in Calls : phase[c] \in InSession => queue # <<>> /\ Head(queue) = c
  /\ \A c \in Calls : Queued(c) <=> phase[c] \in AtLock
  /\ DOMAIN phase = Calls

LEMMA LeavesQueue ==
  ASSUME NEW c \in Calls, queue \in Seq(Calls), Distinct(queue), queue' = Without(c)
  PROVE  /\ queue' \in Seq(Calls) /\ Distinct(queue')
         /\ \A d \in Calls : Queued(d)' <=> Queued(d) /\ d # c
         /\ queue # <<>> /\ Head(queue) # c => queue' # <<>> /\ Head(queue') = Head(queue)
  <1>1. CASE ~Queued(c)
    <2>1. queue' = queue
      BY <1>1, Zenon DEF Without
    <2>2. QED
      BY <1>1, <2>1, Zenon DEF Queued
  <1>2. CASE Queued(c)
    <2> DEFINE at == CHOOSE i \in DOMAIN queue : queue[i] = c
    <2>1. at \in DOMAIN queue /\ queue[at] = c
      BY <1>2, Zenon DEF Queued
    <2>2. queue' = SubSeq(queue, 1, at - 1) \o SubSeq(queue, at + 1, Len(queue))
      BY <1>2, Zenon DEF Without
    <2> HIDE DEF at
    <2>3. /\ queue' \in Seq(Calls) /\ DOMAIN queue' = 1..(Len(queue) - 1)
          /\ \A k \in DOMAIN queue' : queue'[k] = IF k < at THEN queue[k] ELSE queue[k + 1]
      BY <2>1, <2>2, RemovedAt, Zenon
    <2>4. DOMAIN queue = 1..Len(queue) /\ Len(queue) \in Nat
      OBVIOUS
    <2>5. Distinct(queue')
      <3> SUFFICES ASSUME NEW i \in DOMAIN queue', NEW j \in DOMAIN queue', queue'[i] = queue'[j]
                   PROVE  i = j
        BY DEF Distinct
      <3>1. PICK k \in DOMAIN queue : k = (IF i < at THEN i ELSE i + 1) /\ queue'[i] = queue[k]
        BY <2>3, <2>4, SMT
      <3>2. PICK l \in DOMAIN queue : l = (IF j < at THEN j ELSE j + 1) /\ queue'[j] = queue[l]
        BY <2>3, <2>4, SMT
      <3>3. k = l
        BY <3>1, <3>2, Zenon DEF Distinct
      <3>4. QED
        BY <2>1, <2>3, <2>4, <3>1, <3>2, <3>3, SMT
    <2>6. ASSUME NEW d \in Calls PROVE Queued(d)' <=> Queued(d) /\ d # c
      <3>1. ASSUME Queued(d)' PROVE Queued(d) /\ d # c
        <4>1. PICK i \in DOMAIN queue' : queue'[i] = d
          BY <3>1, Zenon DEF Queued
        <4>2. PICK k \in DOMAIN queue : k = (IF i < at THEN i ELSE i + 1) /\ queue[k] = d
          BY <2>3, <2>4, <4>1, SMT
        <4>3. k # at
          BY <2>1, <2>3, <2>4, <4>2, SMT
        <4>4. QED
          BY <2>1, <4>2, <4>3, Zenon DEF Queued, Distinct
      <3>2. ASSUME Queued(d), d # c PROVE Queued(d)'
        <4>1. PICK k \in DOMAIN queue : queue[k] = d
          BY <3>2, Zenon DEF Queued
        <4>2. k # at
          BY <2>1, <3>2, <4>1, Zenon
        <4>3. PICK i \in DOMAIN queue' : i = (IF k < at THEN k ELSE k - 1)
          BY <2>1, <2>3, <2>4, <4>2, SMT
        <4>4. queue'[i] = d
          BY <2>1, <2>3, <2>4, <4>1, <4>2, <4>3, SMT
        <4>5. QED
          BY <4>4, Zenon DEF Queued
      <3>3. QED
        BY <3>1, <3>2, Zenon
    <2>7. queue # <<>> /\ Head(queue) # c => queue' # <<>> /\ Head(queue') = Head(queue)
      <3> SUFFICES ASSUME queue # <<>>, Head(queue) # c
                   PROVE  queue' # <<>> /\ Head(queue') = Head(queue)
        OBVIOUS
      <3>1. at > 1
        BY <2>1, <2>4, SMT
      <3>2. 1 \in DOMAIN queue' /\ queue'[1] = queue[1]
        BY <2>1, <2>3, <2>4, <3>1, SMT
      <3>3. QED
        BY <2>3, <2>4, <3>2, SMT
    <2>8. QED
      BY <2>3, <2>5, <2>6, <2>7, Zenon
  <1>3. QED
    BY <1>1, <1>2

LEMMA JoinsQueue ==
  ASSUME NEW c \in Calls, queue \in Seq(Calls), Distinct(queue), ~Queued(c),
         queue' = Append(queue, c)
  PROVE  /\ queue' \in Seq(Calls) /\ Distinct(queue')
         /\ \A d \in Calls : Queued(d)' <=> Queued(d) \/ d = c
         /\ queue # <<>> => queue' # <<>> /\ Head(queue') = Head(queue)
  <1>1. /\ queue' \in Seq(Calls) /\ Len(queue) \in Nat
        /\ DOMAIN queue = 1..Len(queue) /\ DOMAIN queue' = 1..(Len(queue) + 1)
        /\ \A i \in DOMAIN queue : queue'[i] = queue[i]
        /\ queue'[Len(queue) + 1] = c
    BY SMT
  <1>2. Distinct(queue')
    BY <1>1, SMT DEF Distinct, Queued
  <1>3. \A d \in Calls : Queued(d)' <=> Queued(d) \/ d = c
    BY <1>1, SMT DEF Queued
  <1>4. queue # <<>> => queue' # <<>> /\ Head(queue') = Head(queue)
    BY <1>1, SMT
  <1>5. QED
    BY <1>1, <1>2, <1>3, <1>4, Zenon

LEMMA LockInit == Init => LockInv
  BY SMT DEF Init, LockInv, Distinct, Queued, AtLock, InSession

LEMMA LockSame == LockInv /\ UNCHANGED <<phase, queue>> => LockInv'
  BY Zenon DEF LockInv, Queued

\* A caller gives up, fails or is done.
LEMMA LeavesLock ==
  ASSUME LockInv, NEW c \in Calls, NEW where, where \notin AtLock,
         Goto(c, where), queue' = Without(c)
  PROVE  LockInv'
  <1>1. /\ queue' \in Seq(Calls) /\ Distinct(queue')
        /\ \A d \in Calls : Queued(d)' <=> Queued(d) /\ d # c
        /\ queue # <<>> /\ Head(queue) # c => queue' # <<>> /\ Head(queue') = Head(queue)
    BY LeavesQueue, Zenon DEF LockInv
  <1>2. DOMAIN phase' = Calls /\ \A d \in Calls : phase'[d] = IF d = c THEN where ELSE phase[d]
    BY SMT DEF LockInv, Goto
  <1>3. ASSUME NEW d \in Calls, phase'[d] \in InSession
        PROVE  queue' # <<>> /\ Head(queue') = d
    <2>1. d # c /\ phase[d] \in InSession
      BY <1>2, <1>3, SMT DEF AtLock
    <2>2. queue # <<>> /\ Head(queue) = d
      BY <2>1, Zenon DEF LockInv
    <2>3. QED
      BY <1>1, <2>1, <2>2
  <1>4. \A d \in Calls : Queued(d)' <=> phase'[d] \in AtLock
    BY <1>1, <1>2, Zenon DEF LockInv
  <1>5. QED
    BY <1>1, <1>2, <1>3, <1>4, Zenon DEF LockInv

LEMMA ComesToLock ==
  ASSUME LockInv, NEW c \in Calls, phase[c] \notin AtLock, Goto(c, "lock"),
         queue' = Append(queue, c)
  PROVE  LockInv'
  <1>1. ~Queued(c)
    BY Zenon DEF LockInv
  <1>2. /\ queue' \in Seq(Calls) /\ Distinct(queue')
        /\ \A d \in Calls : Queued(d)' <=> Queued(d) \/ d = c
        /\ queue # <<>> => queue' # <<>> /\ Head(queue') = Head(queue)
    BY <1>1, JoinsQueue, Zenon DEF LockInv
  <1>3. DOMAIN phase' = Calls /\ \A d \in Calls : phase'[d] = IF d = c THEN "lock" ELSE phase[d]
    BY SMT DEF LockInv, Goto
  <1>4. "lock" \in AtLock /\ "lock" \notin InSession
    BY DEF AtLock, InSession
  <1>5. ASSUME NEW d \in Calls, phase'[d] \in InSession
        PROVE  queue' # <<>> /\ Head(queue') = d
    <2>1. phase[d] \in InSession
      BY <1>3, <1>4, <1>5, Zenon
    <2>2. QED
      BY <1>2, <2>1, Zenon DEF LockInv
  <1>6. \A d \in Calls : Queued(d)' <=> phase'[d] \in AtLock
    BY <1>2, <1>3, <1>4, Zenon DEF LockInv
  <1>7. QED
    BY <1>2, <1>3, <1>5, <1>6, Zenon DEF LockInv

\* The session of the lock's holder goes on.
LEMMA SessionGoesOn ==
  ASSUME LockInv, NEW c \in Calls, phase[c] \in AtLock, Head(queue) = c,
         NEW where \in InSession, Goto(c, where), queue' = queue
  PROVE  LockInv'
  <1>1. DOMAIN phase' = Calls /\ \A d \in Calls : phase'[d] = IF d = c THEN where ELSE phase[d]
    BY SMT DEF LockInv, Goto
  <1>2. queue # <<>>
    BY SMT DEF LockInv, Queued
  <1>3. where \in AtLock
    BY DEF AtLock
  <1>4. \A d \in Calls : phase'[d] \in InSession => Head(queue) = d
    BY <1>1, Zenon DEF LockInv
  <1>5. \A d \in Calls : Queued(d)' <=> phase'[d] \in AtLock
    BY <1>1, <1>3, Zenon DEF LockInv, Queued
  <1>6. QED
    BY <1>1, <1>2, <1>4, <1>5, Zenon DEF LockInv

LEMMA EndLeaves ==
  ASSUME LockInv, NEW c \in Calls, NEW outcome \in Outcomes,
         End(c, outcome) \/ FailAttempt(c)
  PROVE  LockInv'
  <1>1. PICK where \in Outcomes \cup {"backoff"} : Goto(c, where) /\ queue' = Without(c)
    <2>1. CASE End(c, outcome)
      BY <2>1, Zenon DEF End
    <2>2. CASE FailAttempt(c)
      <3>1. "failed" \in Outcomes
        BY DEF Outcomes
      <3>2. QED
        BY <2>2, <3>1, Zenon DEF FailAttempt, End
    <2>3. QED
      BY <2>1, <2>2
  <1>2. where \notin AtLock
    BY SMT DEF Outcomes, AtLock, InSession
  <1>3. QED
    BY <1>1, <1>2, LeavesLock

LEMMA LockStep ==
  ASSUME LockInv, [Next]_vars
  PROVE  LockInv'
  <1>1. "failed" \in Outcomes /\ "unknown" \in Outcomes /\ "cancelled" \in Outcomes
        /\ "ok" \in Outcomes /\ "rejected" \in Outcomes
    BY DEF Outcomes
  <1>2. "connect" \in InSession /\ "register" \in InSession /\ "ack" \in InSession
    BY DEF InSession
  <1>3. ASSUME NEW c \in Calls, Begin(c) PROVE LockInv'
    <2>1. phase[c] \notin AtLock
      BY <1>3, SMT DEF Begin, AtLock, InSession
    <2>2. CASE Goto(c, "lock") /\ queue' = Append(queue, c)
      BY <2>1, <2>2, ComesToLock
    <2>3. CASE Goto(c, "debounced") /\ queue' = queue
      <3>1. /\ DOMAIN phase' = Calls
            /\ \A d \in Calls : phase'[d] = IF d = c THEN "debounced" ELSE phase[d]
        BY <2>3, SMT DEF LockInv, Goto
      <3>2. "debounced" \notin AtLock
        BY DEF AtLock, InSession
      <3>3. \A d \in Calls : phase'[d] \in AtLock <=> phase[d] \in AtLock
        BY <2>1, <3>1, <3>2, Zenon
      <3>4. \A d \in Calls : phase'[d] \in InSession => phase[d] \in InSession
        BY <3>1, <3>2, SMT DEF AtLock
      <3>5. QED
        BY <2>3, <3>1, <3>3, <3>4, Zenon DEF LockInv, Queued
    <2>4. QED
      BY <1>3, <2>2, <2>3, Zenon DEF Begin
  <1>4. ASSUME NEW c \in Calls, Proceed(c) \/ Cancel(c) PROVE LockInv'
    <2>1. CASE Retry(c)
      <3>1. phase[c] \notin AtLock
        BY <2>1, SMT DEF Retry, AtLock, InSession
      <3>2. QED
        BY <2>1, <3>1, ComesToLock, Zenon DEF Retry
    <2>2. CASE StartSession(c)
      <3>1. CASE FailAttempt(c)
        BY <1>1, <3>1, EndLeaves, Zenon
      <3>2. CASE Goto(c, "connect") /\ queue' = queue
        <4>1. phase[c] \in AtLock /\ Head(queue) = c
          BY <2>2, SMT DEF StartSession, AtLock
        <4>2. QED
          BY <1>2, <3>2, <4>1, SessionGoesOn, Zenon
      <3>3. QED
        BY <2>2, <3>1, <3>2, Zenon DEF StartSession
    <2>3. CASE Connect(c)
      <3>1. CASE FailAttempt(c) \/ End(c, "failed")
        BY <1>1, <3>1, EndLeaves, Zenon
      <3>2. CASE Goto(c, "register") /\ queue' = queue
        <4>1. phase[c] \in InSession
          BY <2>3, SMT DEF Connect, InSession
        <4>2. Head(queue) = c /\ phase[c] \in AtLock
          BY <4>1, Zenon DEF LockInv, AtLock
        <4>3. QED
          BY <1>2, <3>2, <4>2, SessionGoesOn, Zenon
      <3>3. QED
        BY <2>3, <3>1, <3>2, Zenon DEF Connect
    <2>4. CASE Publish(c)
      <3>1. phase[c] \in InSession
        BY <2>4, SMT DEF Publish, InSession
      <3>2. Head(queue) = c /\ phase[c] \in AtLock
        BY <3>1, Zenon DEF LockInv, AtLock
      <3>3. QED
        BY <1>2, <2>4, <3>2, SessionGoesOn, Zenon DEF Publish
    <2>5. CASE RegisterFails(c)
      BY <1>1, <2>5, EndLeaves, Zenon DEF RegisterFails
    <2>6. CASE NoAck(c)
      BY <1>1, <2>6, EndLeaves, Zenon DEF NoAck
    <2>7. CASE Cancel(c)
      BY <1>1, <2>7, EndLeaves, Zenon DEF Cancel
    <2>8. CASE Ack(c)
      <3>1. CASE \E outcome \in Outcomes : End(c, outcome)
        BY <3>1, EndLeaves, Zenon
      <3>2. CASE UNCHANGED <<phase, attempt, queue, anchor, sessionVars>>
        <4>1. UNCHANGED <<phase, queue>>
          BY <3>2
        <4>2. QED
          BY <4>1, LockSame
      <3>3. QED
        BY <1>1, <2>8, <3>1, <3>2, Zenon DEF Ack
    <2>9. QED
      BY <1>4, <2>1, <2>2, <2>3, <2>4, <2>5, <2>6, <2>7, <2>8, Zenon DEF Proceed
  <1>5. CASE Printer \/ LoseAck \/ Reconfigure \/ LearnSerial \/ Tick \/ UNCHANGED vars
    <2>1. UNCHANGED <<phase, queue>>
      BY <1>5, SMT DEF Printer, LoseAck, Reconfigure, LearnSerial, Tick, vars
    <2>2. QED
      BY <2>1, LockSame
  <1>6. QED
    BY <1>3, <1>4, <1>5, Zenon DEF Next

-----------------------------------------------------------------------------
(***************************************************************************)
(* The values of the other variables.                                      *)
(***************************************************************************)

Phases == {"none", "lock", "backoff"} \cup InSession \cup Outcomes

\* A call backs off only with an attempt left.
CallsTyped ==
  /\ phase \in [Calls -> Phases]
  /\ attempt \in [Calls -> 1..ATTEMPTS]
  /\ \A c \in Calls : phase[c] = "backoff" => attempt[c] < ATTEMPTS

HostsTyped ==
  /\ method \in [Calls -> {"pause", "resume", "stop"}]
  /\ session \in [Calls -> Printers \cup {NoSerial}]
  /\ host \in Printers /\ serial \in Printers \cup {NoSerial}
  /\ aim \in [Calls -> Printers]

Requests == [id : CmdIds, at : Printers]
Answers == [id : CmdIds, at : Printers, ok : BOOLEAN]

WireTyped ==
  /\ requests \subseteq Requests
  /\ acks \subseteq Answers
  /\ executed \in [Calls -> Nat]

ValueInv == CallsTyped /\ HostsTyped /\ WireTyped /\ anchor \in 0..DEBOUNCE

LEMMA ValueInit == Init => ValueInv
  <1> SUFFICES ASSUME Init PROVE ValueInv
    OBVIOUS
  <1>1. CallsTyped
    BY CommandAssumption, SMT DEF Init, CallsTyped, Phases
  <1>2. HostsTyped
    <2>1. method \in [Calls -> {"pause", "resume", "stop"}]
      <3>1. method \in [Calls -> Methods] /\ Methods \subseteq {"pause", "resume", "stop"}
        BY CommandAssumption, Zenon DEF Init
      <3>2. \A c \in Calls : method[c] \in {"pause", "resume", "stop"}
        BY <3>1, Zenon
      <3>3. QED
        BY <3>1, <3>2, Zenon
    <2>2. host \in Printers /\ serial \in Printers \cup {NoSerial}
      BY SMT DEF Init
    <2>3. session = [c \in Calls |-> host] /\ aim = session
      BY Zenon DEF Init
    <2>4. QED
      BY <2>1, <2>2, <2>3, SMT DEF HostsTyped
  <1>3. WireTyped
    BY SMT DEF Init, WireTyped
  <1>4. anchor \in 0..DEBOUNCE
    BY CommandAssumption, SMT DEF Init
  <1>5. QED
    BY <1>1, <1>2, <1>3, <1>4 DEF ValueInv

LEMMA CallMoves ==
  ASSUME CallsTyped, NEW c \in Calls, NEW where \in Phases, Goto(c, where),
         UNCHANGED attempt, where = "backoff" => attempt[c] < ATTEMPTS
  PROVE  CallsTyped'
  BY SMT DEF CallsTyped, Goto

LEMMA AnchorTyped ==
  ASSUME anchor \in 0..DEBOUNCE, NEW what, NEW outcome
  PROVE  AnchorAfter(what, outcome) \in 0..DEBOUNCE
  BY CommandAssumption, SMT DEF AnchorAfter

LEMMA PhaseNames ==
  /\ Outcomes \subseteq Phases
  /\ {"failed", "unknown", "cancelled", "ok", "rejected", "debounced"} \subseteq Outcomes
  /\ {"lock", "backoff", "connect", "register", "ack"} \subseteq Phases
  /\ "backoff" \notin Outcomes
  BY DEF Phases, Outcomes, InSession

LEMMA EndTyped ==
  ASSUME ValueInv, NEW c \in Calls, NEW outcome \in Outcomes,
         End(c, outcome) \/ FailAttempt(c)
  PROVE  CallsTyped' /\ HostsTyped' /\ anchor' \in 0..DEBOUNCE
  <1>1. ASSUME NEW o \in Outcomes, End(c, o)
        PROVE  CallsTyped' /\ HostsTyped' /\ anchor' \in 0..DEBOUNCE
    <2>1. Goto(c, o) /\ anchor' = AnchorAfter(method[c], o)
          /\ UNCHANGED <<attempt, sessionVars>>
      BY <1>1, Zenon DEF End
    <2>2. attempt' = attempt /\ UNCHANGED sessionVars
      BY <2>1
    <2>3. o \in Phases /\ o # "backoff"
      BY PhaseNames, Zenon
    <2>4. CallsTyped'
      BY <2>1, <2>2, <2>3, CallMoves, Zenon DEF ValueInv
    <2>5. HostsTyped'
      BY <2>2, SMT DEF ValueInv, HostsTyped, sessionVars
    <2>6. QED
      BY <2>1, <2>4, <2>5, AnchorTyped, Zenon DEF ValueInv
  <1>2. CASE attempt[c] < ATTEMPTS /\ Goto(c, "backoff") /\ UNCHANGED <<attempt, anchor, sessionVars>>
    <2>1. attempt' = attempt /\ anchor' = anchor /\ UNCHANGED sessionVars
      BY <1>2
    <2>2. CallsTyped'
      BY <1>2, <2>1, CallMoves, PhaseNames, SMT DEF ValueInv
    <2>3. HostsTyped'
      BY <2>1, SMT DEF ValueInv, HostsTyped, sessionVars
    <2>4. QED
      BY <2>1, <2>2, <2>3, Zenon DEF ValueInv
  <1>3. QED
    BY <1>1, <1>2, PhaseNames, Zenon DEF FailAttempt

LEMMA ValueStep ==
  ASSUME ValueInv, [Next]_vars
  PROVE  ValueInv'
  <1>1. ASSUME NEW c \in Calls, NEW outcome \in Outcomes,
               End(c, outcome) \/ FailAttempt(c), WireTyped'
        PROVE  ValueInv'
    BY <1>1, EndTyped DEF ValueInv
  <1>2. ASSUME NEW c \in Calls, Begin(c) PROVE ValueInv'
    <2>1. PICK where \in {"debounced", "lock"} : Goto(c, where)
      BY <1>2, Zenon DEF Begin
    <2>2. where \in Phases /\ where # "backoff"
      BY PhaseNames, SMT
    <2>3. attempt' = attempt
      BY <1>2, Zenon DEF Begin
    <2>4. CallsTyped'
      BY <2>1, <2>2, <2>3, CallMoves, Zenon DEF ValueInv
    <2>5. HostsTyped'
      BY <1>2, SMT DEF Begin, ValueInv, HostsTyped
    <2>6. WireTyped'
      BY <1>2, SMT DEF Begin, ValueInv, WireTyped, wire
    <2>7. anchor' \in 0..DEBOUNCE
      BY <1>2, CommandAssumption, SMT DEF Begin, ValueInv
    <2>8. QED
      BY <2>4, <2>5, <2>6, <2>7 DEF ValueInv
  <1>3. ASSUME NEW c \in Calls, Retry(c) PROVE ValueInv'
    <2>1. CallsTyped'
      <3>1. /\ phase' = [phase EXCEPT ![c] = "lock"]
            /\ attempt' = [attempt EXCEPT ![c] = @ + 1]
            /\ phase[c] = "backoff"
        BY <1>3, Zenon DEF Retry, Goto
      <3>2. attempt[c] + 1 \in 1..ATTEMPTS
        BY <3>1, CommandAssumption, SMT DEF ValueInv, CallsTyped
      <3>3. "lock" \in Phases
        BY PhaseNames, SMT
      <3>4. QED
        BY <3>1, <3>2, <3>3, SMT DEF ValueInv, CallsTyped
    <2>2. HostsTyped' /\ anchor' \in 0..DEBOUNCE
      BY <1>3, SMT DEF Retry, ValueInv, HostsTyped, sessionVars
    <2>3. WireTyped'
      BY <1>3, SMT DEF Retry, ValueInv, WireTyped, wire
    <2>4. QED
      BY <2>1, <2>2, <2>3 DEF ValueInv
  <1>4. ASSUME NEW c \in Calls, NEW where \in {"connect", "register"},
               NEW at \in Printers \cup {NoSerial}, Goto(c, where),
               session' = [session EXCEPT ![c] = at],
               UNCHANGED <<method, attempt, queue, anchor, aim, host, serial>>, UNCHANGED wire
        PROVE  ValueInv'
    <2>1. where \in Phases /\ where # "backoff"
      BY PhaseNames, SMT
    <2>2. attempt' = attempt /\ anchor' = anchor
      BY <1>4
    <2>3. CallsTyped'
      BY <1>4, <2>1, <2>2, CallMoves, Zenon DEF ValueInv
    <2>4. HostsTyped'
      BY <1>4, SMT DEF ValueInv, HostsTyped
    <2>5. WireTyped'
      BY <1>4, SMT DEF ValueInv, WireTyped, wire
    <2>6. QED
      BY <2>2, <2>3, <2>4, <2>5, Zenon DEF ValueInv
  <1>5. UNCHANGED wire => WireTyped'
    BY SMT DEF ValueInv, WireTyped, wire
  <1>6. ASSUME NEW c \in Calls, Proceed(c) \/ Cancel(c) PROVE ValueInv'
    <2>1. CASE Retry(c)
      BY <1>3, <2>1
    <2>2. CASE StartSession(c)
      <3>1. CASE FailAttempt(c)
        BY <1>1, <1>5, <2>2, <3>1, PhaseNames, Zenon DEF StartSession
      <3>2. CASE ~FailAttempt(c)
        <4>1. host \in Printers \cup {NoSerial}
          BY SMT DEF ValueInv, HostsTyped
        <4>2. QED
          BY <1>4, <2>2, <3>2, <4>1, Zenon DEF StartSession
      <3>3. QED
        BY <3>1, <3>2
    <2>3. CASE Connect(c)
      <3>1. CASE FailAttempt(c) \/ End(c, "failed")
        <4>1. "failed" \in Outcomes
          BY DEF Outcomes
        <4>2. QED
          BY <1>1, <1>5, <2>3, <3>1, <4>1, Zenon DEF Connect
      <3>2. CASE ~(FailAttempt(c) \/ End(c, "failed"))
        <4> DEFINE at == IF serial = session[c] THEN session[c] ELSE NoSerial
        <4>1. at \in Printers \cup {NoSerial}
          BY SMT DEF ValueInv, HostsTyped
        <4>2. session' = [session EXCEPT ![c] = at]
          BY <2>3, <3>2, Zenon DEF Connect
        <4>3. /\ Goto(c, "register") /\ UNCHANGED wire
              /\ UNCHANGED <<method, attempt, queue, anchor, aim, host, serial>>
          BY <2>3, <3>2, Zenon DEF Connect
        <4> HIDE DEF at
        <4>4. QED
          BY <1>4, <4>1, <4>2, <4>3, Zenon
      <3>3. QED
        BY <3>1, <3>2
    <2>4. CASE Publish(c)
      <3>1. /\ Goto(c, "ack") /\ session[c] # NoSerial
            /\ requests' = requests \cup {[id |-> IdOf(c), at |-> session[c]]}
            /\ UNCHANGED <<attempt, queue, anchor, sessionVars, acks, executed>>
        BY <2>4, Zenon DEF Publish
      <3>2. attempt' = attempt /\ anchor' = anchor /\ UNCHANGED sessionVars
        BY <3>1
      <3>3. "ack" \in Phases
        BY PhaseNames, SMT
      <3>4. CallsTyped'
        BY <3>1, <3>2, <3>3, CallMoves, Zenon DEF ValueInv
      <3>5. HostsTyped'
        BY <3>2, SMT DEF ValueInv, HostsTyped, sessionVars
      <3>6. [id |-> IdOf(c), at |-> session[c]] \in Requests
        BY <3>1, SMT DEF ValueInv, HostsTyped, CallsTyped, Requests, CmdIds, IdOf
      <3>7. WireTyped'
        BY <3>1, <3>6, SMT DEF ValueInv, WireTyped
      <3>8. QED
        BY <3>2, <3>4, <3>5, <3>7, Zenon DEF ValueInv
    <2>5. CASE RegisterFails(c) \/ NoAck(c) \/ Cancel(c)
      <3>1. UNCHANGED wire /\ \E outcome \in Outcomes : End(c, outcome) \/ FailAttempt(c)
        BY <2>5, PhaseNames, Zenon DEF RegisterFails, NoAck, Cancel, Outcomes
      <3>2. QED
        BY <1>1, <1>5, <3>1, Zenon
    <2>6. CASE Ack(c)
      <3>1. PICK a \in acks :
              /\ acks' = acks \ {a}
              /\ IF a.id = IdOf(c)
                 THEN End(c, IF a.ok THEN "ok" ELSE "rejected")
                 ELSE UNCHANGED <<phase, attempt, queue, anchor, sessionVars>>
        BY <2>6, Zenon DEF Ack
      <3>2. WireTyped'
        <4>1. UNCHANGED <<requests, executed>>
          BY <2>6, Zenon DEF Ack
        <4>2. QED
          BY <3>1, <4>1, SMT DEF ValueInv, WireTyped
      <3>3. CASE \E outcome \in Outcomes : End(c, outcome)
        BY <1>1, <3>2, <3>3, Zenon
      <3>4. CASE UNCHANGED <<phase, attempt, queue, anchor, sessionVars>>
        BY <3>2, <3>4, SMT DEF ValueInv, CallsTyped, HostsTyped, sessionVars
      <3>5. "ok" \in Outcomes /\ "rejected" \in Outcomes
        BY DEF Outcomes
      <3>6. QED
        BY <3>1, <3>3, <3>4, <3>5, Zenon
    <2>7. QED
      BY <1>6, <2>1, <2>2, <2>3, <2>4, <2>5, <2>6, Zenon DEF Proceed
  <1>7. CASE Printer
    <2>1. PICK r \in requests :
            /\ requests' = requests \ {r}
            /\ \/ /\ executed' = [executed EXCEPT ![r.id.call] = @ + 1]
                  /\ \/ acks' = acks \cup {[id |-> r.id, at |-> r.at, ok |-> TRUE]}
                     \/ UNCHANGED acks
               \/ /\ acks' = acks \cup {[id |-> r.id, at |-> r.at, ok |-> FALSE]}
                  /\ UNCHANGED executed
               \/ UNCHANGED <<acks, executed>>
            /\ UNCHANGED <<phase, attempt, queue, anchor, sessionVars>>
      BY <1>7, Zenon DEF Printer
    <2>2. r \in Requests
      BY Zenon DEF ValueInv, WireTyped
    <2>3. \A ok \in BOOLEAN : [id |-> r.id, at |-> r.at, ok |-> ok] \in Answers
      BY <2>2, SMT DEF Requests, Answers
    <2>4. r.id.call \in Calls
      BY <2>2, SMT DEF Requests, CmdIds
    <2>5. acks' \subseteq Answers
      <3>1. \E ok \in BOOLEAN : acks' \subseteq acks \cup {[id |-> r.id, at |-> r.at, ok |-> ok]}
        BY <2>1, Zenon
      <3>2. QED
        BY <2>3, <3>1, Zenon DEF ValueInv, WireTyped
    <2>6. executed' \in [Calls -> Nat]
      BY <2>1, <2>4, SMT DEF ValueInv, WireTyped
    <2>7. WireTyped'
      BY <2>1, <2>5, <2>6, SMT DEF ValueInv, WireTyped
    <2>8. UNCHANGED <<phase, attempt, anchor>> /\ UNCHANGED sessionVars
      BY <2>1
    <2>9. QED
      BY <2>7, <2>8, SMT DEF ValueInv, CallsTyped, HostsTyped, sessionVars
  <1>8. CASE LoseAck
    <2>1. WireTyped'
      BY <1>8, SMT DEF LoseAck, ValueInv, WireTyped
    <2>2. UNCHANGED <<phase, attempt, anchor>> /\ UNCHANGED sessionVars
      BY <1>8, SMT DEF LoseAck
    <2>3. QED
      BY <2>1, <2>2, SMT DEF ValueInv, CallsTyped, HostsTyped, sessionVars
  <1>9. CASE Reconfigure \/ LearnSerial
    <2>1. UNCHANGED <<phase, attempt, anchor, method, session, aim>> /\ UNCHANGED wire
      BY <1>9, SMT DEF Reconfigure, LearnSerial
    <2>2. host' \in Printers /\ serial' \in Printers \cup {NoSerial}
      BY <1>9, SMT DEF Reconfigure, LearnSerial, ValueInv, HostsTyped
    <2>3. QED
      BY <1>5, <2>1, <2>2, SMT DEF ValueInv, CallsTyped, HostsTyped
  <1>10. CASE Tick
    <2>1. anchor' \in 0..DEBOUNCE
      BY <1>10, CommandAssumption, SMT DEF Tick, ValueInv
    <2>2. UNCHANGED <<phase, attempt>> /\ UNCHANGED sessionVars /\ UNCHANGED wire
      BY <1>10, SMT DEF Tick, wire
    <2>3. QED
      BY <1>5, <2>1, <2>2, SMT DEF ValueInv, CallsTyped, HostsTyped, sessionVars
  <1>11. CASE UNCHANGED vars
    BY <1>11, SMT DEF vars, ValueInv, CallsTyped, HostsTyped, WireTyped
  <1>12. QED
    BY <1>2, <1>6, <1>7, <1>8, <1>9, <1>10, <1>11, Zenon DEF Next

-----------------------------------------------------------------------------
(***************************************************************************)
(* The debounce.                                                           *)
(***************************************************************************)

\* What does not justify refusing another pause.
Harmless == {"none", "failed", "rejected", "debounced"}

LEMMA CauseMoves ==
  ASSUME ValueInv, DebounceHasCause, NEW c \in Calls, NEW where, Goto(c, where), method' = method,
         \/ anchor' = DEBOUNCE
         \/ method[c] = "pause" /\ where \notin Harmless
         \/ /\ anchor' = anchor
            /\ method[c] # "pause" \/ where \notin Harmless \/ phase[c] \in Harmless
  PROVE  DebounceHasCause'
  <1> SUFFICES ASSUME anchor' < DEBOUNCE
               PROVE  \E d \in Calls : method[d] = "pause" /\ phase'[d] \notin Harmless
    BY Zenon DEF DebounceHasCause, Harmless
  <1>1. \A d \in Calls : phase'[d] = IF d = c THEN where ELSE phase[d]
    BY SMT DEF ValueInv, CallsTyped, Goto
  <1>2. anchor' # DEBOUNCE
    BY CommandAssumption, SMT
  <1>3. CASE method[c] = "pause" /\ where \notin Harmless
    BY <1>1, <1>3, Zenon
  <1>4. CASE anchor' = anchor /\ (method[c] # "pause" \/ where \notin Harmless \/ phase[c] \in Harmless)
    <2>1. PICK d \in Calls : method[d] = "pause" /\ phase[d] \notin Harmless
      BY <1>4, Zenon DEF DebounceHasCause, Harmless
    <2>2. QED
      BY <1>1, <1>4, <2>1, Zenon
  <1>5. QED
    BY <1>2, <1>3, <1>4

LEMMA CauseSame ==
  DebounceHasCause /\ UNCHANGED <<phase, method>> /\ (anchor' = anchor \/ anchor < DEBOUNCE)
    => DebounceHasCause'
  BY Zenon DEF DebounceHasCause

LEMMA CauseEnds ==
  ASSUME ValueInv, DebounceHasCause, NEW c \in Calls, NEW outcome \in Outcomes,
         End(c, outcome) \/ FailAttempt(c)
  PROVE  DebounceHasCause'
  <1>1. ASSUME NEW o \in Outcomes, End(c, o)
        PROVE  DebounceHasCause'
    <2>1. Goto(c, o) /\ anchor' = AnchorAfter(method[c], o) /\ UNCHANGED sessionVars
      BY <1>1, Zenon DEF End
    <2>2. method' = method
      BY <2>1, SMT DEF sessionVars
    <2>3. \/ anchor' = DEBOUNCE
          \/ method[c] = "pause" /\ o \notin Harmless
          \/ anchor' = anchor /\ method[c] # "pause"
      <3>1. CASE o \in {"unknown", "cancelled", "ok"}
        <4>1. o \notin Harmless
          BY <3>1, SMT DEF Harmless
        <4>2. method[c] # "pause" => anchor' \in {anchor, DEBOUNCE}
          BY <2>1, SMT DEF AnchorAfter
        <4>3. QED
          BY <4>1, <4>2, SMT
      <3>2. CASE o \notin {"unknown", "cancelled", "ok"}
        <4>1. method[c] = "pause" => anchor' = DEBOUNCE
          BY <2>1, <3>2, SMT DEF AnchorAfter
        <4>2. method[c] # "pause" => anchor' = anchor
          BY <2>1, <3>2, SMT DEF AnchorAfter
        <4>3. QED
          BY <4>1, <4>2
      <3>3. QED
        BY <3>1, <3>2
    <2>4. QED
      BY <2>1, <2>2, <2>3, CauseMoves, Zenon
  <1>2. CASE Goto(c, "backoff") /\ UNCHANGED <<attempt, anchor, sessionVars>>
    <2>1. anchor' = anchor /\ method' = method
      BY <1>2, SMT DEF sessionVars
    <2>2. "backoff" \notin Harmless
      BY DEF Harmless
    <2>3. QED
      BY <1>2, <2>1, <2>2, CauseMoves, Zenon
  <1>3. "failed" \in Outcomes
    BY DEF Outcomes
  <1>4. QED
    BY <1>1, <1>2, <1>3, Zenon DEF FailAttempt

LEMMA CauseInit == Init => DebounceHasCause
  BY CommandAssumption, SMT DEF Init, DebounceHasCause

LEMMA CauseStep ==
  ASSUME ValueInv, DebounceHasCause, [Next]_vars
  PROVE  DebounceHasCause'
  <1>1. {"failed", "unknown", "cancelled", "ok", "rejected"} \subseteq Outcomes
    BY DEF Outcomes
  <1>2. {"lock", "backoff", "connect", "register", "ack"} \cap Harmless = {}
    BY DEF Harmless
  <1>3. ASSUME NEW c \in Calls, Begin(c) PROVE DebounceHasCause'
    <2>1. method' = method /\ phase[c] = "none"
      BY <1>3, Zenon DEF Begin
    <2>2. phase[c] \in Harmless /\ "lock" \notin Harmless
      BY <2>1, SMT DEF Harmless
    <2>3. PICK where \in {"debounced", "lock"} :
            /\ Goto(c, where)
            /\ anchor' = anchor \/ (method[c] = "pause" /\ where = "lock")
      BY <1>3, Zenon DEF Begin
    <2>4. QED
      BY <2>1, <2>2, <2>3, CauseMoves, Zenon
  <1>4. ASSUME NEW c \in Calls, NEW where \in {"lock", "connect", "register", "ack"},
               Goto(c, where), method' = method, anchor' = anchor
        PROVE  DebounceHasCause'
    <2>1. where \notin Harmless
      BY SMT DEF Harmless
    <2>2. QED
      BY <1>4, <2>1, CauseMoves, Zenon
  <1>5. ASSUME NEW c \in Calls, Proceed(c) \/ Cancel(c) PROVE DebounceHasCause'
    <2>1. CASE Retry(c) \/ Publish(c)
      <3>1. Goto(c, "lock") \/ Goto(c, "ack")
        BY <2>1, Zenon DEF Retry, Publish
      <3>2. method' = method /\ anchor' = anchor
        BY <2>1, SMT DEF Retry, Publish, sessionVars
      <3>3. QED
        BY <1>4, <3>1, <3>2, Zenon
    <2>2. CASE StartSession(c) \/ Connect(c)
      <3>1. CASE FailAttempt(c) \/ End(c, "failed")
        BY <1>1, <3>1, CauseEnds, SMT
      <3>2. CASE ~(FailAttempt(c) \/ End(c, "failed"))
        <4>1. /\ Goto(c, "connect") \/ Goto(c, "register")
              /\ UNCHANGED <<method, attempt, queue, anchor, aim, host, serial>>
          BY <2>2, <3>2, Zenon DEF StartSession, Connect
        <4>2. method' = method /\ anchor' = anchor
          BY <4>1
        <4>3. QED
          BY <1>4, <4>1, <4>2, Zenon
      <3>3. QED
        BY <3>1, <3>2
    <2>3. CASE RegisterFails(c) \/ NoAck(c) \/ Cancel(c)
      <3>1. \E outcome \in {"failed", "unknown", "cancelled"} : End(c, outcome) \/ FailAttempt(c)
        BY <2>3, Zenon DEF RegisterFails, NoAck, Cancel
      <3>2. QED
        BY <1>1, <3>1, CauseEnds, SMT
    <2>4. CASE Ack(c)
      <3>1. \/ End(c, "ok") \/ End(c, "rejected")
            \/ UNCHANGED <<phase, attempt, queue, anchor, sessionVars>>
        BY <2>4, Zenon DEF Ack
      <3>2. CASE End(c, "ok") \/ End(c, "rejected")
        BY <1>1, <3>2, CauseEnds, SMT
      <3>3. CASE UNCHANGED <<phase, attempt, queue, anchor, sessionVars>>
        <4>1. UNCHANGED <<phase, method>> /\ anchor' = anchor
          BY <3>3, SMT DEF sessionVars
        <4>2. QED
          BY <4>1, CauseSame
      <3>4. QED
        BY <3>1, <3>2, <3>3
    <2>5. QED
      BY <1>5, <2>1, <2>2, <2>3, <2>4, Zenon DEF Proceed
  <1>6. CASE Printer \/ LoseAck \/ Reconfigure \/ LearnSerial \/ Tick \/ UNCHANGED vars
    <2>1. UNCHANGED <<phase, method>> /\ (anchor' = anchor \/ anchor < DEBOUNCE)
      BY <1>6, SMT DEF Printer, LoseAck, Reconfigure, LearnSerial, Tick, sessionVars, vars
    <2>2. QED
      BY <2>1, CauseSame
  <1>7. QED
    BY <1>3, <1>5, <1>6, Zenon DEF Next

-----------------------------------------------------------------------------
\* Every variable keeps its values and, what a session rests on, only the holder of
\* the control lock has one: the queue never loses, doubles or overtakes a caller.
THEOREM TypeCorrect == Spec => []TypeOK
  <1>1. Init => LockInv /\ ValueInv
    BY LockInit, ValueInit
  <1>2. LockInv /\ ValueInv /\ [Next]_vars => (LockInv /\ ValueInv)'
    BY LockStep, ValueStep
  <1>3. LockInv /\ ValueInv => TypeOK
    BY Zenon DEF LockInv, ValueInv, CallsTyped, HostsTyped, WireTyped, Requests, Answers, Phases,
                 TypeOK
  <1>4. QED
    BY <1>1, <1>2, <1>3, PTL DEF Spec

\* A pause is refused by the debounce only while another one may have reached the
\* printer, whatever the other callers, retries, cancellations and answers.
THEOREM DebounceIsJustified == Spec => []DebounceHasCause
  <1>1. Init => ValueInv /\ DebounceHasCause
    BY ValueInit, CauseInit
  <1>2. ValueInv /\ DebounceHasCause /\ [Next]_vars => (ValueInv /\ DebounceHasCause)'
    BY ValueStep, CauseStep
  <1>3. QED
    BY <1>1, <1>2, PTL DEF Spec
=============================================================================
