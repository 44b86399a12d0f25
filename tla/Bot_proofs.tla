------------------------------ MODULE Bot_proofs ------------------------------
(***************************************************************************)
(* What holds of Bot for every set of users, every allowlist and every rate *)
(* limit: the bot's own stop of a print needs a live request of the user    *)
(* who confirms it.  And for any channels and any cap that holds one        *)
(* fan-out: a critical alert gives way only to newer critical ones.  What   *)
(* the fan-out computes is shown by induction, as the absence of a least    *)
(* counterexample.                                                          *)
(***************************************************************************)
EXTENDS Bot, FiniteSetTheorems, SequenceTheorems, WellFoundedInduction, TLAPS

\* What the code remembers of a request is never younger than the request itself.
RequestIsLive == \A u \in Users : pending[u] = "fresh" => asked[u] = "fresh"

StopsTyped ==
  /\ pending \in [Users -> {"none", "fresh", "old"}]
  /\ asked \in [Users -> {"no", "fresh", "old"}]
  /\ called \in Users \cup {NoUser}

IInv == StopsTyped /\ RequestIsLive

RequestMade ==
  called' # called /\ called' # NoUser => called' \in Authorized /\ asked[called'] = "fresh"

LEMMA ExpiredType ==
  ASSUME IInv
  PROVE  /\ Expired \in [Users -> {"none", "fresh", "old"}]
         /\ \A u \in Users : Expired[u] = "fresh" => pending[u] = "fresh"
         /\ \A u \in Users : Expired[u] = "fresh" => asked[u] = "fresh"
  BY SMT DEF IInv, StopsTyped, RequestIsLive, Expired

LEMMA InitIInv == Init => IInv
  BY SMT DEF Init, Nothing, NotAsked, IInv, StopsTyped, RequestIsLive

-----------------------------------------------------------------------------
(* The commands.                                                            *)

LEMMA LooksStep ==
  ASSUME IInv, pending' = Expired, UNCHANGED <<called, asked>>
  PROVE  IInv' /\ RequestMade
  BY ExpiredType, SMT DEF IInv, StopsTyped, RequestIsLive, RequestMade

LEMMA AskStopStep ==
  ASSUME IInv, NEW u \in Users, AskStop(u)
  PROVE  IInv' /\ RequestMade
  <1>1. /\ pending' = [Expired EXCEPT ![u] = "fresh"]
        /\ asked' = [asked EXCEPT ![u] = "fresh"]
        /\ called' = called
    BY Zenon DEF AskStop
  <1>2. QED
    BY <1>1, ExpiredType, SMT DEF IInv, StopsTyped, RequestIsLive, RequestMade

LEMMA CancelStopStep ==
  ASSUME IInv, NEW u \in Users, CancelStop(u)
  PROVE  IInv' /\ RequestMade
  <1>1. /\ pending' = [Expired EXCEPT ![u] = "none"]
        /\ asked' = [asked EXCEPT ![u] = "no"]
        /\ called' = called
    BY Zenon DEF CancelStop
  <1>2. QED
    BY <1>1, ExpiredType, SMT DEF IInv, StopsTyped, RequestIsLive, RequestMade

\* The one step that stops a print: the request it is taken from is spent.
LEMMA ConfirmStep ==
  ASSUME IInv, NEW u \in Users, Confirm(u)
  PROVE  IInv' /\ RequestMade
  <1>1. /\ u \in Authorized
        /\ pending' = [Expired EXCEPT ![u] = "none"]
    BY Zenon DEF Confirm, Accepted
  <1>2. CASE Expired[u] = "fresh"
    <2>1. called' = u /\ asked' = [asked EXCEPT ![u] = "no"]
      BY <1>2, Zenon DEF Confirm
    <2>2. QED
      BY <1>1, <1>2, <2>1, ExpiredType, SMT
         DEF IInv, StopsTyped, RequestIsLive, RequestMade
  <1>3. CASE Expired[u] # "fresh"
    <2>1. UNCHANGED <<called, asked>>
      BY <1>3, Zenon DEF Confirm
    <2>2. QED
      BY <1>1, <2>1, ExpiredType, SMT DEF IInv, StopsTyped, RequestIsLive, RequestMade
  <1>4. QED
    BY <1>2, <1>3

LEMMA CommandStep == IInv /\ Command => IInv' /\ RequestMade
  <1> SUFFICES ASSUME IInv, Command PROVE IInv' /\ RequestMade
    OBVIOUS
  <1>1. PICK u \in Users :
          Refused(u) \/ Look(u) \/ AskStop(u) \/ CancelStop(u) \/ Confirm(u)
    BY Zenon DEF Command
  <1>2. CASE Refused(u) \/ Look(u)
    <2>1. pending' = Expired /\ UNCHANGED <<called, asked>>
      BY <1>2, SMT DEF Refused, Look
    <2>2. QED
      BY <2>1, LooksStep
  <1>3. QED
    BY <1>1, <1>2, AskStopStep, CancelStopStep, ConfirmStep, Zenon

-----------------------------------------------------------------------------
(* The clock, the supervisor and the process.                               *)

\* A request and what the code remembers of it pass their thirty seconds at once.
LEMMA TimePassesStep == IInv /\ TimePasses => IInv' /\ RequestMade
  <1> SUFFICES ASSUME IInv, TimePasses PROVE IInv' /\ RequestMade
    OBVIOUS
  <1>1. PICK S \in SUBSET {u \in Users : asked[u] = "fresh" \/ pending[u] = "fresh"} :
          /\ pending' = [u \in Users |-> IF u \in S /\ pending[u] = "fresh" THEN "old" ELSE pending[u]]
          /\ asked' = [u \in Users |-> IF u \in S /\ asked[u] = "fresh" THEN "old" ELSE asked[u]]
    BY Zenon DEF TimePasses
  <1>2. called' = called
    BY Zenon DEF TimePasses
  <1>3. QED
    BY <1>1, <1>2, SMT DEF IInv, StopsTyped, RequestIsLive, RequestMade

LEMMA CallEndsStep ==
  ASSUME IInv, called' = NoUser, UNCHANGED <<pending, asked>>
  PROVE  IInv' /\ RequestMade
  BY SMT DEF IInv, StopsTyped, RequestIsLive, RequestMade

LEMMA StopsSameStep ==
  ASSUME IInv, UNCHANGED stops
  PROVE  IInv' /\ RequestMade
  BY SMT DEF IInv, StopsTyped, RequestIsLive, RequestMade, stops

LEMMA SuperviseStep == IInv /\ Supervise => IInv' /\ RequestMade
  <1> SUFFICES ASSUME IInv, Supervise PROVE IInv' /\ RequestMade
    OBVIOUS
  <1>1. CASE BackoffOver
    <2>1. called' = NoUser /\ UNCHANGED <<pending, asked>>
      BY <1>1, SMT DEF BackoffOver
    <2>2. QED
      BY <2>1, CallEndsStep
  <1>2. CASE SupervisorBegins \/ FindsItDown \/ FindsItRunning \/ WatchOver \/ Restart
    <2>1. UNCHANGED stops
      BY <1>2, Zenon DEF SupervisorBegins, FindsItDown, FindsItRunning, WatchOver, Restart
    <2>2. QED
      BY <2>1, StopsSameStep
  <1>3. QED
    BY <1>1, <1>2, Zenon DEF Supervise

LEMMA DownStep == IInv /\ Down => IInv' /\ RequestMade
  <1> SUFFICES ASSUME IInv, Down PROVE IInv' /\ RequestMade
    OBVIOUS
  <1>1. pending' = Nothing /\ called' = NoUser /\ asked' = NotAsked
    BY Zenon DEF Down
  <1>2. QED
    BY <1>1, SMT DEF Nothing, NotAsked, IInv, StopsTyped, RequestIsLive, RequestMade

LEMMA NextStep == IInv /\ [Next]_vars => IInv' /\ [RequestMade]_vars
  <1> SUFFICES ASSUME IInv, [Next]_vars PROVE IInv' /\ [RequestMade]_vars
    OBVIOUS
  <1>1. CASE BotStart \/ UpdaterDies \/ MinutePasses \/ Messages
    <2>1. UNCHANGED stops
      BY <1>1, Zenon DEF BotStart, UpdaterDies, MinutePasses, Messages
    <2>2. QED
      BY <2>1, StopsSameStep
  <1>2. CASE StopEnds
    <2>1. called' = NoUser /\ UNCHANGED <<pending, asked>>
      BY <1>2, SMT DEF StopEnds
    <2>2. QED
      BY <2>1, CallEndsStep
  <1>3. CASE Supervise \/ Down \/ Command \/ TimePasses
    BY <1>3, SuperviseStep, DownStep, CommandStep, TimePassesStep
  <1>4. CASE UNCHANGED vars
    <2>1. UNCHANGED stops
      BY <1>4, SMT DEF vars, stops
    <2>2. QED
      BY <2>1, StopsSameStep
  <1>5. QED
    BY <1>1, <1>2, <1>3, <1>4, Zenon DEF Next

-----------------------------------------------------------------------------
(* The dispatcher's queue.                                                  *)

\* Every nonempty set of naturals has a least element.
LEMMA MinNat ==
  ASSUME NEW T \in SUBSET Nat, T # {}
  PROVE  \E m \in T : \A k \in T : m <= k
  <1>1. \E x \in T : \A y \in T : ~(<<y, x>> \in OpToRel(<, Nat))
    BY NatLessThanWellFounded, WFMin, Zenon
  <1>2. PICK x \in T : \A y \in T : ~(<<y, x>> \in OpToRel(<, Nat))
    BY <1>1
  <1>3. \A y \in T : ~(y < x)
    <2>1. SUFFICES ASSUME NEW y \in T, y < x PROVE <<y, x>> \in OpToRel(<, Nat)
      BY <1>2
    <2>2. QED
      BY <2>1, SMT DEF OpToRel
  <1>4. QED
    BY <1>3, SMT

\* The critical tasks of q carry increasing numbers up to n, and what is
\* followed has none below zero: n is no less than the critical ones behind it.
Numbered(q, n, L) ==
  /\ L \in [Nat -> Int]
  /\ \A i \in DOMAIN q : q[i].critical => L[i] <= n
  /\ \A i \in DOMAIN q : q[i].followed => 0 <= L[i]
  /\ \A i, j \in DOMAIN q : i < j /\ q[i].critical /\ q[j].critical => L[i] < L[j]

Counted(q, n) == n = MAX_CONCURRENT_TASKS \/ \E L : Numbered(q, n, L)

OneFollowed(q) ==
  /\ \A i \in DOMAIN q : q[i].followed => q[i].critical
  /\ \A i, j \in DOMAIN q : q[i].followed /\ q[j].followed => i = j

QueueTyped(q, a, n) ==
  /\ q \in Seq(Tasks) /\ Len(q) <= MAX_CONCURRENT_TASKS
  /\ a \in {"none", "pending", "ended", "displaced"}
  /\ n \in 0..MAX_CONCURRENT_TASKS

\* What fire and forget keeps of a queue, an outcome and a count.
Queue(q, a, n) ==
  /\ QueueTyped(q, a, n)
  /\ OneFollowed(q)
  /\ a = "pending" <=> \E i \in DOMAIN q : q[i].followed
  /\ a = "pending" => Counted(q, n)
  /\ a = "displaced" => n >= MAX_CONCURRENT_TASKS - 1

QueueInv == Queue(tasks, alert, newer)

LEMMA CapIsPositive == MAX_CONCURRENT_TASKS \in Nat /\ 1 <= MAX_CONCURRENT_TASKS
                       /\ Cardinality(Channels) \in Nat
  <1>1. Cardinality(Channels) \in Nat /\ Cardinality(Channels) # 0
    BY DispatcherAssumption, FS_CardinalityType, FS_EmptySet, Zenon
  <1>2. QED
    BY <1>1, DispatcherAssumption, SMT

LEMMA TaskFields ==
  ASSUME NEW t \in Tasks
  PROVE  t.critical \in BOOLEAN /\ t.followed \in BOOLEAN
  BY Zenon DEF Tasks

LEMMA RemoveAtDef ==
  ASSUME NEW S, NEW q \in Seq(S), NEW v \in 1..Len(q)
  PROVE  /\ RemoveAt(q, v) \in Seq(S)
         /\ Len(RemoveAt(q, v)) = Len(q) - 1
         /\ DOMAIN RemoveAt(q, v) = 1..(Len(q) - 1)
         /\ \A j \in 1..(Len(q) - 1) :
              /\ j < v => RemoveAt(q, v)[j] = q[j]
              /\ v <= j => RemoveAt(q, v)[j] = q[j + 1]
  <1> DEFINE a == SubSeq(q, 1, v - 1)
             b == SubSeq(q, v + 1, Len(q))
  <1>1. a \in Seq(S) /\ Len(a) = v - 1 /\ \A k \in 1..(v - 1) : a[k] = q[k]
    BY SMT
  <1>2. /\ b \in Seq(S) /\ Len(b) = Len(q) - v
        /\ \A k \in 1..(Len(q) - v) : b[k] = q[v + k]
    BY SMT
  <1> HIDE DEF a, b
  <1>3. /\ a \o b \in Seq(S) /\ Len(a \o b) = Len(q) - 1 /\ DOMAIN (a \o b) = 1..(Len(q) - 1)
    <2>1. a \o b \in Seq(S) /\ Len(a \o b) = Len(a) + Len(b)
      BY <1>1, <1>2, ConcatProperties, Zenon
    <2>2. Len(q) \in Nat /\ Len(a) + Len(b) = Len(q) - 1
      BY <1>1, <1>2, SMT
    <2>3. DOMAIN (a \o b) = 1..Len(a \o b)
      BY <2>1, LenProperties, Zenon
    <2>4. QED
      BY <2>1, <2>2, <2>3, Zenon
  <1>4. \A j \in 1..(Len(q) - 1) : j < v => (a \o b)[j] = q[j]
    BY <1>1, <1>2, SMT
  <1>5. ASSUME NEW j \in 1..(Len(q) - 1), v <= j PROVE (a \o b)[j] = q[j + 1]
    <2>1. (a \o b)[j] = b[j - (v - 1)]
      BY <1>1, <1>2, <1>5, SMT
    <2>2. j - (v - 1) \in 1..(Len(q) - v) /\ v + (j - (v - 1)) = j + 1
      BY <1>5, SMT
    <2>3. QED
      BY <1>2, <2>1, <2>2, SMT
  <1>6. RemoveAt(q, v) = a \o b
    BY Zenon DEF RemoveAt, a, b
  <1>7. QED
    BY <1>3, <1>4, <1>5, <1>6, SMT

\* Where the task at place j of the shorter queue was before.
Place(v, j) == IF j < v THEN j ELSE j + 1

LEMMA PlaceDef ==
  ASSUME NEW q \in Seq(Tasks), NEW v \in 1..Len(q)
  PROVE  /\ DOMAIN q = 1..Len(q) /\ Len(q) \in Nat
         /\ \A j \in DOMAIN RemoveAt(q, v) :
              /\ j \in Nat /\ Place(v, j) \in DOMAIN q /\ Place(v, j) # v
              /\ RemoveAt(q, v)[j] = q[Place(v, j)]
         /\ \A i, j \in DOMAIN RemoveAt(q, v) : i < j => Place(v, i) < Place(v, j)
         /\ \A i, j \in DOMAIN RemoveAt(q, v) : Place(v, i) = Place(v, j) => i = j
         /\ \A k \in DOMAIN q : k # v => \E j \in DOMAIN RemoveAt(q, v) : Place(v, j) = k
  <1> DEFINE r == RemoveAt(q, v)
  <1>1. /\ DOMAIN r = 1..(Len(q) - 1) /\ DOMAIN q = 1..Len(q) /\ Len(q) \in Nat
        /\ \A j \in 1..(Len(q) - 1) : (j < v => r[j] = q[j]) /\ (v <= j => r[j] = q[j + 1])
    BY RemoveAtDef, SMT
  <1> HIDE DEF r
  <1>2. ASSUME NEW j \in DOMAIN r
        PROVE  j \in Nat /\ Place(v, j) \in DOMAIN q /\ Place(v, j) # v /\ r[j] = q[Place(v, j)]
    <2>1. CASE j < v
      BY <1>1, <2>1, SMT DEF Place
    <2>2. CASE v <= j
      BY <1>1, <2>2, SMT DEF Place
    <2>3. QED
      BY <1>1, <2>1, <2>2, SMT
  <1>3. \A i, j \in DOMAIN r : i < j => Place(v, i) < Place(v, j)
    BY <1>1, SMT DEF Place
  <1>4. \A i, j \in DOMAIN r : Place(v, i) = Place(v, j) => i = j
    BY <1>1, SMT DEF Place
  <1>5. ASSUME NEW k \in DOMAIN q, k # v PROVE \E j \in DOMAIN r : Place(v, j) = k
    <2>1. CASE k < v
      <3>1. k \in DOMAIN r /\ Place(v, k) = k
        BY <1>1, <2>1, SMT DEF Place
      <3>2. QED
        BY <3>1
    <2>2. CASE k > v
      <3>1. k - 1 \in DOMAIN r /\ Place(v, k - 1) = k
        BY <1>1, <2>2, SMT DEF Place
      <3>2. QED
        BY <3>1
    <2>3. QED
      BY <1>1, <1>5, <2>1, <2>2, SMT
  <1>6. QED
    BY <1>1, <1>2, <1>3, <1>4, <1>5, Zenon DEF r

\* The queue without one of its tasks.
LEMMA RemoveKeeps ==
  ASSUME NEW q \in Seq(Tasks), NEW v \in 1..Len(q), OneFollowed(q)
  PROVE  /\ OneFollowed(RemoveAt(q, v))
         /\ q[v].followed => ~\E i \in DOMAIN RemoveAt(q, v) : RemoveAt(q, v)[i].followed
         /\ ~q[v].followed => ((\E i \in DOMAIN q : q[i].followed)
                <=> \E i \in DOMAIN RemoveAt(q, v) : RemoveAt(q, v)[i].followed)
  <1> DEFINE r == RemoveAt(q, v)
  <1>1. /\ v \in DOMAIN q
        /\ \A j \in DOMAIN r : Place(v, j) \in DOMAIN q /\ Place(v, j) # v /\ r[j] = q[Place(v, j)]
        /\ \A i, j \in DOMAIN r : Place(v, i) = Place(v, j) => i = j
        /\ \A k \in DOMAIN q : k # v => \E j \in DOMAIN r : Place(v, j) = k
    BY PlaceDef, Zenon
  <1> HIDE DEF r
  <1>2. OneFollowed(r)
    BY <1>1, Zenon DEF OneFollowed
  <1>3. q[v].followed => ~\E i \in DOMAIN r : r[i].followed
    BY <1>1, Zenon DEF OneFollowed
  <1>4. ASSUME ~q[v].followed, NEW i \in DOMAIN q, q[i].followed
        PROVE  \E k \in DOMAIN r : r[k].followed
    <2>1. i # v
      BY <1>4
    <2>2. PICK k \in DOMAIN r : Place(v, k) = i
      BY <1>1, <2>1, Zenon
    <2>3. r[k] = q[i]
      BY <1>1, <2>2, Zenon
    <2>4. QED
      BY <1>4, <2>3, Zenon
  <1>5. ASSUME NEW k \in DOMAIN r, r[k].followed
        PROVE  \E i \in DOMAIN q : q[i].followed
    BY <1>1, <1>5, Zenon
  <1>6. QED
    BY <1>2, <1>3, <1>4, <1>5, Zenon DEF r

LEMMA RemoveCounted ==
  ASSUME NEW q \in Seq(Tasks), NEW v \in 1..Len(q), NEW n, Counted(q, n)
  PROVE  Counted(RemoveAt(q, v), n)
  <1> DEFINE r == RemoveAt(q, v)
  <1>1. /\ \A j \in DOMAIN r : j \in Nat /\ Place(v, j) \in DOMAIN q /\ r[j] = q[Place(v, j)]
        /\ \A i, j \in DOMAIN r : i < j => Place(v, i) < Place(v, j)
        /\ DOMAIN q \subseteq Nat
    <2>1. DOMAIN q \subseteq Nat
      BY SMT
    <2>2. QED
      BY <2>1, PlaceDef, Zenon
  <1> HIDE DEF r
  <1>2. SUFFICES ASSUME NEW L, Numbered(q, n, L) PROVE \E K : Numbered(r, n, K)
    BY Zenon DEF Counted, r
  <1> DEFINE K == [j \in Nat |-> IF j \in DOMAIN r THEN L[Place(v, j)] ELSE 0]
  <1>3. L \in [Nat -> Int]
    BY <1>2, Zenon DEF Numbered
  <1>4. K \in [Nat -> Int]
    <2>1. \A j \in DOMAIN r : L[Place(v, j)] \in Int
      BY <1>1, <1>3, Zenon
    <2>2. QED
      BY <2>1, SMT
  <1>5. \A j \in DOMAIN r : K[j] = L[Place(v, j)]
    BY <1>1, Zenon
  <1> HIDE DEF K
  <1>6. Numbered(r, n, K)
    BY <1>1, <1>2, <1>4, <1>5, Zenon DEF Numbered
  <1>7. QED
    BY <1>6

\* The queue with one task more.
LEMMA AppendDef ==
  ASSUME NEW q \in Seq(Tasks), NEW t \in Tasks
  PROVE  /\ Append(q, t) \in Seq(Tasks) /\ Len(Append(q, t)) = Len(q) + 1
         /\ Len(q) \in Nat /\ DOMAIN q = 1..Len(q)
         /\ DOMAIN Append(q, t) = 1..(Len(q) + 1)
         /\ DOMAIN Append(q, t) = DOMAIN q \cup {Len(q) + 1}
         /\ \A j \in DOMAIN q : Append(q, t)[j] = q[j] /\ j < Len(q) + 1 /\ j \in Nat
         /\ Append(q, t)[Len(q) + 1] = t
  BY SMT

LEMMA AppendFollowed ==
  ASSUME NEW q \in Seq(Tasks), NEW t \in Tasks, OneFollowed(q),
         t.followed => t.critical /\ ~\E i \in DOMAIN q : q[i].followed
  PROVE  /\ OneFollowed(Append(q, t))
         /\ (\E i \in DOMAIN Append(q, t) : Append(q, t)[i].followed)
              <=> (t.followed \/ \E i \in DOMAIN q : q[i].followed)
  <1> DEFINE r == Append(q, t)
             z == Len(q) + 1
  <1>1. /\ DOMAIN r = DOMAIN q \cup {z} /\ r[z] = t
        /\ \A j \in DOMAIN q : r[j] = q[j]
    BY AppendDef, Zenon
  <1> HIDE DEF r, z
  <1>2. OneFollowed(r)
    BY <1>1, SMT DEF OneFollowed
  <1>3. (\E i \in DOMAIN r : r[i].followed) <=> (t.followed \/ \E i \in DOMAIN q : q[i].followed)
    BY <1>1, SMT
  <1>4. QED
    BY <1>2, <1>3 DEF r

\* The first followed task starts the count.
LEMMA FirstCounted ==
  ASSUME NEW q \in Seq(Tasks), NEW t \in Tasks, NEW n \in Nat,
         ~\E i \in DOMAIN q : q[i].followed
  PROVE  Counted(Append(q, t), n)
  <1> DEFINE r == Append(q, t)
             z == Len(q) + 1
             K == [j \in Nat |-> j - z]
  <1>1. /\ DOMAIN r = 1..z /\ z \in Nat /\ DOMAIN q = 1..Len(q)
        /\ \A j \in DOMAIN r : j # z => j \in DOMAIN q /\ r[j] = q[j]
    <2>1. Len(q) \in Nat /\ DOMAIN r = 1..z /\ DOMAIN r = DOMAIN q \cup {z} /\ DOMAIN q = 1..Len(q)
      BY AppendDef, Zenon
    <2>2. \A j \in DOMAIN q : r[j] = q[j]
      BY AppendDef, Zenon
    <2>3. QED
      BY <2>1, <2>2, SMT
  <1> HIDE DEF r, z
  <1>2. K \in [Nat -> Int] /\ \A j \in Nat : K[j] = j - z
    BY <1>1, SMT
  <1> HIDE DEF K
  <1>3. \A j \in DOMAIN r : j \in Nat /\ K[j] <= 0 /\ (j = z => K[j] = 0)
    BY <1>1, <1>2, SMT
  <1>4. \A i, j \in DOMAIN r : i < j => K[i] < K[j]
    BY <1>1, <1>2, SMT
  <1>5. \A j \in DOMAIN r : r[j].followed => j = z
    BY <1>1, Zenon
  <1>6. Numbered(r, n, K)
    <2>1. \A j \in DOMAIN r : K[j] <= n
      BY <1>2, <1>3, SMT
    <2>2. \A j \in DOMAIN r : r[j].followed => 0 <= K[j]
      BY <1>3, <1>5, SMT
    <2>3. QED
      BY <1>2, <1>4, <2>1, <2>2, Zenon DEF Numbered
  <1>7. QED
    BY <1>6, Zenon DEF Counted, r

\* A text does not count, a critical task counts up to the cap.
LEMMA MoreCounted ==
  ASSUME NEW q \in Seq(Tasks), NEW t \in Tasks, NEW n \in 0..MAX_CONCURRENT_TASKS,
         NEW m \in {n, n + 1}, m <= MAX_CONCURRENT_TASKS,
         t.critical /\ n < MAX_CONCURRENT_TASKS => m = n + 1,
         ~t.followed, Counted(q, n)
  PROVE  Counted(Append(q, t), m)
  <1> DEFINE r == Append(q, t)
             z == Len(q) + 1
  <1>1. CASE n = MAX_CONCURRENT_TASKS
    <2>1. m = MAX_CONCURRENT_TASKS
      BY <1>1, CapIsPositive, SMT
    <2>2. QED
      BY <2>1 DEF Counted
  <1>2. CASE n # MAX_CONCURRENT_TASKS
    <2>1. PICK L : Numbered(q, n, L)
      BY <1>2 DEF Counted
    <2> DEFINE K == [j \in Nat |-> IF j = z THEN n + 1 ELSE L[j]]
    <2>2. L \in [Nat -> Int]
      BY <2>1 DEF Numbered
    <2>3. /\ z \in Nat /\ DOMAIN r = DOMAIN q \cup {z} /\ r[z] = t
          /\ \A j \in DOMAIN q : r[j] = q[j] /\ j < z /\ j \in Nat
      <3>1. Len(q) \in Nat
        BY AppendDef
      <3>2. z \in Nat
        BY <3>1, SMT
      <3>3. QED
        BY <3>2, AppendDef, Zenon
    <2> HIDE DEF r, z
    <2>4. /\ K \in [Nat -> Int] /\ K[z] = n + 1
          /\ \A j \in DOMAIN q : K[j] = L[j]
      BY <2>2, <2>3, CapIsPositive, SMT
    <2> HIDE DEF K
    <2>5. \A j \in DOMAIN r : r[j].critical => K[j] <= m
      <3>1. ASSUME NEW j \in DOMAIN q, q[j].critical PROVE K[j] <= m
        <4>1. L[j] <= n /\ L[j] \in Int /\ K[j] = L[j]
          BY <2>1, <2>2, <2>3, <2>4, <3>1, Zenon DEF Numbered
        <4>2. QED
          BY <4>1, SMT
      <3>2. t.critical => K[z] <= m
        BY <1>2, <2>4, CapIsPositive, SMT
      <3>3. QED
        BY <2>3, <3>1, <3>2, Zenon
    <2>6. \A j \in DOMAIN r : r[j].followed => 0 <= K[j]
      BY <2>1, <2>3, <2>4, Zenon DEF Numbered
    <2>7. ASSUME NEW i \in DOMAIN r, NEW j \in DOMAIN r, i < j, r[i].critical, r[j].critical
          PROVE  K[i] < K[j]
      <3>1. CASE j \in DOMAIN q /\ i \in DOMAIN q
        BY <2>1, <2>3, <2>4, <2>7, <3>1, Zenon DEF Numbered
      <3>2. CASE j = z /\ i \in DOMAIN q
        <4>1. L[i] <= n /\ L[i] \in Int /\ K[i] = L[i]
          BY <2>1, <2>2, <2>3, <2>4, <2>7, <3>2, Zenon DEF Numbered
        <4>2. QED
          BY <2>4, <3>2, <4>1, SMT
      <3>3. CASE i = z
        <4>1. j = z \/ (j < z /\ j \in Nat)
          BY <2>3, Zenon
        <4>2. QED
          BY <2>3, <2>7, <3>3, <4>1, SMT
      <3>4. QED
        BY <2>3, <3>1, <3>2, <3>3, Zenon
    <2>8. Numbered(r, m, K)
      BY <2>4, <2>5, <2>6, <2>7, Zenon DEF Numbered
    <2>9. QED
      BY <2>8, Zenon DEF Counted, r
  <1>3. QED
    BY <1>1, <1>2

\* A full queue of critical tasks with the followed one at its head is counted
\* up to the cap.
LEMMA FullCount ==
  ASSUME NEW q \in Seq(Tasks), NEW n \in 0..MAX_CONCURRENT_TASKS, Counted(q, n),
         Len(q) = MAX_CONCURRENT_TASKS, \A i \in DOMAIN q : q[i].critical, q[1].followed
  PROVE  n >= MAX_CONCURRENT_TASKS - 1
  <1>1. SUFFICES ASSUME n # MAX_CONCURRENT_TASKS PROVE n >= MAX_CONCURRENT_TASKS - 1
    BY CapIsPositive, SMT
  <1>2. PICK L : Numbered(q, n, L)
    BY <1>1 DEF Counted
  <1>3. DOMAIN q = 1..MAX_CONCURRENT_TASKS
    BY LenProperties, Zenon
  <1>4. L \in [Nat -> Int]
    BY <1>2 DEF Numbered
  <1>5. 0 <= L[1]
    <2>1. 1 \in DOMAIN q
      BY <1>3, CapIsPositive, SMT
    <2>2. QED
      BY <1>2, <2>1, Zenon DEF Numbered
  <1>6. \A i, j \in DOMAIN q : i < j => L[i] < L[j]
    BY <1>2, Zenon DEF Numbered
  <1> DEFINE T == {k \in 1..MAX_CONCURRENT_TASKS : L[k] < k - 1}
  <1>7. T = {}
    <2>1. SUFFICES ASSUME T # {} PROVE FALSE
      OBVIOUS
    <2>2. T \in SUBSET Nat
      BY CapIsPositive, SMT
    <2>3. PICK k \in T : \A j \in T : k <= j
      BY <2>1, <2>2, MinNat, Zenon
    <2>4. k \in 1..MAX_CONCURRENT_TASKS /\ L[k] < k - 1 /\ k - 1 \notin T
      BY <2>3, CapIsPositive, SMT
    <2>5. k # 1
      BY <1>4, <1>5, <2>4, SMT
    <2>6. k - 1 \in 1..MAX_CONCURRENT_TASKS /\ k - 1 < k
      BY <2>4, <2>5, CapIsPositive, SMT
    <2>7. ~(L[k - 1] < (k - 1) - 1)
      BY <2>4, <2>6, Zenon
    <2>8. L[k - 1] < L[k]
      BY <1>3, <1>6, <2>4, <2>6, Zenon
    <2>9. L[k - 1] \in Int /\ L[k] \in Int /\ k \in Int
      BY <1>4, <2>4, <2>6, CapIsPositive, SMT
    <2>10. QED
      BY <2>4, <2>7, <2>8, <2>9, SMT
  <1>8. MAX_CONCURRENT_TASKS \in DOMAIN q
    BY <1>3, CapIsPositive, SMT
  <1>9. L[MAX_CONCURRENT_TASKS] <= n
    BY <1>2, <1>8, Zenon DEF Numbered
  <1>10. ~(L[MAX_CONCURRENT_TASKS] < MAX_CONCURRENT_TASKS - 1)
    BY <1>3, <1>7, <1>8, Zenon
  <1>11. QED
    BY <1>4, <1>9, <1>10, CapIsPositive, SMT

\* What has to go is in the queue, and is critical only if everything is.
LEMMA VictimDef ==
  ASSUME NEW q \in Seq(Tasks), Len(q) # 0
  PROVE  /\ Victim(q) \in 1..Len(q)
         /\ q[Victim(q)].critical =>
              Victim(q) = 1 /\ \A i \in DOMAIN q : q[i].critical
  <1> DEFINE texts == {i \in DOMAIN q : ~q[i].critical}
  <1>1. Len(q) \in Nat /\ DOMAIN q = 1..Len(q)
    BY LenProperties, Zenon
  <1>2. CASE texts = {}
    <2>1. Victim(q) = 1
      BY <1>2, Zenon DEF Victim
    <2>2. QED
      BY <1>1, <1>2, <2>1, SMT
  <1>3. CASE texts # {}
    <2>1. texts \in SUBSET Nat
      BY <1>1, SMT
    <2>2. \E m \in texts : \A k \in texts : m <= k
      BY <1>3, <2>1, MinNat, Zenon
    <2>3. Min(texts) \in texts
      BY <2>2, Zenon DEF Min
    <2>4. Victim(q) = Min(texts)
      BY <1>3, Zenon DEF Victim
    <2>5. QED
      BY <1>1, <2>3, <2>4, Zenon
  <1>4. QED
    BY <1>2, <1>3

Room(q) == IF Len(q) = MAX_CONCURRENT_TASKS THEN RemoveAt(q, Victim(q)) ELSE q

Outcome(q, a) ==
  IF Len(q) = MAX_CONCURRENT_TASKS /\ q[Victim(q)].followed THEN "displaced" ELSE a

\* A task that ends, however it does, or that makes room.
LEMMA RemoveStep ==
  ASSUME NEW q, NEW a, NEW n, Queue(q, a, n), NEW v \in 1..Len(q),
         NEW b \in {"ended", "displaced"},
         b = "displaced" /\ q[v].followed => n >= MAX_CONCURRENT_TASKS - 1
  PROVE  /\ Queue(RemoveAt(q, v), IF q[v].followed THEN b ELSE a, n)
         /\ Len(RemoveAt(q, v)) < MAX_CONCURRENT_TASKS
  <1> DEFINE r == RemoveAt(q, v)
             c == IF q[v].followed THEN b ELSE a
  <1>1. QueueTyped(q, a, n) /\ OneFollowed(q)
    BY Zenon DEF Queue
  <1>2. q \in Seq(Tasks)
    BY <1>1 DEF QueueTyped
  <1>3. r \in Seq(Tasks) /\ Len(r) = Len(q) - 1
    BY <1>2, RemoveAtDef, Zenon
  <1>4. Len(r) < MAX_CONCURRENT_TASKS /\ Len(r) <= MAX_CONCURRENT_TASKS
    BY <1>1, <1>2, <1>3, CapIsPositive, SMT DEF QueueTyped
  <1>5. /\ OneFollowed(r)
        /\ q[v].followed => ~\E i \in DOMAIN r : r[i].followed
        /\ ~q[v].followed => ((\E i \in DOMAIN q : q[i].followed) <=> \E i \in DOMAIN r : r[i].followed)
    BY <1>1, <1>2, RemoveKeeps, Zenon
  <1>6. a = "pending" => Counted(r, n)
    BY <1>2, RemoveCounted, Zenon DEF Queue
  <1>7. c \in {"none", "pending", "ended", "displaced"}
    BY <1>1, Zenon DEF QueueTyped
  <1>8. c = "pending" <=> ~q[v].followed /\ a = "pending"
    BY Zenon
  <1>9. c = "displaced" => n >= MAX_CONCURRENT_TASKS - 1
    BY Zenon DEF Queue
  <1> HIDE DEF r, c
  <1>10. c = "pending" <=> \E i \in DOMAIN r : r[i].followed
    BY <1>5, <1>8, Zenon DEF Queue
  <1>11. QueueTyped(r, c, n)
    BY <1>1, <1>3, <1>4, <1>7, Zenon DEF QueueTyped
  <1>12. Queue(r, c, n)
    BY <1>5, <1>6, <1>8, <1>9, <1>10, <1>11, Zenon DEF Queue
  <1>13. QED
    BY <1>4, <1>12, Zenon DEF r, c

\* Room is made at the cost of the followed alert only when the cap is full of
\* critical tasks that are newer.
LEMMA RoomStep ==
  ASSUME NEW q, NEW a, NEW n, Queue(q, a, n)
  PROVE  /\ Queue(Room(q), Outcome(q, a), n)
         /\ Len(Room(q)) < MAX_CONCURRENT_TASKS
         /\ Outcome(q, a) = "pending" => a = "pending"
         /\ a # "pending" => Outcome(q, a) = a
  <1>1. q \in Seq(Tasks) /\ Len(q) <= MAX_CONCURRENT_TASKS /\ n \in 0..MAX_CONCURRENT_TASKS
    BY Zenon DEF Queue, QueueTyped
  <1>2. OneFollowed(q) /\ (a = "pending" <=> \E i \in DOMAIN q : q[i].followed)
    BY Zenon DEF Queue
  <1>3. CASE Len(q) = MAX_CONCURRENT_TASKS
    <2>1. Len(q) # 0
      BY <1>3, CapIsPositive, SMT
    <2>2. /\ Victim(q) \in 1..Len(q) /\ Victim(q) \in DOMAIN q
          /\ q[Victim(q)].critical => Victim(q) = 1 /\ \A i \in DOMAIN q : q[i].critical
      BY <1>1, <2>1, VictimDef, LenProperties, Zenon
    <2>3. ASSUME q[Victim(q)].followed PROVE n >= MAX_CONCURRENT_TASKS - 1
      <3>1. q[Victim(q)].critical
        BY <1>2, <2>2, <2>3, Zenon DEF OneFollowed
      <3>2. a = "pending"
        BY <1>2, <2>2, <2>3, Zenon
      <3>3. Counted(q, n)
        BY <3>2, Zenon DEF Queue
      <3>4. q[1].followed /\ \A i \in DOMAIN q : q[i].critical
        BY <2>2, <2>3, <3>1, Zenon
      <3>5. QED
        BY <1>1, <1>3, <3>3, <3>4, FullCount, Zenon
    <2>4. /\ Queue(RemoveAt(q, Victim(q)), IF q[Victim(q)].followed THEN "displaced" ELSE a, n)
          /\ Len(RemoveAt(q, Victim(q))) < MAX_CONCURRENT_TASKS
      BY <2>2, <2>3, RemoveStep, Zenon
    <2>5. /\ Room(q) = RemoveAt(q, Victim(q))
          /\ Outcome(q, a) = IF q[Victim(q)].followed THEN "displaced" ELSE a
      BY <1>3, Zenon DEF Room, Outcome
    <2>6. a # "pending" => ~q[Victim(q)].followed
      BY <1>2, <2>2, Zenon
    <2>7. QED
      BY <2>4, <2>5, <2>6, Zenon
  <1>4. CASE Len(q) # MAX_CONCURRENT_TASKS
    <2>1. Room(q) = q /\ Outcome(q, a) = a
      BY <1>4, Zenon DEF Room, Outcome
    <2>2. Len(q) < MAX_CONCURRENT_TASKS
      BY <1>1, <1>4, CapIsPositive, LenProperties, SMT
    <2>3. QED
      BY <2>1, <2>2, Zenon
  <1>5. QED
    BY <1>3, <1>4

\* A task is added where there is room.
LEMMA AddStep ==
  ASSUME NEW q, NEW a, NEW n, Queue(q, a, n), Len(q) < MAX_CONCURRENT_TASKS,
         NEW t \in Tasks, t.followed => t.critical /\ a # "pending",
         NEW m \in {n, n + 1}, m <= MAX_CONCURRENT_TASKS,
         a = "pending" /\ t.critical /\ n < MAX_CONCURRENT_TASKS => m = n + 1
  PROVE  Queue(Append(q, t), IF t.followed THEN "pending" ELSE a, m)
  <1> DEFINE r == Append(q, t)
             c == IF t.followed THEN "pending" ELSE a
  <1>1. /\ QueueTyped(q, a, n) /\ OneFollowed(q)
        /\ a = "pending" <=> \E i \in DOMAIN q : q[i].followed
    BY Zenon DEF Queue
  <1>2. q \in Seq(Tasks) /\ n \in 0..MAX_CONCURRENT_TASKS
        /\ a \in {"none", "pending", "ended", "displaced"}
    BY <1>1 DEF QueueTyped
  <1>3. m \in 0..MAX_CONCURRENT_TASKS /\ m \in Nat /\ n <= m
    BY <1>2, CapIsPositive, SMT
  <1>4. r \in Seq(Tasks) /\ Len(r) <= MAX_CONCURRENT_TASKS
    <2>1. r \in Seq(Tasks) /\ Len(r) = Len(q) + 1 /\ Len(q) \in Nat
      BY <1>2, AppendDef, Zenon
    <2>2. QED
      BY <2>1, CapIsPositive, SMT
  <1>5. /\ OneFollowed(r)
        /\ (\E i \in DOMAIN r : r[i].followed) <=> (t.followed \/ \E i \in DOMAIN q : q[i].followed)
    BY <1>1, <1>2, AppendFollowed, Zenon
  <1>6. c = "pending" <=> \E i \in DOMAIN r : r[i].followed
    BY <1>1, <1>5, Zenon
  <1>7. c = "pending" => Counted(r, m)
    <2>1. CASE t.followed
      BY <1>1, <1>2, <1>3, <2>1, FirstCounted, Zenon
    <2>2. CASE ~t.followed /\ a = "pending"
      <3>1. Counted(q, n)
        BY <2>2, Zenon DEF Queue
      <3>2. t.critical /\ n < MAX_CONCURRENT_TASKS => m = n + 1
        BY <2>2
      <3>3. QED
        BY <1>2, <2>2, <3>1, <3>2, MoreCounted, Zenon
    <2>3. QED
      BY <2>1, <2>2, Zenon
  <1>8. c = "displaced" => m >= MAX_CONCURRENT_TASKS - 1
    <2>1. c = "displaced" => a = "displaced"
      BY Zenon
    <2>2. a = "displaced" => n >= MAX_CONCURRENT_TASKS - 1
      BY Zenon DEF Queue
    <2>3. QED
      BY <1>2, <1>3, <2>1, <2>2, CapIsPositive, SMT
  <1>9. c \in {"none", "pending", "ended", "displaced"}
    BY <1>2, Zenon
  <1> HIDE DEF r, c
  <1>10. Queue(r, c, m)
    BY <1>3, <1>4, <1>5, <1>6, <1>7, <1>8, <1>9, Zenon DEF Queue, QueueTyped
  <1>11. QED
    BY <1>10, Zenon DEF r, c

\* One task fired: the invariant of the queue, and no alert is followed but the
\* one that is fired so.
LEMMA FireStep ==
  ASSUME NEW s, Queue(s.tasks, s.alert, s.newer),
         NEW t \in Tasks, t.followed => t.critical /\ s.alert # "pending"
  PROVE  /\ Queue(FireAndForget(s, t).tasks, FireAndForget(s, t).alert, FireAndForget(s, t).newer)
         /\ s.alert # "pending" /\ ~t.followed => FireAndForget(s, t).alert # "pending"
  <1> DEFINE a == Outcome(s.tasks, s.alert)
             m == IF t.critical /\ s.alert = "pending" /\ s.newer < MAX_CONCURRENT_TASKS
                  THEN s.newer + 1 ELSE s.newer
             c == IF t.followed THEN "pending" ELSE a
  <1>1. /\ Queue(Room(s.tasks), a, s.newer)
        /\ Len(Room(s.tasks)) < MAX_CONCURRENT_TASKS
        /\ a = "pending" => s.alert = "pending"
        /\ s.alert # "pending" => a = s.alert
    BY RoomStep, Zenon
  <1>2. s.newer \in 0..MAX_CONCURRENT_TASKS
    BY Zenon DEF Queue, QueueTyped
  <1>3. /\ FireAndForget(s, t).tasks = Append(Room(s.tasks), t)
        /\ FireAndForget(s, t).alert = c
        /\ FireAndForget(s, t).newer = m
    BY Zenon DEF FireAndForget, Room, Outcome
  <1> HIDE DEF a
  <1>4. /\ m \in {s.newer, s.newer + 1} /\ m <= MAX_CONCURRENT_TASKS
        /\ a = "pending" /\ t.critical /\ s.newer < MAX_CONCURRENT_TASKS => m = s.newer + 1
    BY <1>1, <1>2, CapIsPositive, SMT
  <1>5. t.followed => t.critical /\ a # "pending"
    BY <1>1, Zenon
  <1> HIDE DEF m
  <1>6. Queue(Append(Room(s.tasks), t), c, m)
    BY <1>1, <1>4, <1>5, AddStep, Zenon
  <1>7. QED
    BY <1>1, <1>3, <1>6, Zenon

\* The channels have an order.
LEMMA NotifiersType == Notifiers \in [1..Cardinality(Channels) -> Channels]
  <1> DEFINE D == 1..Cardinality(Channels)
  <1>1. ExistsBijection(D, Channels)
    BY DispatcherAssumption, FS_CardinalityType, Zenon
  <1>2. PICK f \in [D -> Channels] : IsInjective(f)
    BY <1>1, Zenon DEF ExistsBijection, Bijection, Injection
  <1>3. QED
    BY <1>2, Zenon DEF Notifiers, SetToSeq

\* The fan-out up to task m, as the function that FannedOut computes.
Queued == [tasks |-> tasks, alert |-> alert, newer |-> newer]

Channel(n, critical, followed) ==
  [channel |-> Notifiers[n], critical |-> critical, followed |-> n = followed]

Fires(f, m, critical, followed) ==
  f = [n \in 0..m |-> IF n = 0 THEN Queued
                      ELSE FireAndForget(f[n - 1], Channel(n, critical, followed))]

\* There is such a function, for as many tasks as there are.
LEMMA FiresExists ==
  ASSUME NEW critical, NEW followed
  PROVE  \A m \in Nat : \E f : Fires(f, m, critical, followed)
  <1> DEFINE T == {m \in Nat : ~\E f : Fires(f, m, critical, followed)}
  <1>1. SUFFICES ASSUME T # {} PROVE FALSE
    OBVIOUS
  <1>2. T \in SUBSET Nat
    OBVIOUS
  <1>3. PICK m \in T : \A k \in T : m <= k
    BY <1>1, <1>2, MinNat, Zenon
  <1>4. m \in Nat /\ ~\E f : Fires(f, m, critical, followed)
    BY <1>3
  <1>5. CASE m = 0
    <2> DEFINE g == [n \in 0..0 |-> Queued]
    <2>1. \A n \in 0..0 : n = 0
      BY SMT
    <2>2. g = [n \in 0..0 |-> IF n = 0 THEN Queued
                               ELSE FireAndForget(g[n - 1], Channel(n, critical, followed))]
      BY <2>1, Zenon
    <2>3. Fires(g, m, critical, followed)
      BY <1>5, <2>2, Zenon DEF Fires
    <2>4. QED
      BY <1>4, <2>3, Zenon
  <1>6. CASE m # 0
    <2>1. m - 1 \in Nat /\ ~(m <= m - 1)
      BY <1>4, <1>6, SMT
    <2>2. m - 1 \notin T
      BY <1>3, <2>1, Zenon
    <2>3. PICK f : Fires(f, m - 1, critical, followed)
      BY <2>1, <2>2, Zenon
    <2> DEFINE Nth(h, n) == IF n = 0 THEN Queued
                              ELSE FireAndForget(h[n - 1], Channel(n, critical, followed))
               g == [n \in 0..m |-> Nth(f, n)]
    <2>4. \A n \in 0..(m - 1) : f[n] = Nth(f, n)
      <3>1. f = [n \in 0..(m - 1) |-> Nth(f, n)]
        BY <2>3, Zenon DEF Fires
      <3>2. QED
        BY <3>1, Zenon
    <2>5. \A n \in 0..(m - 1) : n \in 0..m
      BY <1>4, SMT
    <2>6. \A n \in 0..m : n # 0 => n - 1 \in 0..(m - 1)
      BY <1>4, SMT
    <2>7. \A n \in 0..m : n # 0 => g[n - 1] = f[n - 1]
      <3>1. \A k \in 0..(m - 1) : g[k] = Nth(f, k)
        BY <2>5, Zenon
      <3> HIDE DEF g, Nth
      <3>2. \A k \in 0..(m - 1) : g[k] = f[k]
        BY <3>1, <2>4, Zenon
      <3>3. QED
        BY <3>2, <2>6, Zenon
    <2>8. \A n \in 0..m : Nth(g, n) = Nth(f, n)
      <3>1. ASSUME NEW n \in 0..m PROVE Nth(g, n) = Nth(f, n)
        <4>1. CASE n = 0
          BY <4>1, Zenon
        <4>2. CASE n # 0
          <5>1. g[n - 1] = f[n - 1]
            BY <2>7, <4>2, Zenon
          <5> HIDE DEF g
          <5>2. QED
            BY <5>1, Zenon
        <4>3. QED
          BY <4>1, <4>2, Zenon
      <3>2. QED
        BY <3>1, Zenon
    <2>9. g = [n \in 0..m |-> Nth(f, n)]
      OBVIOUS
    <2> HIDE DEF g
    <2>10. g = [n \in 0..m |-> Nth(g, n)]
      <3> HIDE DEF Nth
      <3>1. QED
        BY <2>8, <2>9, Zenon
    <2>11. Fires(g, m, critical, followed)
      BY <2>10, Zenon DEF Fires
    <2>12. QED
      BY <1>4, <2>11, Zenon
  <1>7. QED
    BY <1>5, <1>6

LEMMA FannedOutIs ==
  ASSUME NEW critical, NEW followed
  PROVE  \E f : /\ Fires(f, Cardinality(Channels), critical, followed)
                /\ FannedOut(critical, followed) = f[Cardinality(Channels)]
  <1> DEFINE f == CHOOSE g : Fires(g, Cardinality(Channels), critical, followed)
  <1>1. Fires(f, Cardinality(Channels), critical, followed)
    BY CapIsPositive, FiresExists, Zenon
  <1>2. FannedOut(critical, followed) = f[Cardinality(Channels)]
    BY Zenon DEF FannedOut, Fires, Queued, Channel
  <1> HIDE DEF f
  <1>3. QED
    BY <1>1, <1>2, Zenon

\* One alert of the fan-out may be followed, and only if none is.
LEMMA FanOutStep ==
  ASSUME QueueInv, NEW critical \in BOOLEAN, NEW followed \in 0..Cardinality(Channels),
         followed # 0 => critical /\ alert # "pending"
  PROVE  Queue(FannedOut(critical, followed).tasks, FannedOut(critical, followed).alert,
               FannedOut(critical, followed).newer)
  <1> DEFINE C == Cardinality(Channels)
             t(n) == Channel(n, critical, followed)
  <1>0. C \in Nat
    BY CapIsPositive
  <1>1. PICK f : Fires(f, C, critical, followed) /\ FannedOut(critical, followed) = f[C]
    BY FannedOutIs, Zenon
  <1> DEFINE Good(s, m) == /\ Queue(s.tasks, s.alert, s.newer)
                           /\ m < followed => s.alert # "pending"
             T == {m \in 0..C : ~Good(f[m], m)}
  <1>2. \A n \in 0..C : f[n] = IF n = 0 THEN Queued ELSE FireAndForget(f[n - 1], t(n))
    <2>1. f = [n \in 0..C |-> IF n = 0 THEN Queued ELSE FireAndForget(f[n - 1], t(n))]
      BY <1>1, Zenon DEF Fires
    <2>2. QED
      BY <2>1, Zenon
  <1>3. Good(f[0], 0)
    <2>1. 0 \in 0..C
      BY <1>0, SMT
    <2>2. f[0] = Queued
      BY <1>2, <2>1, Zenon
    <2>3. Queued.tasks = tasks /\ Queued.alert = alert /\ Queued.newer = newer
      BY Zenon DEF Queued
    <2>4. 0 < followed => followed # 0
      BY SMT
    <2>5. QED
      BY <2>2, <2>3, <2>4, Zenon DEF QueueInv
  <1>4. ASSUME NEW n \in 1..C, Good(f[n - 1], n - 1) PROVE Good(f[n], n)
    <2>1. n \in 0..C /\ n # 0
      BY <1>0, SMT
    <2>2. f[n] = FireAndForget(f[n - 1], t(n))
      BY <1>2, <2>1, Zenon
    <2>3. t(n) \in Tasks
      <3>1. Notifiers[n] \in Channels
        BY NotifiersType, Zenon
      <3>2. (n = followed) \in BOOLEAN
        OBVIOUS
      <3>3. QED
        BY <3>1, <3>2, Zenon DEF Tasks, Channel
    <2>4. t(n).critical = critical /\ (t(n).followed <=> n = followed)
      BY Zenon DEF Channel
    <2>5. n = followed => critical /\ n - 1 < followed
      BY <2>1, SMT
    <2>6. n < followed => n - 1 < followed /\ n # followed
      BY SMT
    <2> HIDE DEF t
    <2>7. t(n).followed => t(n).critical /\ f[n - 1].alert # "pending"
      BY <1>4, <2>4, <2>5, Zenon
    <2>8. /\ Queue(f[n].tasks, f[n].alert, f[n].newer)
          /\ f[n - 1].alert # "pending" /\ ~t(n).followed => f[n].alert # "pending"
      BY <1>4, <2>2, <2>3, <2>7, FireStep, Zenon
    <2>9. QED
      BY <1>4, <2>4, <2>6, <2>8, Zenon
  <1> HIDE DEF Good
  <1>5. T = {}
    <2>1. SUFFICES ASSUME T # {} PROVE FALSE
      OBVIOUS
    <2>2. T \in SUBSET Nat
      BY <1>0, SMT
    <2>3. PICK m \in T : \A k \in T : m <= k
      BY <2>1, <2>2, MinNat, Zenon
    <2>4. m \in 0..C /\ ~Good(f[m], m)
      BY <2>3, Zenon
    <2>5. m # 0
      BY <1>3, <2>4, Zenon
    <2>6. m \in 1..C /\ m - 1 \in 0..C /\ ~(m <= m - 1)
      BY <1>0, <2>4, <2>5, SMT
    <2>7. Good(f[m - 1], m - 1)
      BY <2>3, <2>6, Zenon
    <2>8. QED
      BY <1>4, <2>4, <2>6, <2>7, Zenon
  <1>6. C \in 0..C
    BY <1>0, SMT
  <1>7. Good(f[C], C)
    BY <1>5, <1>6, Zenon
  <1>8. QED
    BY <1>1, <1>7, Zenon DEF Good

LEMMA DispatchStep ==
  ASSUME QueueInv, NEW critical \in BOOLEAN, NEW followed \in 0..Cardinality(Channels),
         followed # 0 => critical /\ alert # "pending", Dispatch(critical, followed)
  PROVE  QueueInv'
  <1>1. /\ tasks' = FannedOut(critical, followed).tasks
        /\ alert' = FannedOut(critical, followed).alert
        /\ newer' = FannedOut(critical, followed).newer
    BY Zenon DEF Dispatch
  <1>2. Queue(tasks', alert', newer')
    BY <1>1, FanOutStep, Zenon
  <1>3. QED
    BY <1>2, Zenon DEF QueueInv, Queue, QueueTyped, OneFollowed, Counted, Numbered

LEMMA DispatchTextStep == QueueInv /\ DispatchText => QueueInv'
  <1> SUFFICES ASSUME QueueInv, DispatchText PROVE QueueInv'
    OBVIOUS
  <1>1. 0 \in 0..Cardinality(Channels)
    BY CapIsPositive, SMT
  <1>2. QED
    BY <1>1, DispatchStep, Zenon DEF DispatchText

LEMMA DispatchAlertStep == QueueInv /\ DispatchAlert => QueueInv'
  <1> SUFFICES ASSUME QueueInv, DispatchAlert PROVE QueueInv'
    OBVIOUS
  <1>1. 0 \in 0..Cardinality(Channels) /\ 1..Cardinality(Channels) \subseteq 0..Cardinality(Channels)
    BY CapIsPositive, SMT
  <1>2. CASE Dispatch(TRUE, 0)
    BY <1>1, <1>2, DispatchStep, Zenon
  <1>3. CASE alert = "none" /\ \E n \in 1..Cardinality(Channels) : Dispatch(TRUE, n)
    BY <1>1, <1>3, DispatchStep, Zenon
  <1>4. QED
    BY <1>2, <1>3, Zenon DEF DispatchAlert

LEMMA TaskEndsStep == QueueInv /\ TaskEnds => QueueInv'
  <1> SUFFICES ASSUME QueueInv, TaskEnds PROVE QueueInv'
    OBVIOUS
  <1>1. PICK i \in DOMAIN tasks : TaskFails(i) \/ TaskSucceeds(i)
    BY Zenon DEF TaskEnds
  <1>2. /\ tasks' = RemoveAt(tasks, i) /\ newer' = newer
        /\ alert' = IF tasks[i].followed THEN "ended" ELSE alert
    BY <1>1, Zenon DEF TaskFails, TaskSucceeds
  <1>3. Queue(tasks, alert, newer) /\ tasks \in Seq(Tasks)
    BY Zenon DEF QueueInv, Queue, QueueTyped
  <1>4. i \in 1..Len(tasks)
    BY <1>3, LenProperties, Zenon
  <1>5. Queue(RemoveAt(tasks, i), IF tasks[i].followed THEN "ended" ELSE alert, newer)
    BY <1>3, <1>4, RemoveStep, Zenon
  <1>6. Queue(tasks', alert', newer')
    BY <1>2, <1>5, Zenon
  <1>7. QED
    BY <1>6, Zenon DEF QueueInv

LEMMA EmptyQueue == Queue(<<>>, "none", 0)
  BY CapIsPositive, SMT DEF Queue, QueueTyped, OneFollowed

LEMMA ForgetStep == Forget => QueueInv'
  BY EmptyQueue, Zenon DEF Forget, QueueInv

LEMMA QueueSameStep == QueueInv /\ UNCHANGED <<tasks, alert, newer>> => QueueInv'
  BY Zenon DEF QueueInv

LEMMA QueueInit == Init => QueueInv
  BY EmptyQueue, Zenon DEF Init, DispatcherInit, QueueInv

LEMMA QueueNext == QueueInv /\ [Next]_vars => QueueInv'
  <1> SUFFICES ASSUME QueueInv, [Next]_vars PROVE QueueInv'
    OBVIOUS
  <1>1. CASE UNCHANGED dispatching
    BY <1>1, QueueSameStep, SMT DEF dispatching
  <1>2. CASE DispatchText \/ DispatchAlert \/ TaskEnds \/ Forget
    BY <1>2, DispatchTextStep, DispatchAlertStep, TaskEndsStep, ForgetStep, Zenon
  <1>3. CASE ServiceChanges
    BY <1>3, QueueSameStep, SMT DEF ServiceChanges
  <1>4. CASE Supervise
    BY <1>1, <1>2, <1>4, Zenon
       DEF Supervise, SupervisorBegins, FindsItDown, FindsItRunning, WatchOver, BackoffOver, Restart
  <1>5. CASE Command
    <2>1. PICK u \in Users : Refused(u) \/ Look(u) \/ AskStop(u) \/ CancelStop(u) \/ Confirm(u)
      BY <1>5, Zenon DEF Command
    <2>2. UNCHANGED dispatching
      BY <2>1, Zenon DEF Refused, Look, AskStop, CancelStop, Confirm, Accepted
    <2>3. QED
      BY <1>1, <2>2
  <1>6. CASE BotStart \/ UpdaterDies \/ Down \/ StopEnds \/ TimePasses \/ MinutePasses
    BY <1>1, <1>2, <1>6, Zenon DEF BotStart, UpdaterDies, Down, StopEnds, TimePasses, MinutePasses
  <1>7. CASE Messages
    BY <1>2, <1>3, <1>7, Zenon DEF Messages
  <1>8. CASE UNCHANGED vars
    BY <1>1, <1>8, SMT DEF vars
  <1>9. QED
    BY <1>4, <1>5, <1>6, <1>7, <1>8, Zenon DEF Next

-----------------------------------------------------------------------------
\* What the bot remembers of a request to stop is fresh only while the user's own
\* request is: it was made, not withdrawn, not used and not older than 30 seconds.
THEOREM RememberedRequestIsLive == Spec => []IInv
  <1>1. QED
    BY InitIInv, NextStep, PTL DEF Spec

\* The bot cancels a print only for an authorized user with a request of the last
\* thirty seconds, whatever the supervisor, other users and the clock do meanwhile.
THEOREM StopOnlyOnRequest == Spec => StopNeedsRequest
  <1>1. IInv /\ [Next]_vars => [RequestMade]_vars
    BY NextStep
  <1>2. QED
    BY <1>1, RememberedRequestIsLive, PTL DEF Spec, StopNeedsRequest, RequestMade

\* What fire and forget keeps of the queue, for any channels and any cap: at most
\* the cap in tasks, one alert followed, and every newer critical task counted.
THEOREM QueueInvariant == Spec => []QueueInv
  <1>1. QED
    BY QueueInit, QueueNext, PTL DEF Spec

\* A critical alert leaves the queue only at its own end or when newer critical
\* tasks fill the cap: no number of texts, and no fan-out, pushes it out.
THEOREM AlertIsKept == Spec => []AlertKept
  <1>1. QueueInv => AlertKept
    BY Zenon DEF QueueInv, Queue, AlertKept
  <1>2. QED
    BY <1>1, QueueInvariant, PTL
===============================================================================
