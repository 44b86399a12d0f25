----------------------------- MODULE Sessions_proofs -----------------------------
(***************************************************************************)
(* Proofs about Sessions: a logout is final, the two stores agree, and      *)
(* together they implement Login, for any number of tokens and requests and *)
(* any cap.                                                                *)
(***************************************************************************)
EXTENDS Sessions, FiniteSetTheorems, TLAPS

Doing == [at : Steps, token : Tokens \cup {NoToken}, victim : Tokens \cup {NoToken},
          known : SUBSET Tokens]

LoggingIn == {"insert", "inserted", "evict"}

\* Whatever is stored was drawn once; both stores are finite.
Typed ==
  /\ sessions \subseteq minted /\ rows \subseteq minted /\ minted \subseteq Tokens
  /\ IsFiniteSet(sessions) /\ IsFiniteSet(rows)
  /\ age \in [Tokens -> 0..2] /\ rowAge \in [Tokens -> 0..2]
  /\ request \in [Requests -> Doing]
  /\ issued \subseteq minted /\ out \subseteq issued
  /\ leftover \subseteq minted /\ raced \subseteq minted
  /\ booting \in BOOLEAN

\* A token is in the hands of one login until that login is answered, and in
\* memory only after its row was written.
LoginsApart ==
  /\ \A r \in Requests : request[r].at \in LoggingIn => request[r].token \in minted \ issued
  /\ \A r \in Requests : request[r].at \in {"insert", "inserted"} => request[r].token \notin sessions
  /\ \A r, q \in Requests :
       /\ r # q /\ request[r].at \in LoggingIn /\ request[q].at \in LoggingIn
       => request[r].token # request[q].token
  /\ \A r \in Requests : At(r, "inserted") => request[r].token \in rows \cup raced

\* A victim is out of memory before its row is deleted, and no login is about to add it.
VictimsPopped ==
  \A r \in Requests : At(r, "evict") =>
    /\ request[r].victim \in minted \ sessions
    /\ \A q \in Requests :
         request[q].at \in {"insert", "inserted"} => request[q].token # request[r].victim

\* A logout acts on tokens that browsers hold, and their rows do not come back.
LogoutsHold ==
  /\ \A r \in Requests : request[r].at \in {"delete", "deleted"} => request[r].token \in issued
  /\ \A r \in Requests : At(r, "deleted") => request[r].token \notin rows
  /\ \A r \in Requests : request[r].at \in {"deleteAll", "deletedAll"} => request[r].known \subseteq issued
  /\ \A r \in Requests : At(r, "deletedAll") => request[r].known \cap rows = {}

\* No request is taken before the table is trimmed.
BootsFirst ==
  booting => Cardinality(sessions) > MAX_SESSIONS /\ \A r \in Requests : At(r, "idle")

Capped == booting \/ Cardinality(sessions) <= MAX_SESSIONS

IInv ==
  /\ Typed
  /\ LoginsApart /\ VictimsPopped /\ LogoutsHold /\ BootsFirst /\ Capped
  /\ LogoutIsFinal /\ StoresAgree

-----------------------------------------------------------------------------
(***************************************************************************)
(* Requests and stores.                                                    *)
(***************************************************************************)

\* One request moves on, the others stay where they are.
Becomes(r, at, token, victim, known) ==
  /\ request' \in [Requests -> Doing]
  /\ \A q \in Requests : q # r => request'[q] = request[q]
  /\ request'[r].at = at /\ request'[r].token = token
  /\ request'[r].victim = victim /\ request'[r].known = known

LEMMA Fields ==
  ASSUME Typed, NEW r \in Requests
  PROVE  /\ request[r] \in Doing
         /\ request[r].at \in Steps
         /\ request[r].token \in Tokens \cup {NoToken}
         /\ request[r].victim \in Tokens \cup {NoToken}
         /\ request[r].known \in SUBSET Tokens
  <1>1. request[r] \in Doing
    BY DEF Typed
  <1> QED BY <1>1 DEF Doing

LEMMA SetTo ==
  ASSUME Typed, NEW r \in Requests, NEW d \in Doing, request' = [request EXCEPT ![r] = d]
  PROVE  Becomes(r, d.at, d.token, d.victim, d.known)
  <1>1. request' \in [Requests -> Doing]
    BY DEF Typed
  <1>2. request'[r] = d /\ \A q \in Requests : q # r => request'[q] = request[q]
    BY DEF Typed
  <1> QED BY <1>1, <1>2 DEF Becomes

LEMMA GotoBecomes ==
  ASSUME Typed, NEW r \in Requests, NEW step \in Steps, Goto(r, step)
  PROVE  Becomes(r, step, request[r].token, request[r].victim, request[r].known)
  <1> DEFINE d == [request[r] EXCEPT !.at = step]
  <1>1. d \in Doing
    BY Fields DEF Doing
  <1>2. request' = [request EXCEPT ![r] = d]
    BY DEF Goto
  <1>3. /\ d.at = step /\ d.token = request[r].token
        /\ d.victim = request[r].victim /\ d.known = request[r].known
    BY Fields DEF Doing
  <1> HIDE DEF d
  <1>4. Becomes(r, d.at, d.token, d.victim, d.known)
    BY <1>1, <1>2, SetTo
  <1> QED BY <1>3, <1>4

LEMMA IdleDoing == Idle \in Doing
  BY DEF Idle, Doing, Steps

LEMMA AnswerBecomes ==
  ASSUME Typed, NEW r \in Requests, Answer(r)
  PROVE  Becomes(r, "idle", NoToken, NoToken, {})
  <1>1. Becomes(r, Idle.at, Idle.token, Idle.victim, Idle.known)
    BY IdleDoing, SetTo DEF Answer
  <1> QED BY <1>1 DEF Idle

LEMMA StartBecomes ==
  ASSUME Typed, NEW r \in Requests, NEW step \in Steps, NEW t \in Tokens,
         request' = [request EXCEPT ![r] = [Idle EXCEPT !.at = step, !.token = t]]
  PROVE  Becomes(r, step, t, NoToken, {})
  <1> DEFINE d == [Idle EXCEPT !.at = step, !.token = t]
  <1>1. d \in Doing /\ d.at = step /\ d.token = t /\ d.victim = NoToken /\ d.known = {}
    BY DEF Idle, Doing
  <1> HIDE DEF d
  <1>2. Becomes(r, d.at, d.token, d.victim, d.known)
    BY <1>1, SetTo DEF d
  <1> QED BY <1>1, <1>2

LEMMA StartAllBecomes ==
  ASSUME Typed, NEW r \in Requests, NEW known \in SUBSET Tokens,
         request' = [request EXCEPT ![r] = [Idle EXCEPT !.at = "deleteAll", !.known = known]]
  PROVE  Becomes(r, "deleteAll", NoToken, NoToken, known)
  <1> DEFINE d == [Idle EXCEPT !.at = "deleteAll", !.known = known]
  <1>1. /\ d \in Doing /\ d.at = "deleteAll" /\ d.token = NoToken
        /\ d.victim = NoToken /\ d.known = known
    BY DEF Idle, Doing, Steps
  <1> HIDE DEF d
  <1>2. Becomes(r, d.at, d.token, d.victim, d.known)
    BY <1>1, SetTo DEF d
  <1> QED BY <1>1, <1>2

LEMMA EvictBecomes ==
  ASSUME Typed, NEW r \in Requests, NEW v \in Tokens,
         request' = [request EXCEPT ![r].at = "evict", ![r].victim = v]
  PROVE  Becomes(r, "evict", request[r].token, v, request[r].known)
  <1> DEFINE d == [request[r] EXCEPT !.at = "evict", !.victim = v]
  <1>1. d \in Doing
    BY Fields DEF Doing, Steps
  <1>2. request' = [request EXCEPT ![r] = d]
    BY DEF Typed
  <1>3. /\ d.at = "evict" /\ d.token = request[r].token
        /\ d.victim = v /\ d.known = request[r].known
    BY Fields DEF Doing
  <1> HIDE DEF d
  <1>4. Becomes(r, d.at, d.token, d.victim, d.known)
    BY <1>1, <1>2, SetTo
  <1> QED BY <1>3, <1>4

LEMMA Count ==
  ASSUME NEW S, IsFiniteSet(S), NEW t
  PROVE  /\ Cardinality(S) \in Nat
         /\ IsFiniteSet(S \cup {t}) /\ IsFiniteSet(S \ {t})
         /\ t \notin S => Cardinality(S \cup {t}) = Cardinality(S) + 1
         /\ t \in S => Cardinality(S \ {t}) = Cardinality(S) - 1
  BY FS_CardinalityType, FS_AddElement, FS_RemoveElement

LEMMA CapIsNumber == MAX_SESSIONS \in Nat /\ MAX_SESSIONS > 0 /\ NoToken \notin Tokens
  BY SessionsAssumption

LEMMA EvictsOrAnswers ==
  ASSUME Typed, NEW r \in Requests, NEW S \in SUBSET Tokens, EvictOrAnswer(r, S)
  PROVE  \/ \E victim \in S :
              /\ Cardinality(S) > MAX_SESSIONS
              /\ sessions' = S \ {victim} /\ issued' = issued
              /\ age' \in [Tokens -> 0..2]
              /\ Becomes(r, "evict", request[r].token, victim, request[r].known)
         \/ /\ ~(Cardinality(S) > MAX_SESSIONS)
            /\ sessions' = S /\ issued' = issued \cup {request[r].token}
            /\ age' = age
            /\ Becomes(r, "idle", NoToken, NoToken, {})
  <1>1. CASE Cardinality(S) > MAX_SESSIONS
    <2>1. PICK victim \in Oldest(S) :
            /\ sessions' = S \ {victim}
            /\ age' = [age EXCEPT ![victim] = 0]
            /\ request' = [request EXCEPT ![r].at = "evict", ![r].victim = victim]
            /\ UNCHANGED issued
      BY <1>1 DEF EvictOrAnswer
    <2>2. victim \in S /\ victim \in Tokens
      BY DEF Oldest
    <2>3. Becomes(r, "evict", request[r].token, victim, request[r].known)
      BY <2>1, <2>2, EvictBecomes
    <2>4. 0 \in 0..2
      OBVIOUS
    <2>5. age' \in [Tokens -> 0..2]
      BY <2>1, <2>4, Zenon DEF Typed
    <2> QED BY <1>1, <2>1, <2>2, <2>3, <2>5
  <1>2. CASE ~(Cardinality(S) > MAX_SESSIONS)
    BY <1>2, AnswerBecomes DEF EvictOrAnswer
  <1> QED BY <1>1, <1>2

LEMMA NobodyBoots ==
  ASSUME IInv, NEW r \in Requests, ~At(r, "idle")
  PROVE  booting = FALSE /\ Cardinality(sessions) <= MAX_SESSIONS
  BY DEF IInv, BootsFirst, Capped, Typed

LEMMA Ages ==
  ASSUME Typed, NEW S \in SUBSET Tokens
  PROVE  /\ [t \in Tokens |-> IF t \in S THEN 0 ELSE age[t]] \in [Tokens -> 0..2]
         /\ [t \in Tokens |-> IF t \in S THEN 0 ELSE rowAge[t]] \in [Tokens -> 0..2]
  BY DEF Typed

LEMMA Deleted ==
  ASSUME Typed, NEW S \in SUBSET Tokens, Delete(S)
  PROVE  rows' = rows \ S /\ IsFiniteSet(rows') /\ rowAge' \in [Tokens -> 0..2]
  BY Ages, FS_Difference DEF Delete, Typed

LEMMA Forgotten ==
  ASSUME Typed, NEW S \in SUBSET Tokens, Forget(S)
  PROVE  /\ sessions' = sessions \ S /\ IsFiniteSet(sessions')
         /\ Cardinality(sessions') <= Cardinality(sessions)
         /\ age' \in [Tokens -> 0..2]
  <1>1. sessions' = sessions \ S /\ age' \in [Tokens -> 0..2]
    BY Ages DEF Forget
  <1> QED BY <1>1, FS_Difference, FS_Subset DEF Typed
-----------------------------------------------------------------------------
(***************************************************************************)
(* Each action preserves the invariant.                                    *)
(***************************************************************************)

LEMMA LoginKeeps ==
  ASSUME IInv, NEW r \in Requests, Login(r)
  PROVE  IInv'
  <1> USE DEF At
  <1>1. PICK t \in Tokens \ minted :
          /\ request' = [request EXCEPT ![r] = [Idle EXCEPT !.at = "insert", !.token = t]]
          /\ minted' = minted \cup {t}
    BY DEF Login
  <1>2. Becomes(r, "insert", t, NoToken, {})
    BY <1>1, StartBecomes DEF IInv, Steps
  <1>3. /\ UNCHANGED <<sessions, rows, age, rowAge, issued, booting, out, leftover, raced>>
        /\ ~booting /\ request[r].at = "idle"
    BY DEF Login, store, ghosts
  <1>4. Typed'
    BY <1>1, <1>2, <1>3 DEF IInv, Typed, Becomes
  <1>5. LoginsApart'
    BY <1>1, <1>2, <1>3 DEF IInv, Typed, LoginsApart, LoggingIn, Becomes
  <1>6. VictimsPopped'
    BY <1>1, <1>2, <1>3 DEF IInv, Typed, VictimsPopped, Becomes
  <1>7. LogoutsHold'
    BY <1>1, <1>2, <1>3 DEF IInv, Typed, LogoutsHold, Becomes
  <1>8. BootsFirst' /\ Capped'
    BY <1>3 DEF IInv, BootsFirst, Capped
  <1>9. LogoutIsFinal'
    BY <1>3 DEF IInv, LogoutIsFinal
  <1>10. StoresAgree'
    BY <1>1, <1>2, <1>3 DEF IInv, StoresAgree, Becomes
  <1> QED BY <1>4, <1>5, <1>6, <1>7, <1>8, <1>9, <1>10 DEF IInv

LEMMA InsertKeeps ==
  ASSUME IInv, NEW r \in Requests, Insert(r)
  PROVE  IInv'
  <1> USE DEF At
  <1> DEFINE t == request[r].token
  <1>0. /\ UNCHANGED <<sessions, age, rowAge, minted, issued, booting, out, leftover, raced>>
        /\ request[r].at = "insert" /\ t \in minted \ issued /\ t \notin sessions
    BY DEF Insert, ghosts, IInv, LoginsApart, LoggingIn
  <1>1. CASE rows' = rows \cup {t} /\ Goto(r, "inserted")
    <2>1. Becomes(r, "inserted", t, request[r].victim, request[r].known)
      BY <1>1, GotoBecomes DEF IInv, Steps
    <2>2. Typed'
      BY <1>0, <1>1, <2>1, Count DEF IInv, Typed, Becomes
    <2>3. LoginsApart'
      BY <1>0, <1>1, <2>1 DEF IInv, Typed, LoginsApart, LoggingIn, Becomes
    <2>4. VictimsPopped'
      BY <1>0, <1>1, <2>1 DEF IInv, VictimsPopped, Becomes
    <2>5. LogoutsHold'
      BY <1>0, <1>1, <2>1 DEF IInv, LogoutsHold, Becomes
    <2>6. BootsFirst' /\ Capped'
      BY <1>0, NobodyBoots DEF BootsFirst, Capped
    <2>7. LogoutIsFinal'
      BY <1>0, <1>1 DEF IInv, Typed, LogoutIsFinal
    <2>8. StoresAgree'
      BY <1>0, <1>1, <2>1 DEF IInv, StoresAgree, Becomes
    <2> QED BY <2>2, <2>3, <2>4, <2>5, <2>6, <2>7, <2>8 DEF IInv
  <1>2. CASE Answer(r) /\ UNCHANGED rows
    <2>1. Becomes(r, "idle", NoToken, NoToken, {})
      BY <1>2, AnswerBecomes DEF IInv
    <2>2. Typed'
      BY <1>0, <1>2, <2>1 DEF IInv, Typed, Becomes
    <2>3. LoginsApart'
      BY <1>0, <1>2, <2>1 DEF IInv, LoginsApart, LoggingIn, Becomes
    <2>4. VictimsPopped'
      BY <1>0, <1>2, <2>1 DEF IInv, VictimsPopped, Becomes
    <2>5. LogoutsHold'
      BY <1>0, <1>2, <2>1 DEF IInv, LogoutsHold, Becomes
    <2>6. BootsFirst' /\ Capped'
      BY <1>0, NobodyBoots DEF BootsFirst, Capped
    <2>7. LogoutIsFinal'
      BY <1>0, <1>2 DEF IInv, LogoutIsFinal
    <2>8. StoresAgree'
      BY <1>0, <1>2, <2>1 DEF IInv, StoresAgree, Becomes
    <2> QED BY <2>2, <2>3, <2>4, <2>5, <2>6, <2>7, <2>8 DEF IInv
  <1> QED BY <1>1, <1>2 DEF Insert

LEMMA AddKeeps ==
  ASSUME IInv, NEW r \in Requests, Add(r)
  PROVE  IInv'
  <1> USE DEF At
  <1> DEFINE t == request[r].token
             S == sessions \cup {t}
  <1>0. /\ UNCHANGED <<rows, rowAge, minted, booting, out, leftover, raced>>
        /\ request[r].at = "inserted" /\ t \in minted \ issued /\ t \notin sessions
        /\ t \in rows \cup raced
        /\ booting = FALSE
    BY NobodyBoots DEF Add, ghosts, IInv, LoginsApart, LoggingIn
  <1>1. S \in SUBSET Tokens /\ t \in Tokens
    BY <1>0 DEF IInv, Typed
  <1>2. IsFiniteSet(S) /\ Cardinality(S) = Cardinality(sessions) + 1
    BY <1>0, Count DEF IInv, Typed
  <1>3. Cardinality(sessions) \in Nat /\ Cardinality(sessions) <= MAX_SESSIONS
    BY <1>0, NobodyBoots, Count DEF IInv, Typed
  <1>4. CASE \E victim \in S :
               /\ Cardinality(S) > MAX_SESSIONS
               /\ sessions' = S \ {victim} /\ issued' = issued
               /\ age' \in [Tokens -> 0..2]
               /\ Becomes(r, "evict", t, victim, request[r].known)
    <2>1. PICK victim \in S :
            /\ sessions' = S \ {victim} /\ issued' = issued
            /\ age' \in [Tokens -> 0..2]
            /\ Becomes(r, "evict", t, victim, request[r].known)
      BY <1>4
    <2>2. victim \in sessions \cup {t} /\ victim \in minted
      BY <1>0, <2>1 DEF IInv, Typed
    <2> HIDE DEF S
    <2>3. IsFiniteSet(sessions') /\ Cardinality(sessions') = Cardinality(sessions)
      BY <1>2, <1>3, <2>1, Count
    <2>4. sessions' \subseteq sessions \cup {t} /\ victim \notin sessions'
      BY <2>1 DEF S
    <2>5. sessions' = (sessions \cup {t}) \ {victim}
      BY <2>1 DEF S
    <2>6. Typed'
      BY <1>0, <1>1, <2>1, <2>2, <2>3, <2>4 DEF IInv, Typed, Becomes
    <2>7. LoginsApart'
      BY <1>0, <2>1, <2>4 DEF IInv, LoginsApart, LoggingIn, Becomes
    <2>8. VictimsPopped'
      BY <1>0, <2>1, <2>2, <2>4 DEF IInv, Typed, VictimsPopped, LoginsApart, LoggingIn, Becomes
    <2>9. LogoutsHold'
      BY <1>0, <2>1 DEF IInv, LogoutsHold, Becomes
    <2>10. BootsFirst' /\ Capped'
      BY <1>0, <1>3, <2>3 DEF BootsFirst, Capped
    <2>11. LogoutIsFinal'
      BY <1>0, <2>4 DEF IInv, Typed, LogoutIsFinal
    <2>12. StoresAgree'
      BY <1>0, <2>1, <2>5 DEF IInv, StoresAgree, Becomes
    <2> QED BY <2>6, <2>7, <2>8, <2>9, <2>10, <2>11, <2>12 DEF IInv
  <1>5. CASE /\ ~(Cardinality(S) > MAX_SESSIONS)
             /\ sessions' = S /\ issued' = issued \cup {t}
             /\ age' = age
             /\ Becomes(r, "idle", NoToken, NoToken, {})
    <2>1. Typed'
      BY <1>0, <1>1, <1>2, <1>5 DEF IInv, Typed, Becomes
    <2>2. LoginsApart'
      BY <1>0, <1>5 DEF IInv, LoginsApart, LoggingIn, Becomes
    <2>3. VictimsPopped'
      BY <1>0, <1>5 DEF IInv, VictimsPopped, Becomes
    <2>4. LogoutsHold'
      BY <1>0, <1>5 DEF IInv, LogoutsHold, Becomes
    <2>5. BootsFirst' /\ Capped'
      BY <1>0, <1>2, <1>3, <1>5, CapIsNumber DEF BootsFirst, Capped
    <2>6. LogoutIsFinal'
      BY <1>0, <1>5 DEF IInv, Typed, LogoutIsFinal
    <2>7. StoresAgree'
      BY <1>0, <1>5 DEF IInv, StoresAgree, Becomes
    <2> QED BY <2>1, <2>2, <2>3, <2>4, <2>5, <2>6, <2>7 DEF IInv
  <1> HIDE DEF S
  <1>6. EvictOrAnswer(r, S)
    BY DEF Add, S
  <1> QED BY <1>1, <1>4, <1>5, <1>6, EvictsOrAnswers DEF IInv

LEMMA EvictKeeps ==
  ASSUME IInv, NEW r \in Requests, Evict(r)
  PROVE  IInv'
  <1> USE DEF At
  <1> DEFINE t == request[r].token
             v == request[r].victim
  <1>0. /\ UNCHANGED <<minted, booting, out, raced>>
        /\ request[r].at = "evict" /\ t \in minted \ issued
        /\ v \in minted \ sessions
        /\ booting = FALSE /\ Cardinality(sessions) <= MAX_SESSIONS
        /\ Cardinality(sessions) \in Nat
    BY NobodyBoots, Count DEF Evict, IInv, LoginsApart, LoggingIn, VictimsPopped, Typed
  <1>1. /\ sessions' = sessions /\ issued' = issued \cup {t} /\ age' = age
        /\ Becomes(r, "idle", NoToken, NoToken, {})
    <2>1. sessions \in SUBSET Tokens /\ EvictOrAnswer(r, sessions)
      BY DEF Evict, IInv, Typed
    <2> QED BY <1>0, <2>1, EvictsOrAnswers, CapIsNumber DEF IInv
  <1>2. /\ rows' \in {rows, rows \ {v}} /\ IsFiniteSet(rows')
        /\ rowAge' \in [Tokens -> 0..2]
        /\ leftover' \subseteq minted
        /\ leftover \ {v} \subseteq leftover'
        /\ v \in rows' => v \in leftover'
    <2>1. CASE Delete({v}) /\ leftover' = leftover \ {v}
      <3>1. v \in Tokens
        BY <1>0 DEF IInv, Typed
      <3>2. rows' = rows \ {v} /\ IsFiniteSet(rows') /\ rowAge' \in [Tokens -> 0..2]
        BY <2>1, <3>1, Deleted DEF IInv
      <3> QED BY <2>1, <3>2 DEF IInv, Typed
    <2>2. CASE leftover' = leftover \cup ({v} \cap rows) /\ UNCHANGED <<rows, rowAge>>
      BY <1>0, <2>2 DEF IInv, Typed
    <2> QED BY <2>1, <2>2 DEF Evict
  <1>3. Typed'
    BY <1>0, <1>1, <1>2 DEF IInv, Typed, Becomes
  <1>4. LoginsApart'
    BY <1>0, <1>1, <1>2 DEF IInv, LoginsApart, LoggingIn, VictimsPopped, Becomes
  <1>5. VictimsPopped'
    BY <1>0, <1>1 DEF IInv, VictimsPopped, Becomes
  <1>6. LogoutsHold'
    BY <1>0, <1>1, <1>2 DEF IInv, LogoutsHold, Becomes
  <1>7. BootsFirst' /\ Capped'
    BY <1>0, <1>1 DEF BootsFirst, Capped
  <1>8. LogoutIsFinal'
    BY <1>0, <1>1, <1>2 DEF IInv, LogoutIsFinal
  <1>9. StoresAgree'
    BY <1>0, <1>1, <1>2 DEF IInv, StoresAgree, Becomes
  <1> QED BY <1>3, <1>4, <1>5, <1>6, <1>7, <1>8, <1>9 DEF IInv

LEMMA RefreshKeeps ==
  ASSUME IInv, NEW r \in Requests, Refresh(r)
  PROVE  IInv'
  <1> USE DEF At
  <1>1. PICK t \in issued \cap sessions :
          /\ age' = [age EXCEPT ![t] = 0]
          /\ request' = [request EXCEPT ![r] = [Idle EXCEPT !.at = "touch", !.token = t]]
    BY DEF Refresh
  <1>2. t \in Tokens /\ "touch" \in Steps
    BY DEF IInv, Typed, Steps
  <1>3. Becomes(r, "touch", t, NoToken, {})
    BY <1>1, <1>2, StartBecomes DEF IInv
  <1>4. /\ UNCHANGED <<sessions, rows, rowAge, minted, issued, booting, out, leftover, raced>>
        /\ ~booting /\ request[r].at = "idle"
    BY DEF Refresh, ghosts
  <1>5. 0 \in 0..2
    OBVIOUS
  <1>6. age' \in [Tokens -> 0..2]
    BY <1>1, <1>5, Zenon DEF IInv, Typed
  <1>7. Typed'
    BY <1>3, <1>4, <1>6 DEF IInv, Typed, Becomes
  <1>8. LoginsApart'
    BY <1>3, <1>4 DEF IInv, LoginsApart, LoggingIn, Becomes
  <1>9. VictimsPopped'
    BY <1>3, <1>4 DEF IInv, VictimsPopped, Becomes
  <1>10. LogoutsHold'
    BY <1>3, <1>4 DEF IInv, LogoutsHold, Becomes
  <1>11. BootsFirst' /\ Capped'
    BY <1>4 DEF IInv, BootsFirst, Capped
  <1>12. LogoutIsFinal'
    BY <1>4 DEF IInv, LogoutIsFinal
  <1>13. StoresAgree'
    BY <1>3, <1>4 DEF IInv, StoresAgree, Becomes
  <1> QED BY <1>7, <1>8, <1>9, <1>10, <1>11, <1>12, <1>13 DEF IInv

LEMMA TouchKeeps ==
  ASSUME IInv, NEW r \in Requests, Touch(r)
  PROVE  IInv'
  <1> USE DEF At
  <1>1. Becomes(r, "idle", NoToken, NoToken, {})
    BY AnswerBecomes DEF Touch, IInv
  <1>2. /\ UNCHANGED <<sessions, rows, age, minted, issued, booting, out, leftover, raced>>
        /\ request[r].at = "touch"
    BY DEF Touch, ghosts
  <1>3. rowAge' \in [Tokens -> 0..2]
    <2>1. 0 \in 0..2
      OBVIOUS
    <2>2. rowAge' = rowAge \/ rowAge' = [rowAge EXCEPT ![request[r].token] = 0]
      BY DEF Touch
    <2> QED BY <2>1, <2>2, Zenon DEF IInv, Typed
  <1>4. Typed'
    BY <1>1, <1>2, <1>3 DEF IInv, Typed, Becomes
  <1>5. LoginsApart'
    BY <1>1, <1>2 DEF IInv, LoginsApart, LoggingIn, Becomes
  <1>6. VictimsPopped'
    BY <1>1, <1>2 DEF IInv, VictimsPopped, Becomes
  <1>7. LogoutsHold'
    BY <1>1, <1>2 DEF IInv, LogoutsHold, Becomes
  <1>8. BootsFirst' /\ Capped'
    BY <1>2 DEF IInv, BootsFirst, Capped
  <1>9. LogoutIsFinal'
    BY <1>2 DEF IInv, LogoutIsFinal
  <1>10. StoresAgree'
    BY <1>1, <1>2 DEF IInv, StoresAgree, Becomes
  <1> QED BY <1>4, <1>5, <1>6, <1>7, <1>8, <1>9, <1>10 DEF IInv

LEMMA LogoutKeeps ==
  ASSUME IInv, NEW r \in Requests, Logout(r)
  PROVE  IInv'
  <1> USE DEF At
  <1>1. PICK t \in issued :
          request' = [request EXCEPT ![r] = [Idle EXCEPT !.at = "delete", !.token = t]]
    BY DEF Logout
  <1>2. t \in Tokens /\ "delete" \in Steps
    BY DEF IInv, Typed, Steps
  <1>3. Becomes(r, "delete", t, NoToken, {})
    BY <1>1, <1>2, StartBecomes DEF IInv
  <1>4. /\ UNCHANGED <<sessions, rows, age, rowAge, minted, issued, booting, out, leftover, raced>>
        /\ ~booting /\ request[r].at = "idle"
    BY DEF Logout, store, ghosts
  <1>5. Typed'
    BY <1>3, <1>4 DEF IInv, Typed, Becomes
  <1>6. LoginsApart'
    BY <1>3, <1>4 DEF IInv, LoginsApart, LoggingIn, Becomes
  <1>7. VictimsPopped'
    BY <1>3, <1>4 DEF IInv, VictimsPopped, Becomes
  <1>8. LogoutsHold'
    BY <1>3, <1>4 DEF IInv, LogoutsHold, Becomes
  <1>9. BootsFirst' /\ Capped'
    BY <1>4 DEF IInv, BootsFirst, Capped
  <1>10. LogoutIsFinal'
    BY <1>4 DEF IInv, LogoutIsFinal
  <1>11. StoresAgree'
    BY <1>3, <1>4 DEF IInv, StoresAgree, Becomes
  <1> QED BY <1>5, <1>6, <1>7, <1>8, <1>9, <1>10, <1>11 DEF IInv

LEMMA LogoutDeleteKeeps ==
  ASSUME IInv, NEW r \in Requests, LogoutDelete(r)
  PROVE  IInv'
  <1> USE DEF At
  <1> DEFINE t == request[r].token
  <1>0. /\ UNCHANGED <<sessions, age, minted, issued, booting, out, raced>>
        /\ request[r].at = "delete" /\ t \in issued /\ t \in Tokens
    BY DEF LogoutDelete, IInv, LogoutsHold, Typed
  <1>1. CASE Delete({t}) /\ leftover' = leftover \ {t} /\ Goto(r, "deleted")
    <2>1. Becomes(r, "deleted", t, request[r].victim, request[r].known)
      BY <1>1, GotoBecomes DEF IInv, Steps
    <2>2. rows' = rows \ {t} /\ IsFiniteSet(rows') /\ rowAge' \in [Tokens -> 0..2]
      BY <1>0, <1>1, Deleted DEF IInv
    <2>3. Typed'
      BY <1>0, <1>1, <2>1, <2>2 DEF IInv, Typed, Becomes
    <2>4. LoginsApart'
      BY <1>0, <2>1, <2>2 DEF IInv, LoginsApart, LoggingIn, Becomes
    <2>5. VictimsPopped'
      BY <1>0, <2>1 DEF IInv, VictimsPopped, Becomes
    <2>6. LogoutsHold'
      BY <1>0, <2>1, <2>2 DEF IInv, LogoutsHold, Becomes
    <2>7. BootsFirst' /\ Capped'
      BY <1>0, NobodyBoots DEF BootsFirst, Capped
    <2>8. LogoutIsFinal'
      BY <1>0, <2>2 DEF IInv, LogoutIsFinal
    <2>9. StoresAgree'
      BY <1>0, <1>1, <2>1, <2>2 DEF IInv, StoresAgree, Becomes
    <2> QED BY <2>3, <2>4, <2>5, <2>6, <2>7, <2>8, <2>9 DEF IInv
  <1>2. CASE Answer(r) /\ UNCHANGED <<rows, rowAge, leftover>>
    <2>1. Becomes(r, "idle", NoToken, NoToken, {})
      BY <1>2, AnswerBecomes DEF IInv
    <2>2. Typed'
      BY <1>0, <1>2, <2>1 DEF IInv, Typed, Becomes
    <2>3. LoginsApart'
      BY <1>0, <1>2, <2>1 DEF IInv, LoginsApart, LoggingIn, Becomes
    <2>4. VictimsPopped'
      BY <1>0, <2>1 DEF IInv, VictimsPopped, Becomes
    <2>5. LogoutsHold'
      BY <1>0, <1>2, <2>1 DEF IInv, LogoutsHold, Becomes
    <2>6. BootsFirst' /\ Capped'
      BY <1>0, NobodyBoots DEF BootsFirst, Capped
    <2>7. LogoutIsFinal'
      BY <1>0, <1>2 DEF IInv, LogoutIsFinal
    <2>8. StoresAgree'
      BY <1>0, <1>2, <2>1 DEF IInv, StoresAgree, Becomes
    <2> QED BY <2>2, <2>3, <2>4, <2>5, <2>6, <2>7, <2>8 DEF IInv
  <1> QED BY <1>1, <1>2 DEF LogoutDelete

LEMMA LogoutDoneKeeps ==
  ASSUME IInv, NEW r \in Requests, LogoutDone(r)
  PROVE  IInv'
  <1> USE DEF At
  <1> DEFINE t == request[r].token
  <1>0. /\ UNCHANGED <<rows, rowAge, minted, issued, booting, leftover, raced>>
        /\ request[r].at = "deleted" /\ t \in issued /\ t \in Tokens /\ t \notin rows
        /\ out' = out \cup {t}
        /\ booting = FALSE /\ Cardinality(sessions) <= MAX_SESSIONS
    BY NobodyBoots DEF LogoutDone, IInv, LogoutsHold, Typed
  <1>1. Becomes(r, "idle", NoToken, NoToken, {})
    BY AnswerBecomes DEF LogoutDone, IInv
  <1>2. /\ sessions' = sessions \ {t} /\ IsFiniteSet(sessions')
        /\ Cardinality(sessions') <= Cardinality(sessions)
        /\ age' \in [Tokens -> 0..2]
    BY <1>0, Forgotten DEF LogoutDone, IInv
  <1>3. Typed'
    BY <1>0, <1>1, <1>2 DEF IInv, Typed, Becomes
  <1>4. LoginsApart'
    BY <1>0, <1>1, <1>2 DEF IInv, LoginsApart, LoggingIn, Becomes
  <1>5. VictimsPopped'
    BY <1>0, <1>1, <1>2 DEF IInv, VictimsPopped, Becomes
  <1>6. LogoutsHold'
    BY <1>0, <1>1 DEF IInv, LogoutsHold, Becomes
  <1>7. BootsFirst' /\ Capped'
    <2>1. Cardinality(sessions) \in Nat /\ Cardinality(sessions') \in Nat
      BY <1>2, FS_CardinalityType DEF IInv, Typed
    <2> QED BY <1>0, <1>2, <2>1, CapIsNumber DEF BootsFirst, Capped
  <1>8. LogoutIsFinal'
    BY <1>0, <1>2 DEF IInv, LogoutIsFinal
  <1>9. StoresAgree'
    BY <1>0, <1>1, <1>2 DEF IInv, StoresAgree, Becomes
  <1> QED BY <1>3, <1>4, <1>5, <1>6, <1>7, <1>8, <1>9 DEF IInv

LEMMA LogoutAllKeeps ==
  ASSUME IInv, NEW r \in Requests, LogoutAll(r)
  PROVE  IInv'
  <1> USE DEF At
  <1>1. sessions \cap issued \in SUBSET Tokens
    BY DEF IInv, Typed
  <1>2. Becomes(r, "deleteAll", NoToken, NoToken, sessions \cap issued)
    BY <1>1, StartAllBecomes DEF LogoutAll, IInv
  <1>3. /\ UNCHANGED <<sessions, rows, age, rowAge, minted, issued, booting, out, leftover, raced>>
        /\ ~booting /\ request[r].at = "idle"
    BY DEF LogoutAll, store, ghosts
  <1>4. Typed'
    BY <1>2, <1>3 DEF IInv, Typed, Becomes
  <1>5. LoginsApart'
    BY <1>2, <1>3 DEF IInv, LoginsApart, LoggingIn, Becomes
  <1>6. VictimsPopped'
    BY <1>2, <1>3 DEF IInv, VictimsPopped, Becomes
  <1>7. LogoutsHold'
    BY <1>2, <1>3 DEF IInv, LogoutsHold, Becomes
  <1>8. BootsFirst' /\ Capped'
    BY <1>3 DEF IInv, BootsFirst, Capped
  <1>9. LogoutIsFinal'
    BY <1>3 DEF IInv, LogoutIsFinal
  <1>10. StoresAgree'
    BY <1>2, <1>3 DEF IInv, StoresAgree, Becomes
  <1> QED BY <1>4, <1>5, <1>6, <1>7, <1>8, <1>9, <1>10 DEF IInv

LEMMA LogoutAllDeleteKeeps ==
  ASSUME IInv, NEW r \in Requests, LogoutAllDelete(r)
  PROVE  IInv'
  <1> USE DEF At
  <1> DEFINE caught == {request[q].token : q \in {q \in Requests : At(q, "inserted")}}
  <1>0. /\ UNCHANGED <<sessions, age, minted, issued, booting, out>>
        /\ request[r].at = "deleteAll" /\ request[r].known \subseteq issued
    BY DEF LogoutAllDelete, IInv, LogoutsHold
  <1>1. CASE /\ Delete(Tokens) /\ leftover' = {} /\ raced' = raced \cup caught
             /\ Goto(r, "deletedAll")
    <2>1. Becomes(r, "deletedAll", request[r].token, request[r].victim, request[r].known)
      BY <1>1, GotoBecomes DEF IInv, Steps
    <2>2. rows' = {} /\ IsFiniteSet(rows') /\ rowAge' \in [Tokens -> 0..2]
      <3>1. rows' = rows \ Tokens /\ IsFiniteSet(rows') /\ rowAge' \in [Tokens -> 0..2]
        BY <1>1, Deleted DEF IInv
      <3> QED BY <3>1 DEF IInv, Typed
    <2>3. /\ caught \subseteq minted
          /\ \A q \in Requests : request[q].at = "inserted" => request[q].token \in caught
      BY DEF IInv, LoginsApart, LoggingIn
    <2> HIDE DEF caught
    <2>4. Typed'
      BY <1>0, <1>1, <2>1, <2>2, <2>3 DEF IInv, Typed, Becomes
    <2>5. LoginsApart'
      BY <1>0, <1>1, <2>1, <2>3 DEF IInv, LoginsApart, LoggingIn, Becomes
    <2>6. VictimsPopped'
      BY <1>0, <2>1 DEF IInv, VictimsPopped, Becomes
    <2>7. LogoutsHold'
      BY <1>0, <2>1, <2>2 DEF IInv, LogoutsHold, Becomes
    <2>8. BootsFirst' /\ Capped'
      BY <1>0, NobodyBoots DEF BootsFirst, Capped
    <2>9. LogoutIsFinal'
      BY <1>0, <2>2 DEF IInv, LogoutIsFinal
    <2>10. StoresAgree'
      BY <2>1, <2>2 DEF StoresAgree, Becomes
    <2> QED BY <2>4, <2>5, <2>6, <2>7, <2>8, <2>9, <2>10 DEF IInv
  <1>2. CASE Answer(r) /\ UNCHANGED <<rows, rowAge, leftover, raced>>
    <2>1. Becomes(r, "idle", NoToken, NoToken, {})
      BY <1>2, AnswerBecomes DEF IInv
    <2>2. Typed'
      BY <1>0, <1>2, <2>1 DEF IInv, Typed, Becomes
    <2>3. LoginsApart'
      BY <1>0, <1>2, <2>1 DEF IInv, LoginsApart, LoggingIn, Becomes
    <2>4. VictimsPopped'
      BY <1>0, <2>1 DEF IInv, VictimsPopped, Becomes
    <2>5. LogoutsHold'
      BY <1>0, <1>2, <2>1 DEF IInv, LogoutsHold, Becomes
    <2>6. BootsFirst' /\ Capped'
      BY <1>0, NobodyBoots DEF BootsFirst, Capped
    <2>7. LogoutIsFinal'
      BY <1>0, <1>2 DEF IInv, LogoutIsFinal
    <2>8. StoresAgree'
      BY <1>0, <1>2, <2>1 DEF IInv, StoresAgree, Becomes
    <2> QED BY <2>2, <2>3, <2>4, <2>5, <2>6, <2>7, <2>8 DEF IInv
  <1> QED BY <1>1, <1>2 DEF LogoutAllDelete

LEMMA LogoutAllDoneKeeps ==
  ASSUME IInv, NEW r \in Requests, LogoutAllDone(r)
  PROVE  IInv'
  <1> USE DEF At
  <1>0. /\ UNCHANGED <<rows, rowAge, minted, issued, booting, leftover>>
        /\ request[r].at = "deletedAll" /\ request[r].known \subseteq issued
        /\ request[r].known \cap rows = {}
        /\ out' = out \cup request[r].known
        /\ raced' = raced \cup (sessions \cap rows)
        /\ booting = FALSE
    BY NobodyBoots DEF LogoutAllDone, IInv, LogoutsHold
  <1>1. Becomes(r, "idle", NoToken, NoToken, {})
    BY AnswerBecomes DEF LogoutAllDone, IInv
  <1>2. sessions' = {} /\ IsFiniteSet(sessions') /\ age' \in [Tokens -> 0..2]
    <2>1. sessions' = sessions \ Tokens /\ IsFiniteSet(sessions') /\ age' \in [Tokens -> 0..2]
      BY Forgotten DEF LogoutAllDone, IInv
    <2> QED BY <2>1 DEF IInv, Typed
  <1>3. Typed'
    BY <1>0, <1>1, <1>2 DEF IInv, Typed, Becomes
  <1>4. LoginsApart'
    BY <1>0, <1>1, <1>2 DEF IInv, LoginsApart, LoggingIn, Becomes
  <1>5. VictimsPopped'
    BY <1>0, <1>1, <1>2 DEF IInv, VictimsPopped, Becomes
  <1>6. LogoutsHold'
    BY <1>0, <1>1 DEF IInv, LogoutsHold, Becomes
  <1>7. BootsFirst' /\ Capped'
    BY <1>0, <1>2, FS_EmptySet, CapIsNumber DEF BootsFirst, Capped
  <1>8. LogoutIsFinal'
    BY <1>0, <1>2 DEF IInv, LogoutIsFinal
  <1>9. StoresAgree'
    BY <1>0, <1>1, <1>2 DEF IInv, StoresAgree, Becomes
  <1> QED BY <1>3, <1>4, <1>5, <1>6, <1>7, <1>8, <1>9 DEF IInv

LEMMA TimePassesKeeps ==
  ASSUME IInv, TimePasses
  PROVE  IInv'
  <1>1. UNCHANGED <<sessions, rows, request, minted, issued, booting, out, leftover, raced>>
    BY DEF TimePasses, ghosts
  <1>2. \A S \in SUBSET Tokens, a \in [Tokens -> 0..2] : Older(S, a) \in [Tokens -> 0..2]
    BY DEF Older
  <1>3. age' \in [Tokens -> 0..2] /\ rowAge' \in [Tokens -> 0..2]
    BY <1>2 DEF TimePasses, IInv, Typed
  <1>4. Typed'
    BY <1>1, <1>3 DEF IInv, Typed
  <1>5. LoginsApart' /\ VictimsPopped' /\ LogoutsHold'
    BY <1>1 DEF IInv, LoginsApart, VictimsPopped, LogoutsHold, At
  <1>6. BootsFirst' /\ Capped'
    BY <1>1 DEF IInv, BootsFirst, Capped, At
  <1>7. LogoutIsFinal' /\ StoresAgree'
    BY <1>1 DEF IInv, LogoutIsFinal, StoresAgree, At
  <1> QED BY <1>4, <1>5, <1>6, <1>7 DEF IInv

\* A start, from some of the rows.
LEMMA LoadKeeps ==
  ASSUME IInv, NEW kept \in SUBSET rows, Load(kept),
         request' = [r \in Requests |-> Idle], UNCHANGED <<minted, issued, out>>
  PROVE  IInv'
  <1>1. /\ rows' = kept /\ sessions' = kept /\ leftover' = {} /\ raced' = {}
        /\ booting' = (Cardinality(kept) > MAX_SESSIONS)
    BY DEF Load
  <1>2. IsFiniteSet(kept) /\ Cardinality(kept) \in Nat
    BY FS_Subset, FS_CardinalityType DEF IInv, Typed
  <1>3. rowAge' \in [Tokens -> 0..2] /\ age' \in [Tokens -> 0..2]
    BY DEF Load, IInv, Typed
  <1>4. request' \in [Requests -> Doing] /\ \A r \in Requests : request'[r] = Idle
    BY IdleDoing
  <1>5. \A r \in Requests : request'[r].at = "idle"
    BY <1>4 DEF Idle
  <1>6. Typed'
    BY <1>1, <1>2, <1>3, <1>4 DEF IInv, Typed
  <1>7. LoginsApart' /\ VictimsPopped' /\ LogoutsHold'
    BY <1>5 DEF LoginsApart, LoggingIn, VictimsPopped, LogoutsHold, At
  <1>8. BootsFirst' /\ Capped'
    <2>1. booting' <=> Cardinality(kept) > MAX_SESSIONS
      BY <1>1
    <2> QED BY <1>1, <1>2, <1>5, <2>1, CapIsNumber DEF BootsFirst, Capped, At
  <1>9. LogoutIsFinal' /\ StoresAgree'
    BY <1>1 DEF IInv, LogoutIsFinal, StoresAgree
  <1> QED BY <1>6, <1>7, <1>8, <1>9 DEF IInv

LEMMA TrimAtStartKeeps ==
  ASSUME IInv, TrimAtStart
  PROVE  IInv'
  <1>1. PICK victim \in sessions :
          /\ Forget({victim})
          /\ \/ Delete({victim}) /\ UNCHANGED leftover
             \/ leftover' = leftover \cup {victim} /\ UNCHANGED <<rows, rowAge>>
    BY DEF TrimAtStart, Oldest
  <1>2. /\ UNCHANGED <<request, minted, issued, out, raced>>
        /\ booting' = (Cardinality(sessions') > MAX_SESSIONS)
        /\ \A r \in Requests : request[r].at = "idle"
    BY DEF TrimAtStart, IInv, BootsFirst, At
  <1>3. {victim} \in SUBSET Tokens
    BY DEF IInv, Typed
  <1>4. /\ sessions' = sessions \ {victim} /\ IsFiniteSet(sessions')
        /\ age' \in [Tokens -> 0..2]
    BY <1>1, <1>3, Forgotten DEF IInv
  <1>5. /\ \/ rows' = rows \ {victim} /\ leftover' = leftover
           \/ rows' = rows /\ leftover' = leftover \cup {victim}
        /\ IsFiniteSet(rows') /\ rowAge' \in [Tokens -> 0..2]
    <2>1. CASE Delete({victim}) /\ UNCHANGED leftover
      <3>1. rows' = rows \ {victim} /\ IsFiniteSet(rows') /\ rowAge' \in [Tokens -> 0..2]
        BY <1>3, <2>1, Deleted DEF IInv
      <3> QED BY <2>1, <3>1
    <2>2. CASE leftover' = leftover \cup {victim} /\ UNCHANGED <<rows, rowAge>>
      BY <2>2 DEF IInv, Typed
    <2> QED BY <1>1, <2>1, <2>2
  <1>6. Typed'
    BY <1>2, <1>4, <1>5 DEF IInv, Typed
  <1>7. LoginsApart' /\ VictimsPopped' /\ LogoutsHold'
    BY <1>2 DEF LoginsApart, LoggingIn, VictimsPopped, LogoutsHold, At
  <1>8. BootsFirst' /\ Capped'
    <2>1. Cardinality(sessions') \in Nat
      BY <1>4, FS_CardinalityType
    <2>2. booting' <=> Cardinality(sessions') > MAX_SESSIONS
      BY <1>2
    <2> QED BY <1>2, <2>1, <2>2, CapIsNumber DEF BootsFirst, Capped, At
  <1>9. LogoutIsFinal'
    BY <1>2, <1>4, <1>5 DEF IInv, LogoutIsFinal
  <1>10. StoresAgree'
    BY <1>2, <1>4, <1>5 DEF IInv, StoresAgree, At
  <1> QED BY <1>6, <1>7, <1>8, <1>9, <1>10 DEF IInv
-----------------------------------------------------------------------------
LEMMA InitHolds == Init => IInv
  <1> SUFFICES ASSUME Init PROVE IInv
    OBVIOUS
  <1>1. IsFiniteSet({}) /\ Cardinality({}) = 0
    BY FS_EmptySet
  <1>2. 0 \in 0..2
    OBVIOUS
  <1>3. age \in [Tokens -> 0..2] /\ rowAge \in [Tokens -> 0..2]
    BY <1>2, Zenon DEF Init
  <1>4. request \in [Requests -> Doing] /\ \A r \in Requests : request[r].at = "idle"
    BY IdleDoing DEF Init, Idle
  <1>5. Typed
    BY <1>1, <1>3, <1>4 DEF Init, Typed
  <1>6. LoginsApart /\ VictimsPopped /\ LogoutsHold
    BY <1>4 DEF LoginsApart, LoggingIn, VictimsPopped, LogoutsHold, At
  <1>7. BootsFirst /\ Capped
    BY <1>1, CapIsNumber DEF Init, BootsFirst, Capped
  <1>8. LogoutIsFinal /\ StoresAgree
    BY DEF Init, LogoutIsFinal, StoresAgree
  <1> QED BY <1>5, <1>6, <1>7, <1>8 DEF IInv

LEMMA StutterKeeps ==
  ASSUME IInv, UNCHANGED vars
  PROVE  IInv'
  BY DEF vars, store, ghosts, IInv, Typed, LoginsApart, VictimsPopped, LogoutsHold, BootsFirst,
         Capped, LogoutIsFinal, StoresAgree, At

LEMMA Inductive == IInv /\ [Next]_vars => IInv'
  <1> SUFFICES ASSUME IInv, [Next]_vars PROVE IInv'
    OBVIOUS
  <1>1. CASE \E r \in Requests : Login(r) \/ Insert(r) \/ Add(r) \/ Evict(r)
    BY <1>1, LoginKeeps, InsertKeeps, AddKeeps, EvictKeeps
  <1>2. CASE \E r \in Requests : Refresh(r) \/ Touch(r)
    BY <1>2, RefreshKeeps, TouchKeeps
  <1>3. CASE \E r \in Requests : Logout(r) \/ LogoutDelete(r) \/ LogoutDone(r)
    BY <1>3, LogoutKeeps, LogoutDeleteKeeps, LogoutDoneKeeps
  <1>4. CASE \E r \in Requests : LogoutAll(r) \/ LogoutAllDelete(r) \/ LogoutAllDone(r)
    BY <1>4, LogoutAllKeeps, LogoutAllDeleteKeeps, LogoutAllDoneKeeps
  <1>5. CASE TimePasses \/ TrimAtStart
    BY <1>5, TimePassesKeeps, TrimAtStartKeeps
  <1>6. CASE Restart
    <2>1. {t \in rows : rowAge[t] < 2} \in SUBSET rows
      OBVIOUS
    <2> QED BY <1>6, <2>1, LoadKeeps DEF Restart
  <1>7. CASE ChangeCredentials
    BY <1>7, LoadKeeps DEF ChangeCredentials
  <1>8. CASE UNCHANGED vars
    BY <1>8, StutterKeeps
  <1> QED BY <1>1, <1>2, <1>3, <1>4, <1>5, <1>6, <1>7, <1>8 DEF Next

\* Every state of the sessions satisfies the invariant.
THEOREM SessionsInvariant == Spec => []IInv
  BY InitHolds, Inductive, PTL DEF Spec

\* A token whose logout was answered is never accepted again and never revived
\* by a start (revoke, revoke_all).
THEOREM LogoutsAreFinal == Spec => []LogoutIsFinal
  <1>1. IInv => LogoutIsFinal
    BY DEF IInv
  <1> QED BY <1>1, SessionsInvariant, PTL

\* Memory and table differ only where a request, a failed delete or a race with
\* a logout-all accounts for it (create, revoke, revoke_all, load).
THEOREM BothStoresAgree == Spec => []StoresAgree
  <1>1. IInv => StoresAgree
    BY DEF IInv
  <1> QED BY <1>1, SessionsInvariant, PTL

\* The sets and ages hold what they should, and memory is within the cap once
\* the table is trimmed.
THEOREM TypeCorrect == Spec => []TypeOK
  <1>1. IInv => TypeOK
    BY DEF IInv, Typed, Capped, TypeOK, Doing
  <1> QED BY <1>1, SessionsInvariant, PTL
-----------------------------------------------------------------------------
(***************************************************************************)
(* Each action maps to a step of Login, or to one that changes nothing.     *)
(***************************************************************************)

Uncertain == Unsettled \ {NoToken}

LEMMA SameCount == \A S : Promise!Cardinality(S) = Cardinality(S)
  BY DEF Promise!Cardinality, Cardinality

LEMMA OnlyTokensUncertain ==
  ASSUME Typed'
  PROVE  (Unsettled \ {NoToken})' \in SUBSET Tokens
  <1>1. \A r \in Requests : request'[r].token \in Tokens \cup {NoToken}
    BY DEF Typed, Doing
  <1>2. \A r \in Requests : request'[r].victim \in Tokens \cup {NoToken}
    BY DEF Typed, Doing
  <1>3. leftover' \subseteq Tokens /\ raced' \subseteq Tokens
    BY DEF Typed
  <1> QED BY <1>1, <1>2, <1>3 DEF Unsettled, At

LEMMA WhatIsUncertain ==
  ASSUME Typed
  PROVE  /\ (leftover \cup raced) \ {NoToken} \subseteq Uncertain
         /\ \A t \in Tokens : rowAge[t] = 2 /\ t # NoToken => t \in Uncertain
         /\ \A r \in Requests :
              /\ At(r, "inserted") \/ At(r, "deleted")
              /\ request[r].token # NoToken
              => request[r].token \in Uncertain
         /\ \A r \in Requests :
              At(r, "evict") /\ request[r].victim # NoToken => request[r].victim \in Uncertain
         /\ \A r \in Requests : At(r, "deletedAll") => Tokens \ {NoToken} \subseteq Uncertain
  BY DEF Uncertain, Unsettled, At

\* A step that ends no session and answers no logout.
LEMMA QuietMaps ==
  ASSUME IInv', UNCHANGED <<sessions, out>>
  PROVE  Promise!Next
  <1>1. Promise!LogOut({})
    BY DEF Promise!LogOut
  <1>2. (Unsettled \ {NoToken})' \in SUBSET Tokens
    BY OnlyTokensUncertain DEF IInv
  <1> QED BY <1>1, <1>2 DEF Promise!Next

LEMMA AddMaps ==
  ASSUME IInv, IInv', NEW r \in Requests, Add(r)
  PROVE  Promise!Next
  <1> DEFINE t == request[r].token
             S == sessions \cup {t}
  <1>1. /\ t \in Tokens /\ t \notin sessions /\ t \notin out /\ out' = out
    BY DEF Add, At, ghosts, IInv, Typed, LoginsApart, LoggingIn
  <1>2. /\ Cardinality(S) = Cardinality(sessions) + 1
        /\ Cardinality(sessions) \in Nat
    BY <1>1, Count DEF IInv, Typed
  <1>3. \/ \E victim \in S : Cardinality(S) > MAX_SESSIONS /\ sessions' = S \ {victim}
        \/ sessions' = S
    <2> HIDE DEF S
    <2>1. S \in SUBSET Tokens
      BY <1>1 DEF S, IInv, Typed
    <2>2. EvictOrAnswer(r, S)
      BY DEF Add, S
    <2> QED BY <2>1, <2>2, EvictsOrAnswers DEF IInv
  <1>4. Promise!Grant(t) \/ Promise!LogOut({})
    <2>1. CASE \E victim \in S \ {t} : Cardinality(S) > MAX_SESSIONS /\ sessions' = S \ {victim}
      <3>1. PICK victim \in sessions :
              Cardinality(S) > MAX_SESSIONS /\ sessions' = S \ {victim} /\ victim # t
        BY <2>1
      <3>2. Cardinality(sessions) >= MAX_SESSIONS
        BY <1>2, <3>1, CapIsNumber
      <3>3. sessions' = (sessions \ {victim}) \cup {t}
        BY <3>1
      <3> QED BY <1>1, <3>1, <3>2, <3>3, SameCount DEF Promise!Grant
    <2>2. CASE sessions' = S
      BY <1>1, <2>2 DEF Promise!Grant
    <2>3. CASE sessions' = S \ {t}
      BY <1>1, <2>3 DEF Promise!LogOut
    <2> QED BY <1>3, <2>1, <2>2, <2>3
  <1>5. (Unsettled \ {NoToken})' \in SUBSET Tokens
    BY OnlyTokensUncertain DEF IInv
  <1> QED BY <1>1, <1>4, <1>5 DEF Promise!Next

LEMMA EvictMaps ==
  ASSUME IInv, IInv', NEW r \in Requests, Evict(r)
  PROVE  Promise!Next
  <1>1. /\ Cardinality(sessions) <= MAX_SESSIONS /\ Cardinality(sessions) \in Nat
        /\ out' = out
    BY NobodyBoots, Count DEF Evict, At, IInv, Typed
  <1>2. sessions \in SUBSET Tokens /\ EvictOrAnswer(r, sessions)
    BY DEF Evict, IInv, Typed
  <1>3. sessions' = sessions
    BY <1>1, <1>2, EvictsOrAnswers, CapIsNumber DEF IInv
  <1> QED BY <1>1, <1>3, QuietMaps

LEMMA LogoutDoneMaps ==
  ASSUME IInv, IInv', NEW r \in Requests, LogoutDone(r)
  PROVE  Promise!Next
  <1> DEFINE t == request[r].token
  <1>1. t \in Tokens
    BY DEF LogoutDone, At, IInv, Typed, LogoutsHold
  <1>2. sessions' = sessions \ {t} /\ out' = out \cup {t}
    BY DEF LogoutDone, Forget
  <1>3. Promise!LogOut({t})
    BY <1>2 DEF Promise!LogOut
  <1>4. (Unsettled \ {NoToken})' \in SUBSET Tokens
    BY OnlyTokensUncertain DEF IInv
  <1> QED BY <1>1, <1>3, <1>4 DEF Promise!Next

LEMMA LogoutAllDoneMaps ==
  ASSUME IInv, IInv', NEW r \in Requests, LogoutAllDone(r)
  PROVE  Promise!Next
  <1> DEFINE known == request[r].known
  <1>1. known \in SUBSET Tokens
    BY Fields DEF IInv
  <1>2. sessions' = sessions \ Tokens /\ out' = out \cup known
    BY DEF LogoutAllDone, Forget
  <1>3. sessions' = {}
    BY <1>2 DEF IInv, Typed
  <1>4. sessions \subseteq Unsettled \ {NoToken}
    BY WhatIsUncertain, CapIsNumber DEF LogoutAllDone, IInv, Typed, Uncertain
  <1>5. Promise!LogOut(known)
    BY <1>2, <1>3, <1>4 DEF Promise!LogOut
  <1>6. (Unsettled \ {NoToken})' \in SUBSET Tokens
    BY OnlyTokensUncertain DEF IInv
  <1> QED BY <1>1, <1>5, <1>6 DEF Promise!Next

\* What a start loses or revives was uncertain: the stores agree on the rest.
LEMMA RestartMaps ==
  ASSUME IInv, IInv', Restart
  PROVE  Promise!Next
  <1>1. sessions' = {t \in rows : rowAge[t] < 2} /\ out' = out
    BY DEF Restart, Load
  <1>2. sessions \subseteq Tokens /\ rows \subseteq Tokens /\ NoToken \notin Tokens
    BY CapIsNumber DEF IInv, Typed
  <1>3. \A t \in Tokens : rowAge[t] \in 0..2
    BY DEF IInv, Typed
  <1>4. ASSUME NEW t \in sessions, t \notin Uncertain
        PROVE  t \in sessions'
    <2>1. t \in rows
      BY <1>2, <1>4, WhatIsUncertain DEF IInv, StoresAgree
    <2>2. rowAge[t] # 2
      BY <1>2, <1>4, WhatIsUncertain DEF IInv
    <2>3. rowAge[t] < 2
      BY <1>2, <1>3, <2>2
    <2> QED BY <1>1, <2>1, <2>3
  <1>5. ASSUME NEW t \in sessions'
        PROVE  t \in sessions \cup Uncertain
    <2>1. t \in rows
      BY <1>1, <1>5
    <2> QED BY <1>2, <2>1, WhatIsUncertain DEF IInv, StoresAgree
  <1>6. sessions' \cap out = {}
    BY <1>1 DEF IInv, LogoutIsFinal
  <1>7. Promise!Restart
    BY <1>1, <1>4, <1>5, <1>6 DEF Promise!Restart, Uncertain
  <1>8. (Unsettled \ {NoToken})' \in SUBSET Tokens
    BY OnlyTokensUncertain DEF IInv
  <1> QED BY <1>7, <1>8 DEF Promise!Next

LEMMA ChangeCredentialsMaps ==
  ASSUME IInv', ChangeCredentials
  PROVE  Promise!Next
  <1>1. Promise!ChangeCredentials
    BY DEF ChangeCredentials, Load, Promise!ChangeCredentials
  <1>2. (Unsettled \ {NoToken})' \in SUBSET Tokens
    BY OnlyTokensUncertain DEF IInv
  <1> QED BY <1>1, <1>2 DEF Promise!Next

LEMMA TrimAtStartMaps ==
  ASSUME IInv, IInv', TrimAtStart
  PROVE  Promise!Next
  <1>1. PICK victim \in sessions : Forget({victim})
    BY DEF TrimAtStart, Oldest
  <1>2. sessions' = sessions \ {victim} /\ out' = out
    BY <1>1 DEF Forget, TrimAtStart
  <1>3. Cardinality(sessions) > MAX_SESSIONS
    BY DEF TrimAtStart, IInv, BootsFirst
  <1>4. Promise!MakeRoom
    BY <1>2, <1>3, SameCount DEF Promise!MakeRoom
  <1>5. (Unsettled \ {NoToken})' \in SUBSET Tokens
    BY OnlyTokensUncertain DEF IInv
  <1> QED BY <1>4, <1>5 DEF Promise!Next

LEMMA NextMaps ==
  ASSUME IInv, IInv', [Next]_vars
  PROVE  [Promise!Next]_Promise!vars
  <1>1. CASE \E r \in Requests : Add(r) \/ Evict(r) \/ LogoutDone(r) \/ LogoutAllDone(r)
    BY <1>1, AddMaps, EvictMaps, LogoutDoneMaps, LogoutAllDoneMaps
  <1>2. CASE Restart \/ ChangeCredentials \/ TrimAtStart
    BY <1>2, RestartMaps, ChangeCredentialsMaps, TrimAtStartMaps
  <1>3. ASSUME NEW r \in Requests, Login(r) \/ Insert(r) \/ Refresh(r) \/ Touch(r)
        PROVE  Promise!Next
    <2>1. UNCHANGED <<sessions, out>>
      BY <1>3 DEF Login, Insert, Refresh, Touch, store, ghosts
    <2> QED BY <2>1, QuietMaps
  <1>4. ASSUME NEW r \in Requests,
               Logout(r) \/ LogoutDelete(r) \/ LogoutAll(r) \/ LogoutAllDelete(r)
        PROVE  Promise!Next
    <2>1. UNCHANGED <<sessions, out>>
      BY <1>4 DEF Logout, LogoutDelete, LogoutAll, LogoutAllDelete, store, ghosts
    <2> QED BY <2>1, QuietMaps
  <1>5. CASE TimePasses \/ UNCHANGED vars
    <2>1. UNCHANGED <<sessions, out>>
      BY <1>5 DEF TimePasses, vars, store, ghosts
    <2> QED BY <2>1, QuietMaps
  <1> QED BY <1>1, <1>2, <1>3, <1>4, <1>5 DEF Next

\* Whatever a crash, a failed write or a race does to the two stores, the
\* dashboard keeps the promise of Login: a login lasts across restarts until it
\* is logged out, makes room or loses its credentials, and only a token whose
\* operation was cut short is in doubt.
THEOREM LoginsKeepPromise == Spec => LastsUntilLogout
  <1>1. Init => Promise!Init
    <2> SUFFICES ASSUME Init PROVE Promise!Init
      OBVIOUS
    <2>1. Typed
      BY InitHolds DEF IInv
    <2>2. Unsettled \ {NoToken} \in SUBSET Tokens
      <3>1. \A r \in Requests : request[r].token \in Tokens \cup {NoToken}
                             /\ request[r].victim \in Tokens \cup {NoToken}
        BY <2>1, Fields
      <3> QED BY <2>1, <3>1 DEF Typed, Unsettled, At
    <2> QED BY <2>2 DEF Init, Promise!Init
  <1> QED BY <1>1, InitHolds, Inductive, NextMaps, PTL
          DEF Spec, LastsUntilLogout, Promise!Spec
=============================================================================
