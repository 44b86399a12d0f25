------------------------------- MODULE Sessions -------------------------------
(***************************************************************************)
(* Login sessions of the dashboard (sentinel/web/sessions.py), kept in      *)
(* memory and in the table auth_sessions, and the requests of the gate that *)
(* change them (sentinel/web/auth.py).                                      *)
(*                                                                         *)
(* A request is cut twice at each database write: it waits for the          *)
(* connection, the write commits or fails, the request resumes.  Others run *)
(* in between, or the process dies.  A request that only looks a session up *)
(* runs without an await and changes nothing.                               *)
(*                                                                         *)
(* Ages are classes: 0 is younger than REFRESH_INTERVAL, 1 is due for a     *)
(* refresh, 2 is older than COOKIE_MAX_AGE.  Within a class either session  *)
(* may be the older one.                                                    *)
(***************************************************************************)
EXTENDS FiniteSets, Integers

CONSTANTS
  Tokens,        \* the tokens that will ever be drawn: each only once
  NoToken,
  Requests,      \* requests that may be under way at once
  MAX_SESSIONS   \* MAX_SESSIONS

ASSUME SessionsAssumption ==
  /\ NoToken \notin Tokens
  /\ MAX_SESSIONS \in Nat \ {0}

VARIABLES
  sessions,  \* SessionStore._sessions
  rows,      \* the table auth_sessions
  age,       \* class of refreshed_at in memory
  rowAge,    \* class of refreshed_at in the table
  request,   \* what each request is doing
  minted,    \* tokens drawn so far
  issued,    \* tokens a browser holds in its cookie
  booting,   \* load() is still trimming the table to the cap
  out,       \* ghost: tokens whose logout was answered with success
  leftover,  \* ghost: tokens evicted from memory whose row stayed behind
  raced      \* ghost: tokens caught by a logout-all in one store only

store == <<sessions, rows, age, rowAge>>
ghosts == <<out, leftover, raced>>
vars == <<store, request, minted, issued, booting, ghosts>>

Steps == {"idle", "insert", "inserted", "evict", "touch", "delete", "deleted",
          "deleteAll", "deletedAll"}
Idle == [at |-> "idle", token |-> NoToken, victim |-> NoToken, known |-> {}]

TypeOK ==
  /\ sessions \subseteq Tokens /\ rows \subseteq Tokens
  /\ age \in [Tokens -> 0..2] /\ rowAge \in [Tokens -> 0..2]
  /\ request \in [Requests -> [at : Steps, token : Tokens \cup {NoToken},
                               victim : Tokens \cup {NoToken}, known : SUBSET Tokens]]
  /\ minted \subseteq Tokens /\ issued \subseteq minted
  /\ booting \in BOOLEAN
  /\ out \subseteq issued /\ leftover \subseteq minted /\ raced \subseteq minted
  /\ booting \/ Cardinality(sessions) <= MAX_SESSIONS

At(r, step) == request[r].at = step

Goto(r, step) == request' = [request EXCEPT ![r].at = step]

Answer(r) == request' = [request EXCEPT ![r] = Idle]

Init ==
  /\ sessions = {} /\ rows = {}
  /\ age = [t \in Tokens |-> 0] /\ rowAge = [t \in Tokens |-> 0]
  /\ request = [r \in Requests |-> Idle]
  /\ minted = {} /\ issued = {}
  /\ booting = FALSE
  /\ out = {} /\ leftover = {} /\ raced = {}

\* A delete, which may be given a token without a row.  The age of a row that
\* is gone means nothing.
Delete(S) ==
  /\ rows' = rows \ S
  /\ rowAge' = [t \in Tokens |-> IF t \in S THEN 0 ELSE rowAge[t]]

Forget(S) ==
  /\ sessions' = sessions \ S
  /\ age' = [t \in Tokens |-> IF t \in S THEN 0 ELSE age[t]]

\* The first of the least recently refreshed.
Oldest(S) == {t \in S : \A u \in S : age[u] <= age[t]}
-----------------------------------------------------------------------------
(* POST /login with the right credentials: SessionStore.create().          *)

Login(r) ==
  /\ ~booting /\ At(r, "idle")
  /\ \E t \in Tokens \ minted :
       /\ request' = [request EXCEPT ![r] = [Idle EXCEPT !.at = "insert", !.token = t]]
       /\ minted' = minted \cup {t}
  /\ UNCHANGED <<store, issued, booting, ghosts>>

Insert(r) ==
  /\ At(r, "insert")
  /\ \/ /\ rows' = rows \cup {request[r].token}
        /\ Goto(r, "inserted")
     \/ /\ Answer(r)      \* the insert failed: no session, no token
        /\ UNCHANGED rows
  /\ UNCHANGED <<sessions, age, rowAge, minted, issued, booting, ghosts>>

\* Answer a login unless the cap calls for a victim, which is popped before
\* the wait for its row.  It may be the new session itself, when all others were
\* refreshed while its row was inserted, or the clock stepped back.
EvictOrAnswer(r, S) ==
  LET t == request[r].token IN
  IF Cardinality(S) > MAX_SESSIONS
  THEN \E victim \in Oldest(S) :
         /\ sessions' = S \ {victim}
         /\ age' = [age EXCEPT ![victim] = 0]
         /\ request' = [request EXCEPT ![r].at = "evict", ![r].victim = victim]
         /\ UNCHANGED issued
  ELSE /\ sessions' = S
       /\ issued' = issued \cup {t}
       /\ Answer(r)
       /\ UNCHANGED age

\* Fault: the session is in memory before its row is written.
AddFirst(r) ==
  \/ /\ At(r, "insert")
     /\ request[r].token \notin sessions
     /\ sessions' = sessions \cup {request[r].token}
     /\ UNCHANGED <<rows, age, rowAge, request, minted, issued, booting, ghosts>>
  \/ /\ At(r, "inserted")
     /\ EvictOrAnswer(r, sessions)
     /\ UNCHANGED <<rows, rowAge, minted, booting, ghosts>>

Add(r) ==
  /\ At(r, "inserted")
  /\ EvictOrAnswer(r, sessions \cup {request[r].token})
  /\ UNCHANGED <<rows, rowAge, minted, booting, ghosts>>

Evict(r) ==
  /\ At(r, "evict")
  /\ \/ /\ Delete({request[r].victim})
        /\ leftover' = leftover \ {request[r].victim}
     \/ /\ leftover' = leftover \cup ({request[r].victim} \cap rows)
        /\ UNCHANGED <<rows, rowAge>>
  /\ EvictOrAnswer(r, sessions)
  /\ UNCHANGED <<minted, booting, out, raced>>
-----------------------------------------------------------------------------
(* Any request with a valid session that is due for a refresh.  It is       *)
(* passed on to the application after the write, whatever becomes of the    *)
(* session in between.                                                      *)

Refresh(r) ==
  /\ ~booting /\ At(r, "idle")
  /\ \E t \in issued \cap sessions :
       /\ age[t] > 0
       /\ age' = [age EXCEPT ![t] = 0]
       /\ request' = [request EXCEPT ![r] = [Idle EXCEPT !.at = "touch", !.token = t]]
  /\ UNCHANGED <<sessions, rows, rowAge, minted, issued, booting, ghosts>>

\* An UPDATE touches no row that is not there.
Touch(r) ==
  /\ At(r, "touch")
  /\ rowAge' \in {rowAge, [rowAge EXCEPT ![request[r].token] = 0]}
  /\ Answer(r)
  /\ UNCHANGED <<sessions, rows, age, minted, issued, booting, ghosts>>
-----------------------------------------------------------------------------
(* POST /logout with a cookie, valid or not: the row first.                 *)

Logout(r) ==
  /\ ~booting /\ At(r, "idle")
  /\ \E t \in issued :
       request' = [request EXCEPT ![r] = [Idle EXCEPT !.at = "delete", !.token = t]]
  /\ UNCHANGED <<store, minted, issued, booting, ghosts>>

\* Fault: a failed delete is taken for a success.
LogoutDeleteIgnored(r) ==
  /\ At(r, "delete")
  /\ \/ Delete({request[r].token}) /\ leftover' = leftover \ {request[r].token}
     \/ UNCHANGED <<rows, rowAge, leftover>>
  /\ Goto(r, "deleted")
  /\ UNCHANGED <<sessions, age, minted, issued, booting, out, raced>>

LogoutDelete(r) ==
  /\ At(r, "delete")
  /\ \/ /\ Delete({request[r].token})
        /\ leftover' = leftover \ {request[r].token}
        /\ Goto(r, "deleted")
     \/ /\ Answer(r)      \* 503, and the session stays
        /\ UNCHANGED <<rows, rowAge, leftover>>
  /\ UNCHANGED <<sessions, age, minted, issued, booting, out, raced>>

LogoutDone(r) ==
  /\ At(r, "deleted")
  /\ Forget({request[r].token})
  /\ out' = out \cup {request[r].token}
  /\ Answer(r)
  /\ UNCHANGED <<rows, rowAge, minted, issued, booting, leftover, raced>>
-----------------------------------------------------------------------------
(* POST /logout-all, by a session or with Basic credentials.  known is what *)
(* there was when it came in.                                               *)

LogoutAll(r) ==
  /\ ~booting /\ At(r, "idle")
  /\ request' = [request EXCEPT ![r] = [Idle EXCEPT !.at = "deleteAll",
                                                    !.known = sessions \cap issued]]
  /\ UNCHANGED <<store, minted, issued, booting, ghosts>>

\* A login that is between its row and its place in memory keeps the latter.
LogoutAllDelete(r) ==
  /\ At(r, "deleteAll")
  /\ \/ /\ Delete(Tokens)
        /\ leftover' = {}
        /\ raced' = raced \cup {request[q].token : q \in {q \in Requests : At(q, "inserted")}}
        /\ Goto(r, "deletedAll")
     \/ /\ Answer(r)      \* 503
        /\ UNCHANGED <<rows, rowAge, leftover, raced>>
  /\ UNCHANGED <<sessions, age, minted, issued, booting, out>>

\* A login that came in between keeps its row.
LogoutAllDone(r) ==
  /\ At(r, "deletedAll")
  /\ Forget(Tokens)
  /\ out' = out \cup request[r].known
  /\ raced' = raced \cup (sessions \cap rows)
  /\ Answer(r)
  /\ UNCHANGED <<rows, rowAge, minted, issued, booting, leftover>>
-----------------------------------------------------------------------------
Older(S, a) == [t \in Tokens |-> IF t \in S /\ a[t] < 2 THEN a[t] + 1 ELSE a[t]]

\* No request lasts as long as one class of age.
TimePasses ==
  /\ \A r \in Requests : At(r, "idle")
  /\ age' = Older(sessions, age)
  /\ rowAge' = Older(rows, rowAge)
  /\ UNCHANGED <<sessions, rows, request, minted, issued, booting, ghosts>>

\* load(): prune, list, and trim to the cap before the server listens.
Load(kept) ==
  /\ rows' = kept /\ sessions' = kept
  /\ rowAge' = [t \in Tokens |-> IF t \in kept THEN rowAge[t] ELSE 0]
  /\ age' = rowAge'
  /\ booting' = (Cardinality(kept) > MAX_SESSIONS)
  /\ leftover' = {} /\ raced' = {}

\* Fault: sessions due for a refresh are pruned.
RestartPrunesDue ==
  /\ Load({t \in rows : rowAge[t] < 1})
  /\ request' = [r \in Requests |-> Idle]
  /\ UNCHANGED <<minted, issued, out>>

\* The process ends at any point and is started again.
Restart ==
  /\ Load({t \in rows : rowAge[t] < 2})
  /\ request' = [r \in Requests |-> Idle]
  /\ UNCHANGED <<minted, issued, out>>

ChangeCredentials ==
  /\ Load({})
  /\ request' = [r \in Requests |-> Idle]
  /\ UNCHANGED <<minted, issued, out>>

TrimAtStart ==
  /\ booting
  /\ \E victim \in Oldest(sessions) :
       /\ Forget({victim})
       /\ \/ Delete({victim}) /\ UNCHANGED leftover
          \/ leftover' = leftover \cup {victim} /\ UNCHANGED <<rows, rowAge>>
  /\ booting' = (Cardinality(sessions') > MAX_SESSIONS)
  /\ UNCHANGED <<request, minted, issued, out, raced>>
-----------------------------------------------------------------------------
Next ==
  \/ \E r \in Requests :
       \/ Login(r) \/ Insert(r) \/ Add(r) \/ Evict(r)
       \/ Refresh(r) \/ Touch(r)
       \/ Logout(r) \/ LogoutDelete(r) \/ LogoutDone(r)
       \/ LogoutAll(r) \/ LogoutAllDelete(r) \/ LogoutAllDone(r)
  \/ TimePasses \/ Restart \/ ChangeCredentials \/ TrimAtStart

Spec == Init /\ [][Next]_vars
-----------------------------------------------------------------------------
\* Once a logout, or a logout-all that found the session, was answered, the
\* token is neither accepted nor left in the table, where the next start would
\* revive it (the docstrings of revoke and revoke_all).
LogoutIsFinal == out \cap (sessions \cup rows) = {}

\* The two stores hold the same sessions, except for a token on which a
\* request is between its two writes, a victim whose delete failed, and a
\* login that raced a logout-all (both accepted in sessions.py).
StoresAgree ==
  /\ \A t \in sessions \ rows :
       \/ t \in raced
       \/ \E r \in Requests : At(r, "deleted") /\ request[r].token = t
       \/ \E r \in Requests : At(r, "deletedAll")
  /\ \A t \in rows \ sessions :
       \/ t \in leftover \cup raced
       \/ \E r \in Requests : At(r, "inserted") /\ request[r].token = t
       \/ \E r \in Requests : At(r, "evict") /\ request[r].victim = t

\* What a crash may lose or revive.
Unsettled ==
  leftover \cup raced \cup {t \in Tokens : rowAge[t] = 2}
    \cup {request[r].token : r \in {r \in Requests : request[r].at \in {"inserted", "deleted"}}}
    \cup {request[r].victim : r \in {r \in Requests : At(r, "evict")}}
    \cup (IF \E r \in Requests : At(r, "deletedAll") THEN Tokens ELSE {})

\* A login lasts across restarts until it is logged out, makes room for a
\* newer one or the credentials change; nothing else ends or revives it.
Promise == INSTANCE Login WITH live <- sessions, ended <- out,
                               unsettled <- Unsettled \ {NoToken}
LastsUntilLogout == Promise!Spec
=============================================================================
