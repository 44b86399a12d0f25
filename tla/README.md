# A formal model of centauri-sentinel

Sentinel watches a 3D printer through its camera, asks an ML service whether the print
is failing, and pauses the printer when it is. A pause that nobody answers is escalated
to a stop. It runs as one asyncio process beside a printer that it does not control: the
printer has its own panel, the link to it drops, commands are lost or executed late, and
an operator acts through a dashboard and a Telegram bot at the same time.

What can go wrong in it is therefore a matter of order: a status that is stale when it is
used, a command whose outcome is unknown, an operator who acts between two awaits of the
watcher's tick. This directory holds TLA+ models of the parts where that matters, the TLC
configurations that check them, and TLAPS proofs of the invariants that hold for every
value of the constants.

## 1. Inventory

Everything below runs on one event loop, so code between two awaits is atomic; the model's
steps are cut at the awaits that let somebody else act on the same state.

| Component | State it keeps | Operations | Hard behaviour | What makes it correct |
|---|---|---|---|---|
| Watcher loop (`sentinel/watcher/loop.py`) | state, streak, ML error count, pause time stamp and ownership, adoption marker, cooldown anchor, current file, snooze task | `_tick` (status, update, auto-stop, frame, ML, pause), `external_transition`, `note_operator_*`, `snooze`, `_watchdog_tick` | a tick spans many awaits; the watchdog and the handlers write the same state in between | pauses only what it watches; ownership is never invented; an owned pause is escalated; hits do not cross contexts |
| Printer client, commands (`printer/client.py`) | debounce anchor, pending stop, registration ids, command counter, two locks | `pause`, `resume`, `stop`, `_send_command`, `_with_retry`, `reconfigure`, `close` | publish, ack, retry and cancellation; one session at a time per purpose | a command is published at most once; an unknown outcome is told from a failure |
| Printer client, status link (`printer/client.py`) | merged state, connection generation, baseline, provisional view, silence timer, snapshot rate limit | `_listen_loop`, `_snapshot_loop`, `_fetch_status` | pushes are deltas; snapshots answer late; reconnects | an unknown print state is never idle; old data is never served as current |
| Snooze and the detection switch (`watcher/loop.py`, `bot/commands.py`, `web/routes.py`) | three persisted settings, one task | snooze, expiry, enable, disable, restart | crash between two writes; handlers interleave at each write | detection comes back exactly if it was on |
| Camera (`camera/mjpeg.py`) | broadcaster task, latest frame or exception, failure count, viewer queues | `grab`, `stream_proxy`, `close`, `reconfigure` | task restarts under waiting readers | no stale frame after an outage; readers do not hang |
| ML client and nonce store (`ml/`) | up to 20 frames by nonce with TTL, failure count | `detect`, `put`, `get`, `pop` | the ML service calls back while the request runs, possibly after a retry | the frame fetched is the frame asked about; bounded memory |
| Dispatcher (`notify/dispatcher.py`) | up to 20 tasks, failed channels | `dispatch_*`, `_with_retry` | cap and cancellation; outcomes out of order | critical alerts are the last to be dropped |
| Notifiers (`notify/telegram.py`, `notify/ntfy.py`) | HTTP clients | one send per alert | library retries | not modelled (I/O) |
| Bot commands (`bot/commands.py`) | pending stops, rate-limit history per user | commands and buttons | 30 s confirmation window, limit of five a minute | no stop without a fresh confirmation |
| Bot runner (`bot/runner.py`) | application, crash count, failures | supervisor loop | restart backoff | comes back; bounded backoff |
| Web routes (`web/routes.py`) | none of its own | control, settings, clear, readiness | run between the watcher's awaits | same as the watcher's hooks |
| Auth and sessions (`web/auth.py`, `web/sessions.py`) | sessions in memory and database, attempts per address | login, logout, logout-all, refresh, eviction, load | two stores, awaits between them, restart | a revoked session stays revoked |
| Database (`db/repo.py`) | one connection, lock, settings cache | reads, writes, pruning, reconciliation | cancellation in a commit, crash with an open job | cache equals table; one open job at most |
| Migrations (`db/migrate.py`) | schema version | `migrate` | interrupted rename | repeatable |
| Lifecycle (`__main__.py`, `server.py`) | tasks | start, shutdown | a pause in flight at shutdown | clients outlive the pause |
| Configuration, network checks, health check, diagnostics, dashboard, packaging | none that evolves | - | - | not modelled: pure functions, I/O or layout |

Interactions: the watcher calls the printer client, camera, ML client, database and
dispatcher; the web routes and the bot call the printer client and the watcher's hooks and
write the same settings; the watchdog, the snooze task and the tick write the watcher's
state; the ML service calls back into the web application for the frame; the status
listener feeds the view every `status()` reads.

## 2. Plan

Modules, in order of importance. An entry marked *done* is described below.

1. `Watcher` (*done*): the tick with the printer, its link, the operator and the watchdog;
   `Watcher_proofs` (*done*): its invariants.
2. `Snooze` (*done*): settings, task, restart at every write.
3. `PrinterCommand` (*done*): connect, register, publish, ack, retry, debounce, one control
   lock; it implements `Command` (*done*), at-most-once execution with truthful outcomes.
   `PrinterCommand_proofs` (*done*) proves that for any number of calls.
4. `PrinterLink` (*done*): generations, deltas, snapshots, provisional views.
5. `Sessions` (*done*): login sessions in memory and in the database; it implements `Login`
   (*done*), a login as one set.
6. `Frames` (*done*): the camera's broadcaster, its readers and its viewers.
7. `Lifecycle` (*done*): start, stop and crash of the process, with the rows of the print
   history and the pause in flight that a stop must not cut off.
8. `Dispatcher` (*done*): the cap of background notifications; `Bot` (*done*), which extends
   it: the supervisor and the two-step stop.
9. Proofs (*done*): `Watcher_proofs`, `Snooze_proofs`, `PrinterCommand_proofs`,
   `PrinterLink_proofs`, `Sessions_proofs`, `Frames_proofs`, `Lifecycle_proofs` and
   `Bot_proofs` prove every safety property that a passing run checks, and the two
   refinements (section 12).
10. To come: a weaker hypothesis for the theorem of `Watcher` that excludes a resume from the
    web during auto-stop, by naming the interleaving that breaks it instead of the operator.

Each module has one run, and `Watcher` one for each question with bounds of its own. `MCWatcher` gives the run with
two files its symmetry. What is
left out on purpose is in section 12.

## 3. Module `Watcher`

### State and code

`w` is a record of `WatcherLoop`'s attributes, one field per attribute (the comment at
`WatcherType` names them). `SetState` is the `state` setter with everything it does:
cooldown, debounce, episode and marker are reset at the end of a pause, also of one that
OFFLINE or STALLED interrupted. `UpdateState` is `_update_state`, written as a function
on that record; `PauseTimer`, `AutoStopDue`, `Gate` and `GateTo` are the rest of `_tick`.

`pc` says at which await a tick is suspended:

| pc | suspended in |
|---|---|
| `idle` | `_loop`'s sleep |
| `retry` | the retried `stop()` at the start of a tick |
| `fetch` | `get_fresh_status(force=True)` |
| `update` | the database reads and job bookkeeping of `_update_state` |
| `stop` | auto-stop's `stop()` |
| `grab`, `detect` | camera, ML service |
| `publish` | before `printer.pause()` (snapshot file, alert) |
| `acking` | the command is published, its ack is awaited |
| `backoff` | between two attempts of `_with_retry` |
| `recordOk`, `recordUnknown` | the ML path's database row, written before the outcome takes effect |

`printer` is what the printer does, `view` the last status it pushed, `obs` the status this
tick works on. `inflight` holds published pauses the printer has not executed: a pause
whose ack was lost may still land. `owner`, `votes` (the files of the high frames in a row)
and the field `w.resumed` (the operator resumed this print from the dashboard) are history
variables used only by properties. Commands share the control lock: none is sent while an ack
is awaited.

A job is recorded with the name of the first report that sees it (`w.tracked`, `w.curFile`),
which may be none, since a report need not carry one (`client.py`); the name may follow later
(`NameReported`). As in the code, the name of a recorded job is never updated, and a change of
files ends the job only if it was recorded with one (`OtherJob`).

The operator acts through the web or Telegram (`control_pause` and `cmd_pause`, and so on,
run the same calls) or at the printer's panel, which Sentinel sees only as a status. A
handler is split at the command it awaits (`WebPause`, `WebPauseSent`) where its outcome
depends on who comes first.

### Time

Stamps that are only compared with "now" are counters moved by `Pass`. A unit is at least
the time a push needs to arrive, so `Pass` waits until a live view is current; any await
may take any number of units. `cooldown`, `markerLeft` and `debounce` count down,
`pausedFor` counts up and saturates one above the largest bound it is compared with. The
confirm and ML error counters saturate at their thresholds for the same reason.

### Runs

| Run | Question | Bounds that matter |
|---|---|---|
| `commands` | Does the watcher pause only a print it watches, and decide a stop only for an owned pause that this tick saw paused, when commands fail and an operator interferes at the web and the panel? | 1 file, all windows 1 or 2 units, refused and unacknowledged commands |
| `outages` | Can a frame count outside a warm, running print? Can the hits of one named job confirm on another, or a muted alert cross from one job, or one switch of detection, into another? Does a pause interrupted by OFFLINE and STALLED, in any order, end with cooldown and fresh streak? | 2 files, reported at once or later; link, silence, camera, watchdog, refused pauses; resumes from the dashboard; debounce of one unit; no auto-stop |
| `recovers` | With an ML service that answers low or fails: does the watcher come back to looking at frames, does a dead ML service get the print paused, and can such a pause be auto-stopped without the opt-in? | fairness, windows of 1 unit, CONFIRM = ML_THRESHOLD = 1 |
| `escalates` | With frames that are all high: does the print stop in the end, is an owned pause escalated, a failed stop retried until it works? | fairness, windows of 1 unit, CONFIRM = 1; link outages, stalls, refused and unacknowledged commands; no operator |
| `v_autostop` | A statement of the documentation that the code does not keep (section 11) | - |

In the safety runs two units for debounce, adoption window and auto-stop, and one for
cooldown and the 5 s guard, keep the order of the real values (5 s, 30 s, 60 s, minutes)
where the code relies on it and let each window lapse, or not, between any two steps. Two
confirmations are the smallest number for which a streak can be cut. One file is enough
unless jobs are told apart; the run with two takes them as interchangeable (`MCWatcher`), which
is sound because it checks safety only and the code does nothing with a name but compare it.

`PauseNeedsConfirmedStreak` asks for frames of one file only of a job that was recorded with a
name. Of a nameless job the code notices no successor, and its hits do count against the next
print (section 11).

`FramesOnlyFromWarmPrints` is checked without auto-stop. With it and a resume from the web it
does not hold: a resume during auto-stop's await moves the watcher to ARMED, and once the
cooldown has passed the same tick, whose status said paused, looks at a frame.

### Fairness

`Tick` is weakly fair: the loop catches every exception and goes on. `Pass` and the push
and reconnect of the link are fair because the clock and the listener's own loop run for
ever; `Pass` needs strong fairness because other steps make the view stale and so disable
it again and again. Strong fairness on the success of a grab, of a published pause, of its
execution and ack, and of a stop says that a call which is retried for ever succeeds in the
end; without it no claim about halting a print could hold. Nothing is assumed of the
operator, the print, the scores or the watchdog. `LinkSettles` is a hypothesis of the three
properties that need a link.

### Proofs

`Watcher_proofs` proves every safety property of the runs, for all constants that satisfy
`ConstantsAssumption`. Each rests on the basic invariant `IInv` and most on one more, which
is inductive relative to it:

| Theorem | Property | Invariant besides `IInv` | Hypothesis |
|---|---|---|---|
| `TypeCorrect` | `TypeOK` | | |
| `PausesWatchedPrintsOnly` | `PausesOnlyWhenWatching` | | |
| `OwnershipIsAnchored` | `OwnershipHasAnchor` | | |
| `StopNeedsPausedReport` | `StopDecidedOnPausedReport` | | `AutoStopAssumption` |
| `AlertsAreNotMuted` | `SilentOnlyAsRetry` | `AlertInv` | |
| `OutagesDoNotStop` | `MlOutageNeverStops` | `OutageInv` | |
| `OnlyWarmPrintsAreScored` | `FramesOnlyFromWarmPrints` | `WarmInv` | no auto-stop, or `NoWebResume` |
| `PauseIsConfirmed` | `PauseNeedsConfirmedStreak` | `StreakInv` | |
| `OutageResumeCoolsDown` | `ResumeAfterOutageCoolsDown` | `PauseInv` | |

`IInv` is the first four properties and `StatusHeld`: a tick on its way to a frame still
holds a status, without which a score would have no file to be counted for. An automatic stop
is due only if the tick's status said paused: a report of "printing" leaves PAUSED only when
the pause is older than the guard, so a record that is still PAUSED after it is not old
enough for auto-stop. This is where `AutoStopAssumption` (the 5 s guard does not exceed the
timeout) enters.

The lemmas follow the code. `SetState`, each branch of `_update_state` and each handler is
summarised once by what it leaves alone (`SameState`, `SameJob`, `SamePause`, `SameEpisode`)
or by the relation `Benign`, and the steps then preserve each invariant from the summaries.

- `AlertInv`: a muted alert belongs to a pause that is owed, is under way or was reached. The
  middle case is needed because a pause that fails gives the streak back only at its end.
- `OutageInv`: with no high frame and no opt-in, every pause under way is for an ML failure
  and no stop is awaited. The property is an implication from `OnlyOutages`, and the theorem
  splits on it.
- `WarmInv`: a stop is awaited in the state it was decided in.
- `StreakInv`: the votes are at least as many as the streak says and, for a job with a name,
  the last of them are for it; a pause for a detection is on its way only with all of them.
- `PauseInv`: the pause timer runs only for a pause that lasts, that an outage interrupted, or
  that the operator resumed from the dashboard.

The last two hold under any operator. A resume from the dashboard during a pause's attempt
leaves the streak that the code writes back when the attempt fails, so `votes` keeps it as
well (that the code does so is in section 11). A resume leaves the timer to the next tick; if
an outage comes first, the cooldown runs from the resume and the end of the outage starts no
other, which the property states with `w.resumed`.

`NoWebResume` says that the operator does not resume through the web or Telegram (at the
panel he may at any time). It is a statement about `OPERATOR`, a constant that the runs set
too, and only `OnlyWarmPrintsAreScored` asks for it, if there is auto-stop at all: TLC refutes
it with both, by the resume during auto-stop's await described above.

Liveness is checked by TLC only: it rests on fairness, which the prover does not treat.

### Not modelled in `Watcher`

Notification texts and the two guards that mute only them (`_auto_stop_notified`,
`_alerted_new_print`, `prev_state`); snapshots on disk; the age of the heartbeat (the
watchdog may fire at any time, which is more than the code does); a printer address that
changes at run time; settings that change at run time other than the detection switch. Job
rows and cancellation at shutdown are in `Lifecycle`.

## 4. Module `Snooze`

`stored` is the `runtime_settings` table restricted to the three settings, `cached` the
cache in front of it; both are booleans per key, because only "an expiry is set" matters,
not which. `task` holds every task that `_re_enable_after` runs in, `current` is
`_snooze_task`, `handler` the next write of each request or command, `startup` the place of
`run_forever`. Each `set_setting` is one step, so that a crash or another handler can come
before the next; reads come from the cache and do not suspend. A task that is cancelled
while its write commits may or may not have changed the table, and has not changed the
cache (`Database._write` re-raises before `set_setting` assigns it). A write that
fails changes nothing and ends what it belongs to: a command (`FailCommand`), the startup
(`Crash`), or the expiry (`FailExpire`), whose task is then gone and is not started again, so
that detection stays off until the next command or restart. `CUTS` says what a crash or a
failed write may cut short. Handlers begin at any time after the start of the process.

Two history variables serve the properties. `wanted` is what the last completed `/enable` or
`/disable` asked for. `damage` says what the code has left behind:

| damage | when | until |
|---|---|---|
| `stuck` | a failed write has left detection off with no task to switch it on | the next command or restart |
| `mixed` | a snooze met another command, a command met the startup, a switch was cut short, or a snooze failed that had cancelled an expiry in its commit | the operator uses `/enable` or `/disable` while nothing else is at work |

The code gives no guarantee in a `mixed` state (section 11), and the properties ask nothing of
it except that the next lone switch ends it. Two switches that meet are not among them: they
leave what the last of them asked for.

| Run | Question | Bounds that matter |
|---|---|---|
| `snooze` | Commands that may meet, crashes and failed writes at every step of them and of an expiry: does the switch end up as the operator left it? | fairness; 2 handlers, 2 tasks, everything in `CUTS` |

Two handlers are enough for each pair of commands to meet at each write, and two tasks for one
that sleeps on after another has replaced it. Fairness: every task, handler and the startup
goes on, sleeps end, and the service manager restarts the process. `DetectionComesBack` asks
that the operator stops snoozing, that the process stays up, and that no write has failed since
the last command or restart. The last is needed: `Snooze_v_expiry.cfg` refutes `SnoozeEnds`,
the same without it (section 11).

`Snooze_proofs` proves `TypeOK`, `DisabledIsKept`, `SnoozeIsRecoverable` and `CacheAgrees` for
any handlers and tasks, with no hypothesis. The invariant is `TypeOK` and, while nothing is
mixed (`Clean`), `CleanInv`. A step into a mixed state has nothing to show, and the lone switch
that ends one has to establish it from `TypeOK` alone. `CleanInv` says what each writer may
rely on: a snooze is alone, and what ends a snooze is the startup or the current task
(`OneActor`); both stores say what the operator wants, by the switch or by an expiry with its
flag, unless a switch is half done (`SettingsMeant`); the cache lags behind the table in one
direction only, after a commit that was cancelled (`CacheBehind`), and not between commands
(`QuietAgrees`); at each step of an end, a snooze or a switch the writes before it have been
made (`EndsReady`, `HandlersReady`); and a task sleeps beside its expiry (`SleepsInSnooze`).

## 5. Modules `Command` and `PrinterCommand`

`Command` is what a caller may rely on: a call is open until it is reported "ok", "failed"
or "unknown"; it executes at most once, before an "ok" and never beside a "failed". An
unknown outcome promises nothing, and the command may still execute after it.

`PrinterCommand` is the code below `pause`, `resume` and `stop`. `phase[c]` is the await a
call is suspended in:

| phase | suspended in |
|---|---|
| `lock` | `_reg_locks["control"]`, taken anew by each attempt |
| `connect` | `_guarded_connect` |
| `register` | the registration and its answer |
| `ack` | the command is published, `_await_command_ack` reads |
| `backoff` | tenacity's wait between attempts, with the lock free |

An outcome is the exception or return of the call: "failed" an error of the kind that
`_with_retry` gives up on, "rejected" `PrinterCommandError`, "unknown"
`PrinterCommandUnacknowledgedError`, "cancelled" `CancelledError`, "debounced"
`PauseDebouncedError`. `queue` is the lock, holder first. `session` is the printer that the
session reaches: the host is read when the lock is taken, the serial when the topics are
made, and a session whose two belong to different printers reaches none. A command id is
the pair of call and attempt, which `_next_request_id` keeps unique. `requests` and `acks`
are sets: nothing is assumed of the order in which the printer looks at commands, and each
may be lost on either way. `anchor` is the time since `_last_pause_at`. `executed`, `aim`
and `sent` are history variables.

| Run | Question | Bounds that matter |
|---|---|---|
| `command` | Does it implement `Command`? Does the debounce ever block a pause without cause? Does every call end, and the lock reach every caller? | fairness; 2 pauses, 2 attempts, 2 printers, cancellation anywhere |

Two calls compete for the lock and can take each other's answer; a third adds no new
relation, since a call meets the others only through the lock, the answers and the anchor.
Both are pauses, the only method with rules of its own; resume and stop are the calls that
do not read the anchor. Two attempts are one retry; the proof has no such bounds. The
debounce window is one unit; a call may take any number.

Fairness is that every await of a call ends: each is under a timeout in the code, or is
the lock, which its holder's end releases. Nothing is assumed of the printer.

`PrinterCommand_proofs` proves `CommandsKeepPromise`, `Spec => KeepsPromise`, for any sets
of calls and printers and any numbers of attempts. Its inductive invariant `IInv` says what
the wire reveals of a call. `QuietEnds`: a call whose command was not published, or whose
answer was read, has nothing on the wire. `OnWireOnce`: a call is there once, as one command
or as one answer. `WireTells`: a command on its way has not been executed, an answer tells
whether it was. `KnownOutcome`: "ok" and the failures are true. Each step of the code then
maps to a step of `Command` or to a stutter: an attempt that fails before its publish is a
stutter, which is why it may be retried, and the printer's execution is `Execute`. The proof
does not use the lock: the promise rests on the command ids and on `NoAck`, which is not
retried. The lock is there for the printer's sake, which accepts one session.

That it does its work is in `TypeCorrect`, since `TypeOK` says that a call in a session is at
the head of the queue. `LockInv`: the queue holds each call once, exactly those that wait for
the lock or are in a session. `ValueInv` is the rest of the types. `DebounceIsJustified` proves
`DebounceHasCause`, which is inductive beside them: a pause takes its anchor back when it fails
unless another pause, which may have reached the printer, has set it since.

Not modelled here: the pairs of registered ids and their expiry; `_stop_pending` (module
`Watcher`); the snapshot's own session and lock, which share no state with a command
(module `PrinterLink`).

## 6. Module `PrinterLink`

The variables are those of `PrinterClient` that hold a status. Of the status only the
print state is kept, "idle" or "printing"; `acc` is `_accumulated_data`, in which a push
may or may not have told that state. The comparison of generations is all the code does
with them, so `baseline` is `_baseline_gen == _conn_gen`, and `snap.current` says that the
snapshot in flight was asked for in the present one. `conn` is the place of `_listen_loop`:

| conn | the listener |
|---|---|
| `off` | is not running |
| `down` | connects or sleeps before it does |
| `up` | reads pushes |
| `dead` | reads, but its peer is gone and no error has shown yet |
| `ended` | the stream has ended without an error; it is about to connect again |

`snap` is the snapshot task: it waits to ask (`loop`), has asked (`asked`), has an answer
on its way (`answered`) or was cancelled and is still closing its session (`closing`); a
new one is not started while an old one is there (`_ensure_snapshot`), which is why
`Receive` asks again. `truth` is the printer; `since` and `word` are history variables:
when it was last in each state, and what the client was last told.

| Run | Question | Bounds that matter |
|---|---|---|
| `link` | Is what `status()` serves recent, and never behind what the printer has told? Does the state become known on a link that settles? | fairness; silence limit 2, provisional limit 3, 3 pushes in flight |

The limits keep the order of 45 s and 60 s. A view can be chained over two
reconnects within three units, and three pushes let a snapshot be overtaken by a change and
its reversal. `Tick` waits until pushes and answers have arrived: a unit is longer than
either travels, so a stale view is the client's doing and not the network's. A dead
connection is the exception: it loses pushes for as long as the client does not notice.

Fairness: the listener and the snapshot loop run for ever, `status()` is polled by the
watcher, the printer pushes, and time passes. `Tick` needs strong fairness since pushes
disable it. Strong fairness on the answer and its merge says that a request which is
repeated for ever succeeds at last. `BecomesKnown` has the settled link as a hypothesis.

`PrinterLink_proofs` proves `TypeOK`, `ServedIsRecent` and `NoOldWord` for any limits and any
number of pushes in flight. The invariant follows the data from the printer to the caller.
`InFlightIsNow`: what travels was true in this unit of time, which is what `Tick` waits for.
`WireEndsInTruth`: the last state on the wire is the printer's. `UpToDate`: with none on a
working wire, what the client holds or is about to merge is the truth; this is why a late
snapshot never undoes a push. `Aged`: `updateAge` and `provAge` cover the age of the state each
stands for, also when a view is carried over a reconnect. `LastWord`: of the two places that
keep a state the one that counts has the last word.

`Reconfigure` is one step here. Left out: the window between its writes and the listener's
end, the rate limit (here an ask may be held up for any time, which is more than the limit
does), parsing and the legacy format, the file name, and two callers of `status()` at once.

## 7. Modules `Login` and `Sessions`

`Login` is what the dashboard promises: a login lasts, across restarts, until it is logged
out, makes room for a newer one or the credentials change, and a logout that was answered is
final. `unsettled` names the tokens for which a crash decides.

`Sessions` is the session store: `sessions` in memory, `rows` in the table, an age for each.
`request[r].at` is where a request is: each database write is cut in two, before it (it waits
for the connection) and after it (the request resumes), since the code changes its memory
after the write for a login and a logout, and before it for an eviction. A restart may come
at any point and loads the table, pruned and trimmed to the cap. `out`, `leftover` and
`raced` are history variables: answered logouts, evicted tokens whose delete failed, and
logins caught by a logout-all in one store only. The last two are the differences between
the stores that `sessions.py` accepts in its comments; the properties accept no other.

| Run | Question | Bounds that matter |
|---|---|---|
| `sessions` | Is an answered logout final? Do the stores differ only while an operation is under way? Does it implement `Login`? | 2 requests, 3 tokens, room for 2 sessions |

Two requests are enough for each pair of operations to interleave at their writes; three
tokens fill the cap once more than it allows. Ages are three classes, since the code only
compares them with two limits and with each other.

`Sessions_proofs` proves `TypeOK`, `LogoutIsFinal` and `StoresAgree`, and that `Sessions`
implements `Login`, for any numbers of requests, tokens and places. Its invariant says what
a request may rely on after an await. `LoginsApart`: a token is in the hands of one login
until it is answered, and in memory only after its row was written. `VictimsPopped`: a
victim is out of memory before its row is deleted, and no login is about to add it.
`LogoutsHold`: the rows of a logout are gone once it is written, and do not come back.
`BootsFirst` and `Capped`: no request is taken before the table is trimmed. In the
refinement each write is a step of `Login` or a stutter; a token that some request, failed
delete or race may still add or remove is `unsettled`, so that a crash at any write maps to
the choice that `Login` leaves open.

The age limit is applied at the start only, as in the code: a session past it goes on working
until the process is restarted. A request whose session is logged out while it waits to write
its refresh is still answered. No liveness is claimed and no fairness assumed.

## 8. Module `Frames`

`task.at` is where `_broadcaster_task` is: `new`, `connecting`, `streaming`, `yielded` (a
frame was handed out, the loop resumes), `backoff`, `sleep`, or one of `Ended`. A frame is the
number of the camera that it came from; `url` counts the changes of the address. `grab[r]` is
a reader: `waiting` in the 50 ms poll, or with a frame in its hand. A viewer's `queue` holds
frames and the `end` that ends its response. `reconfigure()` cancels the task without waiting
for it (`unwinding` counts these), and then waits for the old client to close (`closing`); a
second change of the settings may come in between, since the route has no lock.

| Run | Question | Bounds that matter |
|---|---|---|
| `frames` | Can a reader get the frame of a failed connection or of a camera configured before its call? Can a viewer wait for nobody? Does the watcher get frames again? | fairness; 2 readers, 2 viewers for 1 place, 3 cameras |

Three cameras give two changes of the address, enough for one to overtake the other. Fairness:
the task, a cancelled task and the close go on, and the watcher keeps calling. A grab may time
out at any time; that a camera which answers is faster than the ten seconds, pauses of the task
aside, is a hypothesis of `CameraRecovers` (`Prompt`), as is the camera that answers for good.

`Frames_proofs` proves `FreshFrame` and `NoDeafViewer` for any readers, viewers, cameras and
places, from two invariants. `ReaderInv`: a task that is at work reads the configured camera
(`ReadsCurrent`); a frame that is kept is of a live connection to it, or of a former camera
(`LatestIsLive`); and a reader that waits asked for no later camera than that frame's
(`WaitersAsked`). `ViewerInv` is `NoDeafViewer` with its types, and rests on the first.

`FreshFrame` asks for the camera that was configured when the call began: a call that began
before a change may still get a frame of the camera before it. Left out: the parsing of the
stream, the difference between a bad read and an offline camera, and that a connection which
is open but silent serves its last frame until the read times out after ten seconds.

## 9. Module `Lifecycle`

`proc` is where `_run` is:

| proc | `_run` |
|---|---|
| `booting` | from `db.connect()` to `run_forever()`'s reconciliation |
| `running` | waits for the watcher or the server to end |
| `draining` | a signal has come; the server lets its connections end, the watcher goes on |
| `unwinding` | the watcher is cancelled and `gather` waits for it |
| `stopping` | `bot.stop()` |
| `closing` | clients, checkpoint, database |

`pc` is the await the tick is suspended in as far as the history goes: the row of an ended
job (`end`), the picture for its message (`alert`), the row of a new one (`start`), the count
of a pause (`count`), a pause (`publish`), and, once it is cancelled, the wait for that pause
(`wait`). Each write may fail and ends the tick; one that is cancelled may have been committed.
`open` is the set of rows with status `printing`. `orphans` (open rows that a failed
reconciliation left behind) and `waited` (the wait for the pause ran into its limit) are
history variables. Clearing the data and the retention delete rows under the watcher's hands.
`link` says whether the printer answers. While it does not, a tick returns before it looks at
the job (`Observe`), so a printer that is switched off at the end of its print, and stays off,
leaves its row open for as long as the process runs.

| Run | Question | Bounds that matter |
|---|---|---|
| `lifecycle` | Is more than one print ever shown as running? Does a print that is over stay open? Does a stop cut off a pause that could still complete, or outlast the container's grace period? | fairness; 2 files, 2 rows; 5, 15, 5 and 30 seconds in units of five |

Two files tell back-to-back jobs apart, and two rows are enough to show a second open one
beside the first. `ShutdownInOrder` adds up the limits that `server.py` says must stay inside the grace
period, with the bot's five seconds. Closing the clients and the database has no limit of its
own: it may outlast the period, and the container is killed in it, but in no part before.

Fairness: the loop, the pause task, the start and the shutdown go on, and a write that is
tried again at every tick succeeds at last (strong fairness of `RecordEnd`'s success). The
hypothesis of `HistoryCloses` is a process that stays up and a printer that answers and has
stopped; nothing is promised, or asked, of one that never answers again.

`Lifecycle_proofs` proves `OneOpenRow` and `ShutdownInOrder` for any files and rows and any
limits with `DRAIN + WAIT + BOT < GRACE` (`GraceAssumption`, the values of `server.py` and the
compose file). `RowFollowsJob`: the row of a job that is over is closed before the job is
forgotten, so a new row is inserted only beside orphans. `PauseIsAwaited` and `Unwinding`: a
pause that runs is awaited by the tick, or by the cancelled watcher within its limit. `InBudget`:
the clock is never ahead of the limits of the parts it went through.

Left out: the configuration of a first start, a second Ctrl+C outside the container (which
skips the ordered close, as `server.py` says), and the ids of closed rows.

## 10. Modules `Dispatcher` and `Bot`

`Dispatcher` has the notifications that are under way, oldest first, and `failed_channels`.
`Dispatch` is the fan-out over the channels and `FireAndForget` the cap. A task ends in any
order, by success or failure; its retries within are left out. One critical alert, the task
of one channel, is followed by two history variables: `alert` is what became of it, `newer`
counts the critical tasks fired after it, one by one. The alerts of one fan-out count too:
with several channels the later ones of a fan-out can displace the first of the same alert,
which is why the count is of tasks and not of alerts.

`Bot` extends it with the bot, whose own two texts (crashed, recovered) go through the same
dispatcher over the same service. `sup` is the place of `_supervisor_loop`, `app` whether
there is an Application and whether its updater runs, `was` and `crashed` are `was_running`
and `crash_count >= 1`. `pending` is `_pending_stops`; `asked`, a history variable, is what
a user asked for and has not withdrawn. Updates are handled one at a time, as
python-telegram-bot does; a user may send anything at any time, so the updates that wait at
Telegram need no variable. `called` is the user whose `/confirm` awaits `printer.stop()`;
what the stop does is in `Watcher`.

| Run | Question | Bounds that matter |
|---|---|---|
| `bot` | Does the bot stop a print only on its user's own fresh request, once? Is it back after any outage? Do texts push an alert out? Does a broken channel stay hidden? | fairness; 2 users and a stranger, 2 commands a minute, 2 tasks, 1 channel |

Two users can mix up their requests; two tasks are the smallest cap with a choice of victim;
two commands are the smallest limit under which a stop can be asked for and confirmed.
One channel keeps the run small; the proof has any number.

`Bot_proofs` proves both safety properties. `StopNeedsRequest` follows from `RequestIsLive`:
what the code remembers of a request is fresh only while the user's own request is. `AlertKept`
is proved for any channels and any cap that holds one fan-out, from `QueueInv`: one alert is
followed, it is critical, and the critical tasks behind it can be numbered increasingly up to
`newer` (`Numbered`), unless `newer` has reached the cap. When it is displaced no text was
left, so it heads a full queue of critical tasks, and their numbers give the bound
(`FullCount`). The fan-out is a recursive function; that there is such a function, and that
each of its tasks keeps the invariant, is an induction over the channels, done as the absence
of a least counterexample (`MinNat`).

Fairness: the supervisor's loop runs for ever, and the oldest task ends, by its limit of 90
seconds at the latest. The second assumes that fewer than twenty messages come in that time:
a displaced task records no failure. The watcher sends one when its state changes, far below
that rate. That Telegram can be reached, and the process stays up, are hypotheses of the
properties; a token that Telegram refuses is not modelled.

Two things the properties do not say. If all tasks are critical, even a text displaces the
oldest of them: docs/architecture.md says only that texts are dropped first. And the thirty
seconds are measured when the updates are handled: a `/stop` and a much later `/confirm`, both
sent while the bot was away, are handled together when it is back.

## 11. Where the code differs from its documentation

One of these is a listed run, `v_autostop`; the others are configurations kept beside the
listed runs. In each, TLC refutes the property that the entry names:

- `Watcher_v_name.cfg` (`HitsOfOneFile`): the comment in `_update_state` says that job A's
  streak does not carry into job B. A job whose first report has no file name is never told
  from the next one, and its hits confirm on it.
- `Snooze_v_expiry.cfg` (`SnoozeEnds`): the dashboard answers that detection is snoozed for a
  number of seconds. A database error in `_end_snooze` ends its task, nothing tries again, and
  detection stays off until the next command or restart.

- `Watcher_v_autostop.cfg` (`OperatorPauseNeverAutoStopped`): docs/architecture.md says an
  operator's pause is never adopted or auto-stopped. A pause of Sentinel's that the debounce
  suppresses looks at the live status; "paused" is taken as Sentinel's own even if the
  operator's pause caused it.
- `Watcher_v_acked.cfg` (`AckedStopNotRepeated`): `stop()` asks for explicit approval. A
  stop that was acknowledged stays pending until a status says idle, and the retry comes
  before the status is read: it can stop the next print.
- `Watcher_v_streak.cfg` (`StreakEndsWithResume`): docs/architecture.md says hits never
  carry across a resume. A failed pause restores the streak it saved before the await, also
  over an operator's resume.
- `Snooze_v_race.cfg` (`ExpiryKeepsDisabled`): the restore flag is there so that an expiry
  does not switch on detection that was disabled deliberately; a `/disable` inside a
  snooze's writes is overridden.
- `PrinterCommand_v_aim.cfg` (`StaysOnPrinter`): the comment in `close()` says that a stop
  intent must not carry over to another printer. A stop that waits for the lock or its
  backoff reads the address anew, and goes to the new printer once its serial is known.
- `Watcher_v_adopt.cfg` (`WebPauseNeverAdopted`): the operator's handler drops the adoption
  marker, but a tick that is already publishing arms it again afterwards.
- `Watcher_v_stop.cfg` (`StopsOnlyPausedPrints`): docs/architecture.md says the loop calls
  `stop()` only for the auto-stop escalation. The retry of a refused stop also hits a print
  the operator has resumed.
- `Snooze_v_switch.cfg` (`NeverStranded`): the comment in `snooze()` orders its writes so
  that a crash cannot leave detection off with no snooze to undo it; `/enable` writes in the
  other order.

## 12. What is proved, checked and left out

Proved with TLAPS, for every value of the constants that satisfies the modules' assumptions:
each safety property, invariant or action property, that a passing run checks, and the two
refinements. The run shows the same property on its instance.

| Module | Proved | Hypotheses besides the assumptions on the constants |
|---|---|---|
| `Watcher` | 8 invariants, 1 action property | no auto-stop or `NoWebResume` for one of them (section 3) |
| `Snooze` | 4 invariants | |
| `PrinterCommand` | 2 invariants, implements `Command` | |
| `PrinterLink` | 3 invariants | |
| `Sessions` | 3 invariants, implements `Login` | |
| `Frames` | 1 invariant, 1 action property | |
| `Lifecycle` | 2 invariants | `GraceAssumption` (section 9) |
| `Bot`, `Dispatcher` | 1 invariant, 1 action property | |

The proofs have the bounds of no run: any number of calls, attempts, tokens, requests, readers,
channels or pushes, and windows of any length. They share the models' abstractions.

Only model-checked, on the bounds of the tables above: the liveness properties (`KeepsWatching`,
`FailingPrintIsHalted`, `PauseEscalates`, `PendingStopTakesEffect`, `DetectionComesBack`,
`CallsEnd`, `BecomesKnown`, `CameraRecovers`, `HistoryCloses`, `BotComesBack`,
`BrokenIsVisible`), because they rest on fairness and ENABLED, which the prover does not treat;
and the refutations of section 11, which are counterexamples.

Not modelled, and why:

- notifiers, health check, diagnostics, dashboard, packaging: I/O, layout or tools that are
  not part of the running service;
- migrations: one sequential script before anything else runs, whose two transactions SQLite
  makes atomic; an interrupted one is done again from its start;
- the nonce store of the ML client: `detect()` has one caller, so one nonce lives at a time;
- bind safety, network checks, parsing of the configuration: pure functions with unit tests;
- the attempt limiter, CSRF and host checks of the gate: guards before the handlers that are
  modelled;
- the rate limit of status snapshots: counted over an hour against one clock;
- snapshot files on disk, whose cleanup goes by their age;
- the silent link composed with the watcher: two clocks of five and forty-five seconds.
