# A verification project for winet-integration

The program keeps one websocket session to a Sungrow WiNet-S dongle, polls the
devices behind it, publishes their readings to a database and to MQTT, and
lets HTTP clients send commands to the inverter. This project models those
parts in TLA+, checks them with TLC and proves their safety with TLAPS. Paths
below are relative to the repository; properties are named in `code style`.

## 1. Inventory

| Component | State | Operations | Talks to |
|---|---|---|---|
| `pendingCmd` (`internal/pkg/winet/winet.go`) | the slot `ch`, one buffered channel per call | `wait`, `deliver` | poll loop, commands, handlers |
| session `winet.service` (`internal/pkg/winet`) | `conn`, `token`, `loginReady`, `cancelPoll`, `currentDevice`, `properties`, `storedData`, `events` | `Connect`, `reconnect`, `getProperties`, `onMessage` and its handlers, `runPollLoop`, `Send...Command` | supervisor (call, events channel), connection (calls and callbacks), publisher |
| connection `sockets.Conn` (`pkg/sockets`) | `ws`, `closed`, `done`, `msgQueue`, the mutex | `Dial`, `Send`, `Close`, `readLoop`, `setupPing` | session (callbacks) |
| supervisor `startWinetService` (`cmd/cmd.go`) | failure count, health | the reconnect loop | session, `/health` |
| publisher, normalizer (`internal/pkg/publisher`) | last value per sensor | `PublishData`, `RegisterDevice` | session, stores, MQTT |
| MQTT (`internal/pkg/mqtt`) | announced devices | `Connect`, `Write`, `RegisterDevice` | publisher, broker |
| auth (`internal/pkg/auth`) | token cache beside the token table | `Login`, `Refresh`, `Logout`, cleanup | HTTP server, store |
| HTTP server (`internal/pkg/server`) | the requests in progress | routes, timeout and auth middleware, handlers | session commands, auth, store |
| migrations (`internal/pkg/database/migration`) | `schema_migrations` | `MigrateOracle`, `MigratePostgres` | database |
| process (`cmd/cmd.go`, `Run`) | the errgroup and its context | start, signal, shutdown | all of them |
| stores, configuration, model types, generated code | - | - | - |

What each needs to be correct:

* *pendingCmd*: a value goes to one open call and never to a later one; every
  call returns; if callers take turns, no answer misses its caller.
* *session*: one websocket, one poll loop in service, however often it is
  rebuilt; the answer taken is the answer to the request sent; data appears
  under the device it was asked of; requests go out on their own session; old
  loops end; a lost connection is replaced; where late or stale messages break
  one of these, nothing else does.
* *supervisor*, *process*: it ends for a reason and when told, reports its
  state honestly, does not reconnect for ever, cuts off no request that was
  being served.
* *connection*: a loss is signalled once and then closed, whoever sees it
  first; nothing is written to a closed connection; no goroutine is left.
* *publisher*: a value is only dropped as "already published" if it is, and a
  device as "already announced".
* *auth*: a token that was logged out stays out; one that was not is good
  until it expires, across restarts.
* *requests*: 204 is the truth; the last command is what the inverter does.
* *migrations*: the record of what was applied is true after an end of the
  process anywhere, and no request meets a schema that is half done.

The hard behaviours, with their lines, are the `hazards` of `PROJECT.json`.

## 2. Modules

| Module | What it is |
|---|---|
| `PendingCmd` | `pendingCmd`: slot, channels, where every caller of `wait` is, what every `deliver` has copied |
| `Mailbox` | the abstract promise of `pendingCmd`, without slot, channel or mutex; `PendingCmd` implements it: `KeepsPromise` its steps, `EveryWaitReturns` its fairness |
| `Link` | the abstract promise of a connection: opened once, closed as asked or with a signal |
| `Conn` | `sockets.Conn`; implements `Link`: `KeepsLink` its steps, `NoticesLosses` its fairness |
| `Supervisor` | `startWinetService` with `/health`, over an abstract `Connect` |
| `WinetSession` | the whole session; uses an instance of `PendingCmd` (its slot), of `Supervisor` (its abstraction, `ActsAsSupervisor`) and one of `Link` per connection (`ConnectionsAreLinks`) |
| `Publisher` | `MultiPublisher`, the normalizer, a database and the MQTT service |
| `AuthTokens` | the refresh tokens |
| `Migration` | the migrations |
| `Storage` | `Migration` and `AuthTokens` composed: a start, the service, the next start |
| `Requests` | HTTP requests: middleware, handlers, commands, the inverter's registers |
| `Process` | `Supervisor` and `Requests` composed with the errgroup, the HTTP server's life and the error handler |
| `MC...` | the instances for TLC |
| `PendingCmd_proofs`, `Conn_proofs`, `Publisher_proofs`, `Storage_proofs` | theorems about the module of that name |
| `Process_proofs` | theorems about `Supervisor`, `Requests` and `Process` |
| `WinetSession_proofs`, `WinetSession_types`, `WinetSession_answers` | theorems about the session, each on top of the one before: its structure and refinements; its types and its slot; whose session polls, whose answers are taken |

So the layers meet at abstract specifications: `Conn` implements what
`WinetSession` assumes of a connection, and `WinetSession` implements the
`Supervisor` that `Process` is composed of.

Operators named `Action_Something` with the comment "Not the code" are wrong
variants of an action. No specification uses them; each stands for a plausible
bug, and one of the properties fails when it takes the place of its action.

### PendingCmd

One action per critical section and per channel operation: `Register` (make a
channel, put it into the slot), `TakeValue` and `GiveUp` (the select),
`Leave` (the deferred reset), `Snapshot` (deliver copies the slot under the
mutex), `Push` (the non-blocking send after the unlock). A caller makes a new
channel per call, so its channel is named after it; a copy of a channel whose
call has returned becomes `Dead`. `Serial` is the assumption of the comment at
`winet.go:32`, that callers take turns.

### Conn

A step is what a goroutine does between two points where it can wait: the
mutex, a read, a write, a select. `mu` names the writer that is inside
`WriteMessage`, which has no deadline and keeps the mutex; the other critical
sections are one step. `LooksAtQueue` reads `len(c.msgQueue)` without the
mutex and may see an old value. `DialFails` may or may not signal, because
`onError` passes over `io.EOF`. A client closes only what it has dialled: that is
what `reconnect` does.

### Supervisor

`sup` is the place in the loop of `startWinetService`; `Check`,
`ConnectFails`, `ConnectReturns`, `BackoffElapses`, `TakeEvent` and `SeeDone`
are its transitions. `Signal` is the service putting an event into the channel
of capacity one.

### WinetSession

An *epoch* is a call of `Connect`; the epoch names the `loginReady` channel,
the poll context, the connection and the poll loop of that call. `conn`,
`token`, `cancelFn`, `device`, `props` are the fields of `winet.service`
(0 for nil or ""); `token` is the epoch whose device session issued it. The
sets `loggedIn` and `cancelled` are the closed `loginReady` channels and the
cancelled poll contexts. `sock[e]` is the websocket of epoch `e`: open,
broken (lost, not noticed yet) or closed.

An *exchange* is a request on its way, its answer, and the goroutine that
handles the answer: `todo` (the goroutine of `onconnect`), `sent`, `arrived`
/ `expired` / `bad` (a handler goroutine with a good answer, a "login
timeout", one that does not unmarshal), `failed` (a handler whose own `Send`
failed), `shown` (published, not yet delivered) and `delivering` (holds a copy
of the slot). Exchanges are independent, so answers may overtake each other
and handlers may run after their connection is closed.

| Actions | Code |
|---|---|
| `Check` ... `SeeDone` | `startWinetService` with `Connect` and `reconnect` opened up: `CancelPoll`, `FetchProperties`, `CloseOld`, `DialFails`, `DialSucceeds`, `Install`, `StartPoll` |
| `Break`, `Notice`, `Receive`, `NoAnswer` | the network, `readLoop`, `setupPing`, the device |
| `Greet`, `HandleConnect`, `HandleLogin`, `HandleExpired`, `HandleError`, `Publish`, `Deliver`, `FinishDeliver` | `onconnect`, `onMessage` and the handlers |
| `Wait`, `GetAnswer`, `GiveUp` | `pending.wait` as called by loops and commands |
| `LoopEnter` ... `LoopTick` | `runPollLoop`, `queryDevices`, `sendQueryRequest`, `sendDeviceListRequest` |
| `CmdCheck`, `CmdSend`, `CmdReturns` | the six `Send...Command` functions, which share one shape |

Three variables are history: they record what happened and no guard reads them.
`stale` has the epochs in which a login message (or the answer to a connect) of
a session before was handled; `adrift` the callers of `wait` that, not being
cancelled, have given up on an answer still to come or have taken that of
another caller; both name the hazards H3, H7 and H9 of the code, so that a
property can say that they are the *only* way something goes wrong. `panic` is
what a goroutine has panicked of: a second `close(s.loginReady)`, a nil
`s.conn` in a command, a properties line without "=" (fault "page"), a reading
that is no number (fault "junk"). Nothing recovers it, so it is the end.

Abstractions, and why they are sound for what is checked:

* `getConn` and the `Send` after it are one step in the poll loop. The
  supervisor cancels the loop before it touches `s.conn`, so only a cancelled
  loop can hold an older connection than `s.conn`, and nothing such a loop
  does on it is signalled. The commands, which read `s.conn` twice without the
  lock, have both reads.
* `Receive` may still happen after shutdown, when `readLoop` would stop at its
  next turn: the model has more behaviours there, not fewer.
* The device answers a request at most once. Messages in pieces
  (`storedData`), `local` and `notice` messages are left out.
* A query of a stage is answered by data for that stage; a device list names
  `NumDevices` devices with `NumStages` stages each (the code skips devices
  without stages, which leaves a shorter list). The cycle that ends because
  the list is empty ends like the one whose answer has another type.
* `DataPublisher` may return errors, as its interface says; `MultiPublisher`
  itself logs them and returns nil.
* A command is sent once; what it says is in `Requests`.

### Publisher

A call of `PublishData` goes through the sensors of its batch (`load`, and
`store` if `shouldUpdate` finds a new value: the map is read and written in
two steps), then writes to the database (`insert`: one row per step, visible
at `Commit`) and to the broker (`mqtt`: one point per step). The reading of a
sensor is nil, "--", a number or something that is no number, which for a
numeric sensor makes `Normalize` panic: then the process is gone and `Restart`
is the only step left of it. A point in the database carries the boot that wrote
it. `RegisterDevice` shares nothing with `PublishData`.

The constant `World` is a set of assumptions about the surroundings, one of
which holds in each behaviour: whether calls take turns (`serial`; the calls
of one poll loop do, as long as no answer is late), whether the database may
fail, what the broker may do, whether the process may be restarted.

### AuthTokens, Migration, Storage

Every access to the cache and every statement is a step of its request; the
cleanup is a goroutine with its own steps. `left` are the tokens Logout was
called with, `revoked` those it has deleted from the table. `takeTurns`
and `dbFails` are assumptions, chosen at the start of a behaviour: whether the
requests with one token take turns, and whether the database may fail. The
token's hash stands for the token.

With Oracle each statement commits by itself and fails when it is repeated;
with Postgres a file is applied as a whole between being marked dirty and
clean. `Stop` ends the process between any two steps, at most `MaxFaults`
times. In `Storage`, requests are answered only while `boot = "up"`, and an
end empties the cache.

### Requests, Process

A request has a `door` (the goroutine of net/http) and a `hand` (the handler's
goroutine, which lives on after a 504). The door is "accepted" while net/http
waits for the header, up to the server's `ReadTimeout` (`HangUp`), then "open"
while the middleware waits for the handler, up to its 5 s. `status` is what
was written first; `told` is what reaches the client when the middleware
returns, which is nothing ("gone") if the server's `WriteTimeout` has passed: it counts
from the header, so it comes before a 504 of as many seconds. A command finds a
connection (`FindConn`) and then sends (`Command`), and panics if a reconnect
has taken the connection in between. Its message and answer are its
`flight`; `Execute` writes the registers (`reg`) of the inverter. The slot of
`pendingCmd` is one variable here, its steps between register and reset taken
together; `PollLoop` is what the poll loop may do to it. `turns` is the
assumption that a command is made when the one before is over.
`executed` and `inForce` are history: what the inverter has executed, and what
was asked for last in each of the three concerns (battery, feed-in, switch).

`Process` adds `run`, `http`, `errh`, `drain` and `sig`. `GroupCancels` is
the errgroup: the first goroutine that returns cancels the others.
`ListenFails` is a failing `ListenAndServe`, which only logs: the server is
"deaf". Shutdown closes the listener, but a connection that was accepted
before is still served when its header comes; `late` (history) has those
requests. `run` is "exited" when `Run` has returned and "crashed" after a
panic: of a handler, which `Converse` allows only while `/health` does not say
"connected" (`NilWhileAway` of `WinetSession`), or of a goroutine of the
session (`SessionPanics`, for any of its panics). Time is a common
`Tick`; no deadline of net/http, of the middleware or of `Shutdown` is passed
over, but handlers may be as late as they like.

## 3. Runs

| Run | Shows |
|---|---|
| `pending_shared` | two overlapping callers, two handlers, two values: no late delivery, implements `Mailbox`, every call returns |
| `process` | why `Run` returns, that it returns when told or when the inverter stays away, that `/health` is honest and never "reconnecting" for ever, which requests a shutdown may cut off, and that none is left behind by a 504 |
| `requests` | two requests with six commands, an unknown state and a bad payload: 204 only for an executed command; the last command of each concern is in force |
| `session_overlap` | two sessions that overlap in every way: one websocket, one poll loop, honest health, implements `Supervisor`, connections are `Link`s, polls stay in their session and gates close once but for stale logins |
| `session_polls` | one session, two devices, two stages, all faults, answers in time, late or lost: right answers and right device for every loop that is not adrift |
| `session_live` | liveness, two sessions: a lost connection is replaced or the service stops; the end of a cancelled loop, wherever it is |
| `session_shutdown` | liveness, one session: a complete shutdown with a command and an unanswered request |
| `conn` | two senders, `setupPing`, `readLoop` and `Close` on one mutex: implements `Link`, a loss is noticed and told once, no write after close, `Close` returns, no goroutine is left |
| `publisher` | two calls, two sensors, a device, failing backends, a restart: what is dropped is published, only changes are, a device passed over is announced |
| `storage` | either database, two interrupted starts, one token with two requests and the cleanup: logout sticks, sessions last, records are true, requests meet a whole schema, expired tokens go, the process comes up again |
| `find_*` | two statements of the repository's comments that the code does not live up to; see section 6 |

Properties that only say a variable has its type are not spent a run on: each
component has a `TypeOK`, and all of them are theorems (section 5).

Bounds.

* *Session.* `MaxEpoch = 2` gives a session, its replacement and everything
  that can be left over from the first: goroutines of a session before the last
  but one behave like those of the last but one, since they are cancelled and
  their connection is closed. `session_overlap` needs one exchange at a time: a
  single stale message opens the wrong gate; with lost connections, failing
  dials and fetches, login timeouts and shutdown it has about 3.1 million
  states and takes over three minutes, and is as large as it can be; the
  theorems have no such bound. What happens within a session is left to
  `session_polls`: `MaxFlight = 2` lets a late answer be handled while the next
  request is out, two devices with two stages have every transition of
  `queryDevices`, and all faults occur. `MaxFails = 2` has a failure that is
  retried and one that is not. In `session_live` there is one replacement:
  if its dial fails the model is at its end, which `LostIsReplaced` allows; a
  third session is out of reach of a liveness check. That repeated failures
  lead back to a session or to the end is `ReconnectingEnds` of `Process`,
  whose supervisor the session implements. With `MaxEpoch` reached, the model
  stops at the top of the supervisor's loop, and the supervisor stops anyway on
  shutdown or after `MaxFails` failures: the session runs do not check for
  deadlock.
* *Connection.* Two senders beside `setupPing` contend for the mutex;
  `MaxQueue = 2` has an empty, a part full and a full queue. The end of the
  connection is the end of the model, so deadlock is not checked.
* *Publisher.* One sensor with a factor of 1000 and one text sensor are the
  two branches of `Normalize`, and two make a batch that can be cut in the
  middle. Each world of `MCWorld` fixes one assumption that a property needs
  and leaves everything else to the worst; worlds with fewer faults have fewer
  behaviours. Overlap and restart are taken in separate worlds.
* *Storage.* Tokens do not interact, so one is enough; two requests and the
  cleanup race for it. Two files, the first with two statements, can be left
  between statements, after the last one and recorded. `MaxFaults = 2`
  lets an end meet what an earlier one has left.
* *Requests, Process.* Two requests are an answer and somebody it could be
  mistaken for. `discharge` and `on` are left out of the asks because they
  write the same registers as `charge` and `off`; the theorem has them all.
  In `process` one request that commands and one that reads; deadlines of one
  tick (5 s for header, answer and request) and two ticks (10 s for `Shutdown`)
  are those of the code. The process exits, requests are finite: deadlock is not
  checked.

Assumptions that are constants or are chosen at the start, not facts:

* `Faults`: which faults occur. Every kind occurs in `session_polls`, and
  those that end a session in `session_overlap`.
* `turns`, `serial`, `takeTurns`, `dbFails`, `mqttFails`: as above. They are
  variables that never change, so that a run covers both values and a property
  names the one it needs: `TruthfulAnswers` needs `turns`, `LogoutSticks` needs
  `takeTurns`, `DatabaseFollows` needs `serial` and a database that works.

The session has no such assumption: sessions overlap and answers come late in
the runs, and in the theorems commands interfere as well. Instead `RightAnswer`, `DataUnderItsDevice`,
`PollsOwnSession` and `ClosedOnce` name in `adrift` and `stale` the one cause
that breaks them. Both do occur: see section 6.

## 4. Fairness

* `PendingCmd`, `Mailbox`: a timer fires and a deferred function runs. Nothing
  is assumed of the handlers, so a call returns though its answer is lost.
* `WinetSession`: weak fairness for goroutines that can run, for timers and
  for the notice of a lost connection (a read fails, or the 8 s ping; not
  after the context is cancelled, when those goroutines return). Strong
  fairness for a poll loop, its reaction to its context, and the send of a
  command: Go's `select` chooses at random among ready cases, and a `Send`
  waits for no one; the bound `MaxFlight` is of the model only. Neither the
  properties fetch nor the dial has a timeout: `Connect` is only sure to
  return once the context is cancelled, so `LostIsReplaced` has as its premise
  that it keeps returning. No property assumes more than it needs: `LostIsReplaced`
  names `SupervisorFairness` (the supervisor and the notice of losses),
  `CancelledLoopsEnd` names `LingeringFairness` (cancelled poll loops and
  handlers), and `session_shutdown` has `FairSpec`, all of it.
* `Conn`: weak fairness for steps that wait for nothing and for the end of a
  write (the kernel takes the bytes or gives the connection up); strong
  fairness for the steps that need the mutex, which Go hands over in turn to a
  goroutine that has waited for more than a millisecond, and for the failing
  read, because only so many messages are left in a closed connection.
* `Publisher`: none; its properties are of safety.
* `Storage`: docker starts the process again, which then goes on; the
  hourly ticker ticks and handlers run while the process is up.
* `Process`: goroutines are scheduled and time passes; `Connect` returns once
  cancelled. `ProcessGivesUp` and `ReconnectingEnds` have as their
  premise that `Connect` keeps returning. Nothing is assumed of clients and inverter.

## 5. Proofs

All are for arbitrary constants, under the named assumptions of the modules
(`PendingAssumption`, `MaxFailsAssumption`, `SessionAssumption`,
`ConnAssumption`, `PublisherAssumption`, `TokenAssumption`,
`MigrationAssumption`, `RequestsAssumption`, `ShutdownAssumption`), which TLC
evaluates in the runs.

* **PendingCmd**: types; then `SlotIsLive` and `NoLateDelivery` together,
  because `deliver` copies the slot: a copy names a call in progress only if
  the slot does. `SingleSlotSuffices`: under `Serial`, `NoOrphan` with the
  strengthening `OneCall` (calls exclude each other up to the deferred reset).
  `PendingImplementsMailbox`: every step is a step of `Mailbox` or a stutter.
  `PromiseInv` is what it needs: a value is buffered only for a call that still
  waits, and a call has an answer exactly when it is leaving; so `Push` into a
  copy of a slot is `Mailbox`'s handing over, or nothing.
* **Supervisor**: `SupInv` adds to its properties that the count is below the
  limit until the goroutine stops; without that `StopsForAReason` is not
  inductive.
* **Session, structure** (`WinetSession_proofs`): `SessionInv` is `Shape`
  (the few types that are needed), `ConnInv` (only `s.conn` is up, except
  between a dial and its installation, when only the new connection is),
  `PollInv` (the only loop not cancelled is the one `s.cancelPoll` cancels;
  none while `Connect` works) and `HealthInv`. Every goroutine but the
  supervisor's is `Gentle`: it closes connections and ends its own loop but
  opens and starts nothing. So the proof has two halves: `Gentle` steps keep
  `SessionInv`, once; and each supervisor step does. From it follow
  `AlwaysOneConnection`, `AlwaysOnePollLoop`, `AlwaysConnectedMeansConn`, with
  no assumption about overlap, timing or faults.
* **Session, refinement**: `SessionImplementsSupervisor`, with all states of
  the supervisor inside `Connect` mapped to "connect"; the other goroutines
  only `Signal` or stutter. `SessionUsesLinks`: every epoch's connection takes
  only steps of `Link`; needs `FreshInv`, that connections of epochs to come
  are not there yet.
* **Session, types** (`WinetSession_types`): part by part; needs `SessionInv`
  and `Begun` (no exchange exists before the first `Connect`, so the login
  handler always has a `loginReady` channel to close).
* **Session, slot** (`WinetSession_types`): `SessionUsesPendingCmd`. Each step
  of the session is a step of its instance of `PendingCmd`, or leaves the slot
  alone. The instance has `Serial = FALSE`: nothing in the session makes the
  callers take turns.
* **Session, whose polls and whose answers** (`WinetSession_answers`): no
  hypotheses beyond the constants: sessions overlap, answers are late and
  commands share the slot. `HandshakeInv` has four parts. `KindInv`: only
  commands ask for parameters, and what logs in passes by the slot. `GreetInv`:
  a connection is logged in by one exchange, and while that of the current
  epoch is under way or still to come, its gate is closed, unless a stale login
  has opened it. `LoginInv`: in such an epoch, once its gate is open, the token
  is the epoch's own. `LoopInv`: a loop in service waits for the gate of the
  current epoch, and past it that gate is open. Together they give
  `PollsStayInTheirSession` and `NoDoubleClose`. Cancelled loops and old
  handlers take part in every step; what keeps them out is that the facts are
  about the current epoch only, and that whatever an old handler does to it
  puts it into `stale`.

  `AnswerInv` is about a loop's turn (`TurnInv`): while a loop in service is
  not adrift, at most one exchange asks on its behalf and it is its last
  request; once the channel holds a value, or the loop has its answer, none
  does. A `wait` that gives up while something of its own is on the way, or
  takes a value that is not its own, puts the loop adrift, and then nothing is
  claimed. So `AlwaysRightAnswer` says that these are the only ways to a wrong
  answer; a command or a cancelled loop on the same slot is not another one.
  `DeviceInv`: between registering a device and the end of its query,
  `s.currentDevice` is the loop's or that of a cancelled loop, which is what
  `DataFindsItsDevice` needs. `PanicsOnlyWhileAway` follows from
  `AlwaysConnectedMeansConn`; `Process` uses it for the panic of a command. The
  least free number for a new exchange (`NextFree`) is a number that is free:
  the well-foundedness of the numbers is used there.
* **Conn**: `ConnInv` adds to types and properties that the mutex belongs to
  the one goroutine that writes, and that `closed`, `done` and the websocket
  agree. With it `ConnImplementsLink`: the initial state and every step map to
  `Link` (`KeepsLink`; its fairness, `NoticesLosses`, stays with TLC).
  `SignalledOnce` (`ToldAtMostOnce`) uses it for the mutex: whoever calls
  `onError` has looked at `closed` in the same critical section.
* **Publisher**: a dropped value is in the database *or on its way there in the
  batch of a call in progress* (`DbInv`, `BrokerInv`); for that the batch must
  agree with the map (`CallInv`), which is where calls must take turns.
  `AnnouncementsHold`: a device that waits for its token has been retained
  (`AnnounceInv`).
  `WritesOnlyChanges` is the other direction and needs its own invariant:
  `ChangeInv` says that the row last written by this process and the map agree
  up to the batch on its way (`RowsFollowMap`), and that what is in that batch,
  or about to be, is not in the row (`BatchIsNew`). A row carries the boot that
  wrote it, so a restart, which empties the map, makes every row an old one.
* **Storage**: `TokenInv` says of each request what it knows of its token
  (`RequestInv`), that a usable token is in the table, and that with
  `takeTurns` nothing is about to bring a revoked one back; `MigInv` adds
  `BootInv`, what was recorded before the file a start is at. `StorageInv`
  joins them: a request is in progress only while the process is up.
* **Requests**: `AnswersInv`. What makes `TruthfulAnswers` inductive is that
  with `turns` at most one command is under way (sent, awaited or on the
  wire), so an answer finds in the slot nobody or its own request.
  `CommandsAlwaysCompose` goes command by command: each shows itself, and
  leaves the registers of the other concerns alone.
* **Process**: `ProcessImplementsRequests` carries the theorems over;
  `DrainInv`: a request that is open while the server drains, and arrived
  before, is at least as old as the draining, so it is over first
  (from `RequestLimit < ShutdownLimit`, the code's 5 s and 10 s); one
  that arrived in the drain came within `ReadLimit` of its beginning, so it could
  only be cut off if the two limits add up to `ShutdownLimit`
  (`NobodyCutOff`). `ReasonInv`: the context is cancelled for a reason and
  nothing but a panic ends before it.
Every safety property of a passing run is a theorem: invariants, action
properties and the steps of the refinements. Only model-checked is what
speaks of fairness, which the provers do not reach: `EveryWaitReturns`,
`NoticesLosses`, `ComesToItsEnd`, `LostIsReplaced`,
`CancelledLoopsEnd`, `ShutdownQuiesces`, `ExpiredGoes`, `ComesUp`,
`AnsweredAndEnds`, `EndsWhenTold`, `ProcessGivesUp`, `ReconnectingEnds`. Proved
but not run: the types, `NoOrphan`, `FailsAreCounted`, `StopsForAReason` of the
supervisor alone (the process has `ExitsForAReason`), `NilWhileAway` and that a
session's slot is a `PendingCmd`. What is proved of `PendingCmd` is not
restated for the session: it carries over for constants that meet
`PendingAssumption`.

## 6. What the code does not live up to

Each of the first two is a run with one violated property and a finding in
`PROJECT.json`.

* `find_loop_dies`: "Cancelling ctx is the only way to stop it"
  (`poller.go:22`). One unanswered device list ends the loop for good; nothing
  is signalled, `/health` stays "connected".
* `find_nil_connection`: "cannot produce a nil-pointer dereference"
  (`winet.go:111`). The commands do not go through `getConn`.

Three more are stated as properties that no run has, because TLC finds each
violated as soon as it is added to the constants named:

* `PollsLoggedIn` (`FindNilConnection.cfg` without the command): "the poll loop blocks until the login handshake
  completes" (`winet.go:302`). A login message of the session before, handled
  late, opens the new gate. If the new session's own login follows, it closes
  a closed channel, and the process is gone.
* `AnswersInTurn` (`FindLoopDies.cfg` with `MaxFlight = 2`): "strictly serial (one outstanding request at a time)"
  (`winet.go:32`). Even alone the poll loop can take the late answer to a
  request it gave up on; an HTTP command overlaps the poll loop in any case.
* `DeafEnds` (`Process.cfg`): "a fatal error from any goroutine shuts the whole
  process down" (`docs/developer/developer.md:63`). A listener that fails
  leaves a process without an API.

Further ones, which show when an assumption of section 3, or an exception that
a property names, is dropped:

* Without `turns`: one command's answer may be another one's 204.
* Without `serial`: overlapping calls of `PublishData` may leave in the
  database another value than in the map.
* Without `takeTurns`: a Refresh that has read the table before a Logout of
  the same token puts it back into the cache.
* Without `late` in `NotCutOff`: a request whose header comes five seconds
  into the shutdown has until its end; `Shutdown` gives up at that moment.
* With a broker that replies with errors (`PassedOverIsAnnounced`): a device
  goes for announced that is not.
* `HalfApplied`: an Oracle start that ends inside a file leaves what no later
  start gets over, and a dirty Postgres likewise; `ComesUp` names it as the
  one exception.

## 7. Not modelled

* Reassembly of messages (`storedData`, `winet.go:181`): data below the level
  of an exchange.
* `time.Second * PollInterval` (`poller.go:58`) and `reconnectBackoff`
  (`cmd.go:73`): arithmetic on 64-bit nanoseconds, beyond TLC's integers and
  without state; the models say that the wait ends.
* The format of readings, topics, payloads, tokens and passwords.
* The validation of access tokens: they have no state, `Requests` lets a request
  be turned away or not.
* The read queries, which change nothing, and `Cleanup`, which nobody calls.
* Configuration, model types and contexts (data), `createuser` and password
  hashing (one-shot tools), mocks and the embedded API description.
* What a handler writes to the `ResponseWriter` after the middleware has
  returned, beyond that it changes no status that was sent.
* The length of delays: that publishing holds an answer up for seconds
  (`direct.go:86`) is possible in `session_polls`, where answers may be as late
  as they like, but no property bounds it.
* The browser's side of cookies: the refresh cookie has the path
  `/auth/refresh` (`server.go:197`, `232`), so a browser does not send it to
  `/auth/logout`, although `developer.md:256` speaks of it there;
  `AuthTokens` begins with a request that brings its token.
